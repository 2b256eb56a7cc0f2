---------------------------- MODULE SettingsWriter ----------------------------
(***************************************************************************)
(* "models sync" commands (src/cli/models/sync-run.ts) that update one     *)
(* settings file (src/cli/models/settings-writer.ts), each a process of    *)
(* its own, next to an editor that knows nothing of their lock.  The text  *)
(* of a file is the set of the changes that are in it: each changes the    *)
(* models of the same provider.                                            *)
(***************************************************************************)
EXTENDS Naturals, FiniteSets

CONSTANTS
  Commands,           \* runs of the command, with process ids of their own
  Edits,              \* saves of the editor
  first, dead,        \* the first file; a process that is gone
  None

VARIABLES
  target,             \* the inode that settingsPath leads to
  inode,              \* of an inode: its text, how often its metadata changed
  lock,               \* the lock file: its owner and whether the pid is written, or None
  proc,               \* of a command: pc, what it read, ...
  saved,              \* the changes whose author was told that they are saved,
  late                \* those of them that came while a command was not looking

vars == <<target, inode, lock, proc, saved, late>>

Idle == [pc |-> "load", loaded |-> {}, rawText |-> {}, snapshot |-> None, stats |-> 0, seen |-> None,
         recoveryAttempted |-> FALSE]

Init ==
  /\ target = first
  /\ inode = [i \in {first} \cup Commands \cup Edits |-> [text |-> {}, changes |-> 0]]
  /\ lock \in {None} \cup [owner : {dead}, written : BOOLEAN]
  /\ proc = [c \in Commands |-> Idle]
  /\ saved = {} /\ late = {}

-----------------------------------------------------------------------------
At(c, pc) == proc[c].pc = pc

Goes(c, pc) == proc' = [proc EXCEPT ![c].pc = pc]

Files == <<target, inode, saved, late>>

Text(i) == inode[i].text

(* Another link of a file, or one less, changes the file's ctime.          *)
Relinked(i) == [inode EXCEPT ![i].changes = @ + 1]

(* Not looking: before it reads the text that its writer will compare, and *)
(* after the last comparison.                                              *)
Inattentive(c) == At(c, "read raw text") \/ At(c, "rename")

Save(author, i, files) ==
  /\ target' = i /\ inode' = files
  /\ saved' = saved \cup {author}
  /\ late' = IF \E c \in Commands \ {author} : Inattentive(c) THEN late \cup {author} ELSE late

-----------------------------------------------------------------------------
(* runModelsSync                                                           *)

\* loadSettingsFromFile
Load(c) ==
  /\ At(c, "load")
  /\ proc' = [proc EXCEPT ![c].pc = "read raw text", ![c].loaded = Text(target)]
  /\ UNCHANGED <<lock, Files>>

\* readFile; the models are discovered and selected, the changes confirmed
ReadRawText(c) ==
  /\ At(c, "read raw text")
  /\ proc' = [proc EXCEPT ![c].pc = "acquire", ![c].rawText = Text(target)]
  /\ UNCHANGED <<lock, Files>>

\* nothing to sync or to apply, a dry run, a cancelled prompt, a failure
Stop(c) ==
  /\ proc[c].pc \in {"load", "read raw text", "acquire"} /\ ~proc[c].recoveryAttempted
  /\ Goes(c, "ended")
  /\ UNCHANGED <<lock, Files>>

-----------------------------------------------------------------------------
(* acquireSettingsLock, removeStaleSettingsLock                            *)

Acquire(c) ==
  /\ At(c, "acquire")
  /\ IF lock = None THEN
       lock' = [owner |-> c, written |-> FALSE] /\ Goes(c, "write lock")
     ELSE
       Goes(c, IF proc[c].recoveryAttempted THEN "ended" ELSE "read lock") /\ UNCHANGED lock
  /\ UNCHANGED Files

WriteLock(c) ==
  /\ At(c, "write lock")
  /\ \/ /\ lock' = IF lock # None /\ lock.owner = c THEN [lock EXCEPT !.written = TRUE] ELSE lock
        /\ Goes(c, "link")
     \/ lock' \in {None, lock} /\ Goes(c, "ended")
  /\ UNCHANGED Files

(* readSettingsLockSnapshot: a lock with no pid in it is not taken over.   *)
ReadLock(c) ==
  /\ At(c, "read lock")
  /\ IF lock # None /\ lock.written THEN proc' = [proc EXCEPT ![c].pc = "probe", ![c].seen = lock]
     ELSE Goes(c, "ended")
  /\ UNCHANGED <<lock, Files>>

Alive == {c \in Commands : proc[c].pc \notin {"ended", "dead"}}

(* kill(pid, 0): the pid of a process that is gone may be in use again.    *)
Probe(c) ==
  /\ At(c, "probe")
  /\ \/ proc[c].seen.owner \notin Alive /\ Goes(c, "recheck lock")
     \/ Goes(c, "ended")
  /\ UNCHANGED <<lock, Files>>

RecheckLock(c) ==
  /\ At(c, "recheck lock")
  /\ Goes(c, IF lock = proc[c].seen THEN "unlink" ELSE "ended")
  /\ UNCHANGED <<lock, Files>>

Unlink(c) ==
  /\ At(c, "unlink")
  /\ IF lock = None THEN Goes(c, "ended")
     ELSE proc' = [proc EXCEPT ![c].pc = "acquire", ![c].recoveryAttempted = TRUE]
  /\ lock' = None
  /\ UNCHANGED Files

-----------------------------------------------------------------------------
(* writeSettingsFile, with the lock: any step may fail, and goes on to     *)
(* the cleanup.                                                            *)

Fails(c) ==
  /\ proc[c].pc \in {"link", "stat", "compare", "write temporary", "compare again", "check", "rename"}
  /\ Goes(c, "clean up")
  /\ UNCHANGED <<lock, Files>>

\* the snapshot is a second link of the file
Link(c) ==
  /\ At(c, "link")
  /\ proc' = [proc EXCEPT ![c].pc = "stat", ![c].snapshot = target]
  /\ inode' = Relinked(target)
  /\ UNCHANGED <<lock, target, saved, late>>

Stat(c) ==
  /\ At(c, "stat")
  /\ proc' = [proc EXCEPT ![c].pc = "compare", ![c].stats = inode[proc[c].snapshot].changes]
  /\ UNCHANGED <<lock, Files>>

SameText(c) == Text(proc[c].snapshot) = proc[c].rawText

Compare(c) ==
  /\ At(c, "compare")
  /\ Goes(c, IF SameText(c) THEN "write temporary" ELSE "clean up")
  /\ UNCHANGED <<lock, Files>>

(* The models are replaced by those of the plan, which was made of what    *)
(* was loaded.                                                             *)
WriteTemporary(c) ==
  /\ At(c, "write temporary")
  /\ inode' = [inode EXCEPT ![c].text = proc[c].loaded \cup {c}]
  /\ Goes(c, "compare again")
  /\ UNCHANGED <<lock, target, saved, late>>

CompareAgain(c) ==
  /\ At(c, "compare again")
  /\ Goes(c, IF SameText(c) THEN "check" ELSE "clean up")
  /\ UNCHANGED <<lock, Files>>

(* Faulty: the file is compared by its inode alone.                        *)
Unchanged_Faulty(c) == target = proc[c].snapshot

(* isUnchangedFile                                                         *)
Unchanged(c) == target = proc[c].snapshot /\ inode[target].changes = proc[c].stats

Check(c) ==
  /\ At(c, "check")
  /\ Goes(c, IF Unchanged(c) THEN "rename" ELSE "clean up")
  /\ UNCHANGED <<lock, Files>>

Rename(c) ==
  /\ At(c, "rename")
  /\ Save(c, c, Relinked(target))
  /\ Goes(c, "clean up")
  /\ UNCHANGED lock

CleanUp(c) ==
  /\ At(c, "clean up")
  /\ inode' = IF proc[c].snapshot = None THEN inode ELSE Relinked(proc[c].snapshot)
  /\ Goes(c, "release")
  /\ UNCHANGED <<lock, target, saved, late>>

(* The lock file goes, whoever made it; or it cannot be removed.           *)
Release(c) ==
  /\ At(c, "release")
  /\ lock' \in {None, lock}
  /\ Goes(c, "ended")
  /\ UNCHANGED Files

(* A process is killed: its lock and its files stay.                       *)
Crash(c) ==
  /\ ~At(c, "ended") /\ ~At(c, "dead")
  /\ Goes(c, "dead")
  /\ UNCHANGED <<lock, Files>>

-----------------------------------------------------------------------------
(* The editor writes the file in place, or another one in its place.       *)
Edit(e) ==
  /\ e \notin saved
  /\ \/ Save(e, target, [inode EXCEPT ![target] = [text |-> @.text \cup {e}, changes |-> @.changes + 1]])
     \/ Save(e, e, [Relinked(target) EXCEPT ![e].text = Text(target) \cup {e}])
  /\ UNCHANGED <<lock, proc>>

Next ==
  \/ \E c \in Commands :
       \/ Load(c) \/ ReadRawText(c) \/ Stop(c)
       \/ Acquire(c) \/ WriteLock(c) \/ ReadLock(c) \/ Probe(c) \/ RecheckLock(c) \/ Unlink(c)
       \/ Link(c) \/ Stat(c) \/ Compare(c) \/ WriteTemporary(c) \/ CompareAgain(c) \/ Check(c)
       \/ Rename(c) \/ Fails(c) \/ CleanUp(c) \/ Release(c) \/ Crash(c)
  \/ \E e \in Edits : Edit(e)

Spec == Init /\ [][Next]_vars

-----------------------------------------------------------------------------
(* A change that was saved is in the settings file: whatever the commands  *)
(* and the editor do, and wherever a command is killed, the only changes   *)
(* that are lost are those that came between the load of a command and its *)
(* reading of the raw text, or between its last check and its rename.      *)
NoLostUpdate == saved \ late \subseteq Text(target)

(* "The lock serializes this tool's writers" (settings-writer.ts:387): no  *)
(* two commands that are running are between taking the lock and releasing *)
(* it.                                                                     *)
Holds(c) ==
  proc[c].pc \in {"link", "stat", "compare", "write temporary", "compare again", "check", "rename",
                  "clean up", "release"}

LockSerializesWriters == Cardinality({c \in Commands : Holds(c)}) <= 1
=============================================================================
