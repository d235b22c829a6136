--------------------------- MODULE SettingsManager ---------------------------
(***************************************************************************)
(* SettingsManager over FileSettingsStorage (packages/coding-agent/src/    *)
(* core/settings-manager.ts): the global and the project settings file,    *)
(* which all running processes and the user's editor share, and the copy,  *)
(* the marks of modified fields and the queue of writes of each process.   *)
(*                                                                         *)
(* A setter changes the copy and queues a write with a snapshot of it and  *)
(* of the marks; the write merges the marked fields into what the file     *)
(* holds then.  A reload waits for the tail of the same chain of promises, *)
(* so that writes and reloads take turns in the order they were asked for. *)
(* A turn is synchronous: the process does nothing else meanwhile, other   *)
(* processes do.                                                           *)
(*                                                                         *)
(* A field is a top-level setting, or a key of a nested one where the      *)
(* setters mark keys; its value is the number of the call that set it.     *)
(***************************************************************************)
EXTENDS Naturals, Sequences

CONSTANTS
  Proc,        \* the processes, one SettingsManager each
  Field,       \* the settings
  User,        \* the author of what no running process set
  None,        \* no lock on the file
  Dead,        \* the holder of a lock whose process died
  Absent,      \* the content of a file that does not exist
  Torn,        \* the content of a file that does not parse
  MaxSets,     \* bound: settings set, by processes and in an editor
  MaxCalls,    \* bound: reloads and changes of trust
  MaxFaults    \* bound: crashes, and files broken in an editor

ASSUME NamesAssumption == {None, Dead, User} \cap Proc = {}
ASSUME BoundsAssumption == {MaxSets, MaxCalls, MaxFaults} \subseteq Nat
\* What is not there, or does not parse, is no settings.
ASSUME ContentsAssumption ==
  Absent # Torn /\ {Absent, Torn} \cap [Field -> 0 .. MaxSets] = {}

VARIABLES
  pc,        \* where each process is
  turn,      \* the accesses to the files left in its synchronous section
  queue,     \* writeQueue: the writes and reloads that wait for their turn
  memory,    \* globalSettings and projectSettings
  marked,    \* modifiedFields and modifiedProjectFields
  trusted,   \* projectTrusted
  loadError, \* globalSettingsLoadError and projectSettingsLoadError
  errors,    \* an error was recorded
  file,      \* the two files
  lock,      \* the owners of their locks
  by,        \* who set value 1, 2, ...
  due,       \* what each process set and nobody has replaced since
  calls,     \* reloads and changes of trust so far
  faults     \* crashes and broken files so far

copy == <<memory, marked, trusted, loadError, errors>>
ghosts == <<by, due, calls, faults>>
svars == <<pc, turn, queue, copy, file, lock, ghosts>>

Scope == {"global", "project"}
Value == 0 .. MaxSets
Settings == [Field -> Value]
Empty == [f \in Field |-> 0]
Blank == [s \in Scope |-> Empty]

\* An access to a file: a load, or a write of the marked fields of a
\* snapshot.  A reload in the queue is of no scope.
Load(s) == [kind |-> "load", scope |-> s, snapshot |-> Empty, fields |-> {}]
Save(s, settings, fields) ==
  [kind |-> "save", scope |-> s, snapshot |-> settings, fields |-> fields]
ReloadJob == [kind |-> "reload", scope |-> "global", snapshot |-> Empty, fields |-> {}]

\* The project's file is loaded for a trusted project only.
Loads(trust) == IF trust THEN <<Load("global"), Load("project")>> ELSE <<Load("global")>>

Init ==
  /\ pc = [p \in Proc |-> "down"]
  /\ turn = [p \in Proc |-> <<>>]
  /\ queue = [p \in Proc |-> <<>>]
  /\ memory = [p \in Proc |-> Blank]
  /\ marked = [p \in Proc |-> [s \in Scope |-> {}]]
  /\ trusted = [p \in Proc |-> FALSE]
  /\ loadError = [p \in Proc |-> [s \in Scope |-> FALSE]]
  /\ errors = [p \in Proc |-> FALSE]
  /\ file = [s \in Scope |-> Absent]
  /\ lock = [s \in Scope |-> None]
  /\ by = <<>>
  /\ due = [p \in Proc |-> Blank]
  /\ calls = 0
  /\ faults = 0

\* fromStorage: a manager is made, for a project that is trusted or not.
Create(p) ==
  /\ pc[p] = "down"
  /\ \E trust \in BOOLEAN :
       /\ trusted' = [trusted EXCEPT ![p] = trust]
       /\ turn' = [turn EXCEPT ![p] = Loads(trust)]
  /\ pc' = [pc EXCEPT ![p] = "access"]
  /\ UNCHANGED <<queue, memory, marked, loadError, errors, file, lock, ghosts>>

-----------------------------------------------------------------------------
(* What the program calls.                                                 *)

\* A setter of the fields F of a scope.  After a failed load it changes the
\* copy only.
Set(p, s, F) ==
  LET n == Len(by) + 1 IN
  /\ pc[p] = "idle"
  /\ s = "project" => trusted[p]
  /\ n <= MaxSets
  /\ memory' = [memory EXCEPT ![p][s] = [f \in Field |-> IF f \in F THEN n ELSE @[f]]]
  /\ marked' = [marked EXCEPT ![p][s] = @ \cup F]
  /\ by' = Append(by, p)
  /\ IF loadError[p][s]
       THEN UNCHANGED <<queue, due>>
       ELSE /\ queue' = [queue EXCEPT ![p] = Append(@, Save(s, memory'[p][s], marked'[p][s]))]
            /\ due' = [due EXCEPT ![p][s] = [f \in Field |-> IF f \in F THEN n ELSE @[f]]]
  /\ UNCHANGED <<pc, turn, trusted, loadError, errors, file, lock, calls, faults>>

\* One more of the calls that are bounded.
Called ==
  /\ calls < MaxCalls
  /\ calls' = calls + 1
  /\ UNCHANGED <<by, due, faults>>

Reload(p) ==
  /\ pc[p] = "idle"
  /\ Called
  /\ queue' = [queue EXCEPT ![p] = Append(@, ReloadJob)]
  /\ UNCHANGED <<pc, turn, copy, file, lock>>

\* setProjectTrusted(true): the project's settings are loaded.
Trust(p) ==
  /\ pc[p] = "idle"
  /\ ~trusted[p]
  /\ Called
  /\ trusted' = [trusted EXCEPT ![p] = TRUE]
  /\ marked' = [marked EXCEPT ![p]["project"] = {}]
  /\ turn' = [turn EXCEPT ![p] = <<Load("project")>>]
  /\ pc' = [pc EXCEPT ![p] = "access"]
  /\ UNCHANGED <<queue, memory, loadError, errors, file, lock>>

\* setProjectTrusted(false): they are dropped.  What is queued stays queued.
Distrust(p) ==
  /\ pc[p] = "idle"
  /\ trusted[p]
  /\ Called
  /\ trusted' = [trusted EXCEPT ![p] = FALSE]
  /\ marked' = [marked EXCEPT ![p]["project"] = {}]
  /\ memory' = [memory EXCEPT ![p]["project"] = Empty]
  /\ loadError' = [loadError EXCEPT ![p]["project"] = FALSE]
  /\ UNCHANGED <<pc, turn, queue, errors, file, lock>>

-----------------------------------------------------------------------------
(* The queue.                                                              *)

HeadIs(p, kind) ==
  /\ pc[p] = "idle"
  /\ queue[p] # <<>>
  /\ Head(queue[p]).kind = kind
  /\ queue' = [queue EXCEPT ![p] = Tail(@)]

\* Nobody waits any more for what the write of op was to save.
NotDue(p, op) ==
  due' = [due EXCEPT ![p][op.scope] = [f \in Field |-> IF f \in op.fields THEN 0 ELSE @[f]]]

\* Mutant: whether the project is trusted is asked by the setters only.
MayWriteAlways(p, s) == TRUE

\* assertProjectTrustedForWrite, when the write has its turn.
MayWrite(p, s) == s = "project" => trusted[p]

StartWrite(p) ==
  /\ HeadIs(p, "save")
  /\ MayWrite(p, Head(queue[p]).scope)
  /\ turn' = [turn EXCEPT ![p] = <<Head(queue[p])>>]
  /\ pc' = [pc EXCEPT ![p] = "access"]
  /\ UNCHANGED <<copy, file, lock, ghosts>>

RefuseWrite(p) ==
  /\ HeadIs(p, "save")
  /\ ~MayWrite(p, Head(queue[p]).scope)
  /\ errors' = [errors EXCEPT ![p] = TRUE]
  /\ NotDue(p, Head(queue[p]))
  /\ UNCHANGED <<pc, turn, memory, marked, trusted, loadError, file, lock, by, calls, faults>>

\* reload() goes on: the marks are cleared, and both files are loaded, or
\* the project's settings are empty.
StartReload(p) ==
  /\ HeadIs(p, "reload")
  /\ marked' = [marked EXCEPT ![p] = [s \in Scope |-> {}]]
  /\ IF trusted[p]
       THEN UNCHANGED <<memory, loadError>>
       ELSE /\ memory' = [memory EXCEPT ![p]["project"] = Empty]
            /\ loadError' = [loadError EXCEPT ![p]["project"] = FALSE]
  /\ turn' = [turn EXCEPT ![p] = Loads(trusted[p])]
  /\ pc' = [pc EXCEPT ![p] = "access"]
  /\ UNCHANGED <<trusted, errors, file, lock, ghosts>>

-----------------------------------------------------------------------------
(* FileSettingsStorage.withLock: one access to one file.                   *)

Op(p) == Head(turn[p])

Go(p, label) ==
  /\ pc' = [pc EXCEPT ![p] = label]
  /\ UNCHANGED turn

\* The access is over; the synchronous section goes on to the next.
Done(p) ==
  /\ turn' = [turn EXCEPT ![p] = Tail(@)]
  /\ pc' = [pc EXCEPT ![p] = IF Len(turn[p]) = 1 THEN "idle" ELSE "access"]

Loaded(p, s, settings) ==
  /\ memory' = [memory EXCEPT ![p][s] = settings]
  /\ loadError' = [loadError EXCEPT ![p][s] = FALSE]
  /\ UNCHANGED errors

\* A load that fails leaves the copy as it is; a write that fails leaves the
\* marks as they are.
Failed(p, op) ==
  /\ errors' = [errors EXCEPT ![p] = TRUE]
  /\ loadError' = [loadError EXCEPT ![p][op.scope] = @ \/ op.kind = "load"]
  /\ IF op.kind = "save" THEN NotDue(p, op) ELSE UNCHANGED due
  /\ UNCHANGED <<memory, marked>>

\* existsSync: where there is no file a load has nothing to read, and a
\* write creates an empty one to lock.
LoadNothing(p) ==
  /\ pc[p] = "access"
  /\ Op(p).kind = "load"
  /\ file[Op(p).scope] = Absent
  /\ Loaded(p, Op(p).scope, Empty)
  /\ Done(p)
  /\ UNCHANGED <<queue, marked, trusted, file, lock, ghosts>>

MissFile(p) ==
  /\ pc[p] = "access"
  /\ Op(p).kind = "save"
  /\ file[Op(p).scope] = Absent
  /\ Go(p, "touching")
  /\ UNCHANGED <<queue, copy, file, lock, ghosts>>

\* Mutant: the file is opened for writing, which truncates it.
OpenTruncating(content) == Empty

\* openSync(path, "a"): a file that is there by now is left as it is.
OpenAppending(content) == IF content = Absent THEN Empty ELSE content

Touch(p) ==
  /\ pc[p] = "touching"
  /\ file' = [file EXCEPT ![Op(p).scope] = OpenAppending(@)]
  /\ Go(p, "locking")
  /\ UNCHANGED <<queue, copy, lock, ghosts>>

\* A file that is there, or was created, is locked before it is read.
Locking(p) ==
  \/ pc[p] = "locking"
  \/ pc[p] = "access" /\ file[Op(p).scope] # Absent

\* acquireLockSyncWithRetry.  The lock of a process that died can be taken
\* once it is ten seconds old.
Lock(p) ==
  /\ Locking(p)
  /\ lock[Op(p).scope] \in {None, Dead}
  /\ lock' = [lock EXCEPT ![Op(p).scope] = p]
  /\ Go(p, "locked")
  /\ UNCHANGED <<queue, copy, file, ghosts>>

\* Ten attempts, twenty milliseconds apart, find it taken.
LockFails(p) ==
  /\ Locking(p)
  /\ lock[Op(p).scope] # None
  /\ Failed(p, Op(p))
  /\ Done(p)
  /\ UNCHANGED <<queue, trusted, file, lock, by, calls, faults>>

\* The end of an access under the lock: the finally block releases it.
Locked(p, kind) ==
  /\ pc[p] = "locked"
  /\ Op(p).kind = kind
  /\ lock' = [lock EXCEPT ![Op(p).scope] = None]
  /\ Done(p)
  /\ UNCHANGED <<queue, trusted, by, calls, faults>>

\* tryLoadFromStorage
ReadFile(p) ==
  /\ Locked(p, "load")
  /\ file[Op(p).scope] # Torn
  /\ Loaded(p, Op(p).scope, file[Op(p).scope])
  /\ UNCHANGED <<marked, file, due>>

\* JSON.parse throws: the load fails, or the write does.
CannotParse(p) ==
  /\ \E kind \in {"load", "save"} : Locked(p, kind)
  /\ file[Op(p).scope] = Torn
  /\ Failed(p, Op(p))
  /\ UNCHANGED file

\* Mutant: the fields merged are those marked when the write has its turn.
MergedLive(p, op) ==
  [f \in Field |-> IF f \in marked[p][op.scope] THEN op.snapshot[f] ELSE file[op.scope][f]]

\* persistScopedSettings: the marked fields of the snapshot, and for the
\* others what the file holds.
Merged(p, op) ==
  [f \in Field |-> IF f \in op.fields THEN op.snapshot[f] ELSE file[op.scope][f]]

\* Mutant: the marks are kept.
MarksAsTheyAre(p, s) == marked

\* clearModifiedScope: all marks of the scope, those of later setters too.
MarksCleared(p, s) == [marked EXCEPT ![p][s] = {}]

\* Others do not wait any more for the fields that p writes.
Replaced(p, op) ==
  [q \in Proc |->
     IF q = p THEN due[q]
     ELSE [due[q] EXCEPT ![op.scope] =
             [f \in Field |-> IF f \in op.fields THEN 0 ELSE @[f]]]]

WriteFile(p) ==
  LET op == Op(p) IN
  /\ Locked(p, "save")
  /\ file[op.scope] # Torn
  /\ file' = [file EXCEPT ![op.scope] = Merged(p, op)]
  /\ marked' = MarksCleared(p, op.scope)
  /\ due' = Replaced(p, op)
  /\ UNCHANGED <<memory, loadError, errors>>

-----------------------------------------------------------------------------
(* The user's editor, and crashes.                                         *)

\* The user sets a field in an editor, and repairs the file on the way.
Edit(s, f) ==
  /\ Len(by) < MaxSets
  /\ by' = Append(by, User)
  /\ file' = [file EXCEPT ![s] =
                [(IF @ \in {Absent, Torn} THEN Empty ELSE @) EXCEPT ![f] = Len(by')]]
  /\ due' = [p \in Proc |-> [due[p] EXCEPT ![s][f] = 0]]
  /\ UNCHANGED <<pc, turn, queue, copy, lock, calls, faults>>

Break(s) ==
  /\ faults < MaxFaults
  /\ faults' = faults + 1
  /\ file' = [file EXCEPT ![s] = Torn]
  /\ due' = [p \in Proc |-> [due[p] EXCEPT ![s] = Empty]]
  /\ UNCHANGED <<pc, turn, queue, copy, lock, by, calls>>

\* The process is gone, and its memory with it; its locks stay.
Gone(p) ==
  /\ faults < MaxFaults
  /\ faults' = faults + 1
  /\ pc' = [pc EXCEPT ![p] = "down"]
  /\ turn' = [turn EXCEPT ![p] = <<>>]
  /\ queue' = [queue EXCEPT ![p] = <<>>]
  /\ memory' = [memory EXCEPT ![p] = Blank]
  /\ marked' = [marked EXCEPT ![p] = [s \in Scope |-> {}]]
  /\ trusted' = [trusted EXCEPT ![p] = FALSE]
  /\ loadError' = [loadError EXCEPT ![p] = [s \in Scope |-> FALSE]]
  /\ errors' = [errors EXCEPT ![p] = FALSE]
  /\ lock' = [s \in Scope |-> IF lock[s] = p THEN Dead ELSE lock[s]]
  /\ by' = [n \in DOMAIN by |-> IF by[n] = p THEN User ELSE by[n]]
  /\ UNCHANGED calls

Crash(p) ==
  /\ pc[p] # "down"
  /\ Gone(p)
  /\ due' = [due EXCEPT ![p] = Blank]
  /\ UNCHANGED file

\* It dies inside writeFileSync, which has truncated the file.
CrashInWrite(p) ==
  /\ pc[p] = "locked"
  /\ Op(p).kind = "save"
  /\ file[Op(p).scope] # Torn
  /\ Gone(p)
  /\ \E content \in {Torn, Empty} : file' = [file EXCEPT ![Op(p).scope] = content]
  /\ due' = [q \in Proc |-> IF q = p THEN Blank ELSE [due[q] EXCEPT ![Op(p).scope] = Empty]]

Next ==
  \/ \E s \in Scope :
       \/ \E f \in Field : Edit(s, f)
       \/ Break(s)
  \/ \E p \in Proc :
       \/ Create(p)
       \/ \E s \in Scope, F \in SUBSET Field \ {{}} : Set(p, s, F)
       \/ Reload(p)
       \/ Trust(p)
       \/ Distrust(p)
       \/ StartWrite(p)
       \/ RefuseWrite(p)
       \/ StartReload(p)
       \/ LoadNothing(p)
       \/ MissFile(p)
       \/ Touch(p)
       \/ Lock(p)
       \/ LockFails(p)
       \/ ReadFile(p)
       \/ CannotParse(p)
       \/ WriteFile(p)
       \/ Crash(p)
       \/ CrashInWrite(p)

Spec == Init /\ [][Next]_svars

-----------------------------------------------------------------------------
Job == [kind : {"load", "save", "reload"}, scope : Scope, snapshot : Settings,
        fields : SUBSET Field]

TypeOK ==
  /\ pc \in [Proc -> {"down", "idle", "access", "touching", "locking", "locked"}]
  /\ turn \in [Proc -> Seq(Job)]
  /\ queue \in [Proc -> Seq(Job)]
  /\ memory \in [Proc -> [Scope -> Settings]]
  /\ marked \in [Proc -> [Scope -> SUBSET Field]]
  /\ trusted \in [Proc -> BOOLEAN]
  /\ loadError \in [Proc -> [Scope -> BOOLEAN]]
  /\ errors \in [Proc -> BOOLEAN]
  /\ file \in [Scope -> Settings \cup {Absent, Torn}]
  /\ lock \in [Scope -> Proc \cup {None, Dead}]
  /\ by \in Seq(Proc \cup {User})
  /\ due \in [Proc -> [Scope -> Settings]]
  /\ calls \in Nat
  /\ faults \in Nat

\* flush() is a boundary (docs/sdk.md:873): with an empty queue, the file
\* holds what the process last set, unless another process or an editor has
\* set it since, or the write failed and its error is recorded.  The marks of
\* a field may be cleared by an earlier write, its own write still saves it.
SetIsSaved ==
  \A p \in Proc, s \in Scope, f \in Field :
    pc[p] = "idle" /\ queue[p] = <<>> /\ due[p][s][f] # 0 =>
      /\ file[s] \notin {Absent, Torn}
      /\ file[s][f] = due[p][s][f]

Waiting(p, s) ==
  {i \in DOMAIN queue[p] : queue[p][i].kind = "save" /\ queue[p][i].scope = s}
Running(p, s) == {i \in DOMAIN turn[p] : turn[p][i].kind = "save" /\ turn[p][i].scope = s}

\* As long as no error was recorded, a field is marked only while a write of
\* it waits or runs: a field saved once does not go with every later write,
\* over what an editor put there meanwhile.
MarksAreQueued ==
  \A p \in Proc, s \in Scope :
    ~errors[p] =>
      marked[p][s] \subseteq UNION ({queue[p][i].fields : i \in Waiting(p, s)}
                                \cup {turn[p][i].fields : i \in Running(p, s)})

\* A step of p that writes, not a crash.
Writes(p, s) == file'[s] # file[s] /\ pc'[p] # pc[p] /\ faults' = faults

\* A process replaces a setting in a file only by a value it set itself
\* (test/settings-manager-bug.test.ts:17-18), and creates a file without any.
OnlyOwnValues ==
  [][\A p \in Proc, s \in Scope, f \in Field :
       Writes(p, s) /\ file[s] \notin {Absent, Torn} /\ file'[s][f] # file[s][f]
       => file'[s][f] # 0 /\ by[file'[s][f]] = p]_svars

\* A file that does not parse is changed by the user only, whether it broke
\* before or after a process loaded it; and a process neither creates nor
\* writes the settings of a project that it does not trust, whatever writes it
\* queued when it did.
LeavesAlone ==
  [][/\ \A s \in Scope : file[s] = Torn /\ file'[s] # Torn => Len(by') > Len(by)
     /\ \A p \in Proc : Writes(p, "project") => trusted[p]]_svars
=============================================================================
