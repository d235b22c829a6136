-------------------------- MODULE FileMutationQueue --------------------------
(***************************************************************************)
(* withFileMutationQueue (packages/coding-agent/src/core/tools/            *)
(* file-mutation-queue.ts): the per-file queue that every write and edit   *)
(* of a file goes through.                                                 *)
(*                                                                         *)
(* An operation first goes through the registration queue, a chain of      *)
(* promises that settles one registration at a time.  Its registration     *)
(* resolves the path to a key (asynchronously: files come and go           *)
(* meanwhile), then chains the operation behind the last one of that key.  *)
(* It runs when the operation it is chained behind has released.           *)
(***************************************************************************)
EXTENDS Naturals

CONSTANTS
  Ops,          \* the calls of withFileMutationQueue
  NoOp,         \* "no operation": Promise.resolve(), an absent map entry
  Path,         \* absolute paths, after resolve()
  PathOf,       \* the path each operation is called with
  Canon,        \* what realpath answers for a path, when the file is there
  InitialFiles, \* the files there at the start
  Volatile,     \* the files that others (bash, another process) remove
  Unreadable    \* the paths on which realpath may throw, with another
                \* error than ENOENT or ENOTDIR

ASSUME OpsAssumption == NoOp \notin Ops
ASSUME PathAssumption ==
  /\ PathOf \in [Ops -> Path]
  /\ Canon \in [Path -> Path]
  /\ \A p \in Path : Canon[Canon[p]] = Canon[p]
  /\ InitialFiles \subseteq Path
  /\ Volatile \subseteq Path
  /\ Unreadable \subseteq Path

VARIABLES
  pc,                 \* where each operation is
  key,                \* the key its registration resolved
  currentQueue,       \* the operation whose release it awaits
  fileMutationQueues, \* per key, the operation at the end of the chain
  exists,             \* the files that are there, by canonical path
  rank,               \* the position of each call in the order of the calls
  calls               \* how many calls were made

qvars == <<pc, key, currentQueue, fileMutationQueues, exists, rank, calls>>

FileOf(op) == Canon[PathOf[op]]

Init ==
  /\ pc = [op \in Ops |-> "idle"]
  /\ key = PathOf
  /\ currentQueue = [op \in Ops |-> NoOp]
  /\ fileMutationQueues = [p \in Path |-> NoOp]
  /\ exists = InitialFiles
  /\ rank = [op \in Ops |-> 0]
  /\ calls = 0

\* The call chains the registration behind the registrations of the calls
\* made before it.
Call(op) ==
  /\ pc[op] = "idle"
  /\ pc' = [pc EXCEPT ![op] = "called"]
  /\ calls' = calls + 1
  /\ rank' = [rank EXCEPT ![op] = calls + 1]
  /\ UNCHANGED <<key, currentQueue, fileMutationQueues, exists>>

\* Mutant: a rejected registration leaves the registration queue pending.
RejectedRegisters(op) == pc[op] \in {"called", "resolved", "rejected"}

Registering(op) == pc[op] \in {"called", "resolved"}

\* registrationQueue: every registration chained before this one has settled.
RegistrationTurn(op) ==
  \A o \in Ops : Registering(o) => rank[op] <= rank[o]

\* Mutant: the path is used as it is given, without realpath.
ResolveVerbatim(op) ==
  /\ pc[op] = "called"
  /\ RegistrationTurn(op)
  /\ key' = [key EXCEPT ![op] = PathOf[op]]
  /\ pc' = [pc EXCEPT ![op] = "resolved"]
  /\ UNCHANGED <<currentQueue, fileMutationQueues, exists, rank, calls>>

\* getMutationQueueKey answers: the canonical path of a file that is there,
\* the path itself of one that is missing.
Resolve(op) ==
  /\ pc[op] = "called"
  /\ RegistrationTurn(op)
  /\ key' = [key EXCEPT ![op] =
               IF FileOf(op) \in exists THEN FileOf(op) ELSE PathOf[op]]
  /\ pc' = [pc EXCEPT ![op] = "resolved"]
  /\ UNCHANGED <<currentQueue, fileMutationQueues, exists, rank, calls>>

\* realpath throws: the caller gets the error and the registration queue
\* goes on.
ResolveFails(op) ==
  /\ pc[op] = "called"
  /\ RegistrationTurn(op)
  /\ PathOf[op] \in Unreadable
  /\ pc' = [pc EXCEPT ![op] = "rejected"]
  /\ UNCHANGED <<key, currentQueue, fileMutationQueues, exists, rank, calls>>

\* The rest of the registration, without an await in it.
Register(op) ==
  /\ pc[op] = "resolved"
  /\ currentQueue' = [currentQueue EXCEPT ![op] = fileMutationQueues[key[op]]]
  /\ fileMutationQueues' = [fileMutationQueues EXCEPT ![key[op]] = op]
  /\ pc' = [pc EXCEPT ![op] = "queued"]
  /\ UNCHANGED <<key, exists, rank, calls>>

\* Mutant: the chained promise resolves when its operation starts.
QueueReachedAtStart(op) ==
  currentQueue[op] \in {NoOp} \cup {o \in Ops : pc[o] \in {"running", "done"}}

\* A chained promise is resolved once its operation has released.
QueueReached(op) == currentQueue[op] \in {NoOp} \cup {o \in Ops : pc[o] = "done"}

\* await currentQueue returns and fn is called.
Start(op) ==
  /\ pc[op] = "queued"
  /\ QueueReached(op)
  /\ pc' = [pc EXCEPT ![op] = "running"]
  /\ UNCHANGED <<key, currentQueue, fileMutationQueues, exists, rank, calls>>

\* fn creates its file.
Mutate(op) ==
  /\ pc[op] = "running"
  /\ exists' = exists \cup {FileOf(op)}
  /\ UNCHANGED <<pc, key, currentQueue, fileMutationQueues, rank, calls>>

\* Mutant: the entry is dropped whoever chained behind.
LeaveDropsEntry(op) ==
  /\ pc[op] = "running"
  /\ pc' = [pc EXCEPT ![op] = "done"]
  /\ fileMutationQueues' = [fileMutationQueues EXCEPT ![key[op]] = NoOp]
  /\ UNCHANGED <<key, currentQueue, exists, rank, calls>>

\* Mutant: the entry is never dropped.
LeaveKeepsEntry(op) ==
  /\ pc[op] = "running"
  /\ pc' = [pc EXCEPT ![op] = "done"]
  /\ UNCHANGED <<key, currentQueue, fileMutationQueues, exists, rank, calls>>

\* fn returns or throws: the finally block releases the chain and drops the
\* map entry if nobody chained behind.
Leave(op) ==
  /\ pc[op] = "running"
  /\ pc' = [pc EXCEPT ![op] = "done"]
  /\ fileMutationQueues' =
       IF fileMutationQueues[key[op]] = op
         THEN [fileMutationQueues EXCEPT ![key[op]] = NoOp]
         ELSE fileMutationQueues
  /\ UNCHANGED <<key, currentQueue, exists, rank, calls>>

\* A file is removed by something that does not go through the queue.
Remove(f) ==
  /\ f \in Volatile \cap exists
  /\ exists' = exists \ {f}
  /\ UNCHANGED <<pc, key, currentQueue, fileMutationQueues, rank, calls>>

\* What the module itself decides, without the functions it is given.
QueueStep(op) ==
  \/ Call(op)
  \/ Resolve(op)
  \/ ResolveFails(op)
  \/ Register(op)
  \/ Start(op)

Next ==
  \/ \E op \in Ops : QueueStep(op) \/ Mutate(op) \/ Leave(op)
  \/ \E f \in Path : Remove(f)

Spec == Init /\ [][Next]_qvars

-----------------------------------------------------------------------------
\* An operation that is registered and has not released.
Live(op) == pc[op] \in {"queued", "running"}

TypeOK ==
  /\ pc \in [Ops -> {"idle", "called", "resolved", "queued", "running",
                     "done", "rejected"}]
  /\ key \in [Ops -> Path]
  /\ currentQueue \in [Ops -> Ops \cup {NoOp}]
  /\ fileMutationQueues \in [Path -> Ops \cup {NoOp}]
  /\ exists \in SUBSET Path
  /\ rank \in [Ops -> Nat]
  /\ calls \in Nat

\* Operations registered under one key never run together
\* (file-mutation-queue.ts:44-52, the chain of promises).  Two paths to one file
\* have one key if the file exists when each is resolved.
MutualExclusion ==
  \A a, b \in Ops :
    /\ pc[a] = "running"
    /\ pc[b] = "running"
    /\ key[a] = key[b]
    => a = b

\* Operations on one key run in the order of the calls, whatever their
\* realpath calls took: the reason for the registration queue.
CallOrder ==
  \A a, b \in Ops :
    /\ 0 < rank[a]
    /\ rank[a] < rank[b]
    /\ pc[b] = "running"
    => \/ pc[a] \in {"done", "rejected"}
       \/ Live(a) /\ key[a] # key[b]

\* The map holds an entry exactly for the keys with a live operation: a
\* finished operation leaves nothing behind (lines 55-60) and never takes
\* the entry of an operation chained behind it.
MapHoldsLiveKeys ==
  \A p \in Path :
    fileMutationQueues[p] # NoOp <=> \E op \in Ops : Live(op) /\ key[op] = p

\* Every call ends, and no failed registration blocks those behind it: once
\* the calls stop, the queue runs empty.
EveryCallEnds ==
  (\E op \in Ops : pc[op] \in {"called", "resolved", "queued", "running"})
    ~> (\A op \in Ops : pc[op] \in {"idle", "done", "rejected"})

\* The queue implements a lock per key that is granted in the order of the
\* requests: an operation waits for the live ones registered before it.
lockPhase ==
  [op \in Ops |-> IF pc[op] = "queued" THEN "waiting"
                  ELSE IF pc[op] = "running" THEN "inside"
                  ELSE IF pc[op] = "done" THEN "left" ELSE "out"]
lockWants ==
  [op \in Ops |-> IF Live(op) \/ pc[op] = "done" THEN key[op] ELSE PathOf[op]]
lockAhead ==
  [op \in Ops |->
     {o \in Ops : Live(op) /\ Live(o) /\ key[o] = key[op] /\ rank[o] < rank[op]}]

Lock == INSTANCE FileLock WITH
  Key <- Path, phase <- lockPhase, wants <- lockWants, ahead <- lockAhead

LockSpec == Lock!Spec
=============================================================================
