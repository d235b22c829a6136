--------------------------- MODULE FileToolsProofs ---------------------------
(***************************************************************************)
(* Proofs about the queue and the tools, for any set of operations and     *)
(* paths.  The queue: FileMutationQueue, whatever files come and go.  The  *)
(* tools: if a file that comes and goes has one name, every file is        *)
(* mutated under one key, and what the queue excludes is what they rely    *)
(* on.                                                                     *)
(***************************************************************************)
EXTENDS FileTools, TLAPS

-----------------------------------------------------------------------------
(* The queue.                                                              *)

\* Ranks are given in the order of the calls, one to each call.
RanksOK ==
  /\ \A a \in Ops : rank[a] <= calls /\ (rank[a] = 0 <=> pc[a] = "idle")
  /\ \A a, b \in Ops : rank[a] = rank[b] /\ a # b => rank[a] = 0

\* The registration queue lets the calls through in their order.
RegistrationOK ==
  /\ \A a \in Ops : pc[a] = "resolved" => RegistrationTurn(a)
  /\ \A a, b \in Ops : Registering(a) /\ Live(b) => rank[b] < rank[a]

\* The map holds the last live operation of each key.
MapOK ==
  /\ \A p \in Path : fileMutationQueues[p] # NoOp =>
       /\ Live(fileMutationQueues[p])
       /\ key[fileMutationQueues[p]] = p
  /\ \A a \in Ops : Live(a) =>
       /\ fileMutationQueues[key[a]] # NoOp
       /\ rank[a] <= rank[fileMutationQueues[key[a]]]

\* The live operations of a key form one chain, in the order of the calls.
ChainOK ==
  \A a, b \in Ops :
    /\ Live(a) /\ Live(b)
    /\ key[a] = key[b]
    /\ rank[a] < rank[b]
    => /\ currentQueue[b] # NoOp
       /\ Live(currentQueue[b])
       /\ key[currentQueue[b]] = key[b]
       /\ rank[a] <= rank[currentQueue[b]]
       /\ rank[currentQueue[b]] < rank[b]

RunningOK == \A b \in Ops : pc[b] = "running" => QueueReached(b)

IInv == TypeOK /\ RanksOK /\ RegistrationOK /\ MapOK /\ ChainOK /\ RunningOK

USE OpsAssumption, PathAssumption

\* A path's file is a path.
LEMMA FileOfType == \A op \in Ops : FileOf(op) \in Path
  BY DEF FileOf

\* The variables keep their types: the map holds operations or nothing.
THEOREM TypeCorrect == Spec => []TypeOK
<1>1. Init => TypeOK
  BY DEF Init, TypeOK
<1>2. TypeOK /\ [Next]_qvars => TypeOK'
  <2> SUFFICES ASSUME TypeOK, [Next]_qvars PROVE TypeOK'
    OBVIOUS
  <2> USE DEF TypeOK
  <2>1. ASSUME NEW op \in Ops, Call(op) PROVE TypeOK'
    BY <2>1 DEF Call
  <2>2. ASSUME NEW op \in Ops, Resolve(op) PROVE TypeOK'
    BY <2>2, FileOfType DEF Resolve
  <2>3. ASSUME NEW op \in Ops, ResolveFails(op) PROVE TypeOK'
    BY <2>3 DEF ResolveFails
  <2>4. ASSUME NEW op \in Ops, Register(op) PROVE TypeOK'
    BY <2>4 DEF Register
  <2>5. ASSUME NEW op \in Ops, Start(op) PROVE TypeOK'
    BY <2>5 DEF Start
  <2>6. ASSUME NEW op \in Ops, Mutate(op) PROVE TypeOK'
    BY <2>6, FileOfType DEF Mutate
  <2>7. ASSUME NEW op \in Ops, Leave(op) PROVE TypeOK'
    BY <2>7 DEF Leave
  <2>8. ASSUME NEW f \in Path, Remove(f) PROVE TypeOK'
    BY <2>8 DEF Remove
  <2>9. CASE UNCHANGED qvars
    BY <2>9 DEF qvars
  <2> QED
    BY <2>1, <2>2, <2>3, <2>4, <2>5, <2>6, <2>7, <2>8, <2>9 DEF Next, QueueStep
<1> QED
  BY <1>1, <1>2, PTL DEF Spec

-----------------------------------------------------------------------------
\* Each step preserves the strengthening: one lemma per action.
LEMMA InitIInv == Init => IInv
  BY FileOfType DEF Init, IInv, TypeOK, RanksOK, RegistrationOK, MapOK, ChainOK,
     RunningOK, Live, Registering

LEMMA CallIInv ==
  ASSUME IInv, NEW op \in Ops, Call(op) PROVE IInv'
<1> USE DEF IInv, TypeOK, Call
<1>1. TypeOK'
  OBVIOUS
<1>2. RanksOK'
  BY DEF RanksOK
<1>3. RegistrationOK'
  BY DEF RanksOK, RegistrationOK, RegistrationTurn, Registering, Live
<1>4. MapOK'
  BY DEF RanksOK, RegistrationOK, MapOK, Registering, Live
<1>5. ChainOK'
  BY DEF RanksOK, RegistrationOK, MapOK, ChainOK, Registering, Live
<1>6. RunningOK'
  BY DEF RunningOK, QueueReached
<1> QED
  BY <1>1, <1>2, <1>3, <1>4, <1>5, <1>6

LEMMA ResolveIInv ==
  ASSUME IInv, NEW op \in Ops, Resolve(op) PROVE IInv'
<1> USE DEF IInv, TypeOK, Resolve
<1>1. TypeOK'
  BY FileOfType
<1>2. RanksOK'
  BY DEF RanksOK
<1>3. RegistrationOK'
  BY DEF RanksOK, RegistrationOK, RegistrationTurn, Registering, Live
<1>4. MapOK'
  BY DEF RanksOK, RegistrationOK, MapOK, Registering, Live
<1>5. ChainOK'
  BY DEF RanksOK, RegistrationOK, MapOK, ChainOK, Registering, Live
<1>6. RunningOK'
  BY DEF RunningOK, QueueReached
<1> QED
  BY <1>1, <1>2, <1>3, <1>4, <1>5, <1>6

LEMMA ResolveFailsIInv ==
  ASSUME IInv, NEW op \in Ops, ResolveFails(op) PROVE IInv'
<1> USE DEF IInv, TypeOK, ResolveFails
<1>1. TypeOK'
  OBVIOUS
<1>2. RanksOK'
  BY DEF RanksOK
<1>3. RegistrationOK'
  BY DEF RanksOK, RegistrationOK, RegistrationTurn, Registering, Live
<1>4. MapOK'
  BY DEF RanksOK, RegistrationOK, MapOK, Registering, Live
<1>5. ChainOK'
  BY DEF RanksOK, RegistrationOK, MapOK, ChainOK, Registering, Live
<1>6. RunningOK'
  BY DEF RunningOK, QueueReached
<1> QED
  BY <1>1, <1>2, <1>3, <1>4, <1>5, <1>6

LEMMA RegisterIInv ==
  ASSUME IInv, NEW op \in Ops, Register(op) PROVE IInv'
<1> USE DEF IInv, TypeOK, Register
<1>1. TypeOK'
  OBVIOUS
<1>2. RanksOK'
  BY DEF RanksOK
<1>3. RegistrationOK'
  BY DEF RanksOK, RegistrationOK, RegistrationTurn, Registering, Live
<1>4. MapOK'
  BY DEF RanksOK, RegistrationOK, MapOK, Registering, Live
<1>5. ChainOK'
  BY DEF RanksOK, RegistrationOK, MapOK, ChainOK, Registering, Live
<1>6. RunningOK'
  BY DEF RunningOK, QueueReached
<1> QED
  BY <1>1, <1>2, <1>3, <1>4, <1>5, <1>6

LEMMA StartIInv ==
  ASSUME IInv, NEW op \in Ops, Start(op) PROVE IInv'
<1> USE DEF IInv, TypeOK, Start
<1>1. TypeOK'
  OBVIOUS
<1>2. RanksOK'
  BY DEF RanksOK
<1>3. RegistrationOK'
  BY DEF RanksOK, RegistrationOK, RegistrationTurn, Registering, Live
<1>4. MapOK'
  BY DEF RanksOK, RegistrationOK, MapOK, Registering, Live
<1>5. ChainOK'
  BY DEF RanksOK, RegistrationOK, MapOK, ChainOK, Registering, Live
<1>6. RunningOK'
  BY DEF RunningOK, QueueReached
<1> QED
  BY <1>1, <1>2, <1>3, <1>4, <1>5, <1>6

LEMMA MutateIInv ==
  ASSUME IInv, NEW op \in Ops, Mutate(op) PROVE IInv'
<1> USE DEF IInv, TypeOK, Mutate
<1>1. TypeOK'
  BY FileOfType
<1>2. RanksOK'
  BY DEF RanksOK
<1>3. RegistrationOK'
  BY DEF RanksOK, RegistrationOK, RegistrationTurn, Registering, Live
<1>4. MapOK'
  BY DEF RanksOK, RegistrationOK, MapOK, Registering, Live
<1>5. ChainOK'
  BY DEF RanksOK, RegistrationOK, MapOK, ChainOK, Registering, Live
<1>6. RunningOK'
  BY DEF RunningOK, QueueReached
<1> QED
  BY <1>1, <1>2, <1>3, <1>4, <1>5, <1>6

LEMMA LeaveIInv ==
  ASSUME IInv, NEW op \in Ops, Leave(op) PROVE IInv'
<1> DEFINE LiveNext(a) == pc'[a] \in {"queued", "running"}
<1>1. TypeOK'
  BY DEF IInv, TypeOK, Leave
<1>2. RanksOK'
  BY DEF IInv, TypeOK, Leave, RanksOK
<1>3. RegistrationOK'
  BY DEF IInv, TypeOK, Leave, RanksOK, RegistrationOK, RegistrationTurn, Registering, Live
<1>4. \A a \in Ops : LiveNext(a) <=> Live(a) /\ a # op
  BY DEF IInv, TypeOK, Leave, Live
\* op runs, so the operation it is chained behind is no longer live: op is
\* the first live operation of its key.
<1>5. \A a \in Ops : Live(a) /\ key[a] = key[op] /\ a # op => rank[op] < rank[a]
  <2>1. \A a \in Ops : Live(a) /\ key[a] = key[op] => ~ (rank[a] < rank[op])
    BY DEF IInv, TypeOK, Leave, ChainOK, RunningOK, QueueReached, Live
  <2>2. \A a \in Ops : Live(a) /\ rank[a] = rank[op] => a = op
    BY DEF IInv, TypeOK, RanksOK, Live
  <2> QED
    BY <2>1, <2>2 DEF IInv, TypeOK
<1>6. MapOK'
  <2>1. ASSUME NEW p \in Path, fileMutationQueues'[p] # NoOp
        PROVE  /\ LiveNext(fileMutationQueues'[p])
               /\ key[fileMutationQueues'[p]] = p
    <3>1. fileMutationQueues'[p] = fileMutationQueues[p] /\ fileMutationQueues[p] # op
      BY <2>1 DEF IInv, TypeOK, Leave, MapOK
    <3> QED
      BY <2>1, <3>1, <1>4 DEF IInv, TypeOK, MapOK
  <2>2. ASSUME NEW a \in Ops, Live(a), a # op
        PROVE  /\ fileMutationQueues'[key[a]] # NoOp
               /\ rank[a] <= rank[fileMutationQueues'[key[a]]]
    <3>1. /\ fileMutationQueues[key[a]] # NoOp
          /\ rank[a] <= rank[fileMutationQueues[key[a]]]
      BY <2>2 DEF IInv, MapOK
    <3>2. fileMutationQueues[key[a]] # op
      BY <2>2, <3>1, <1>5 DEF IInv, TypeOK, MapOK
    <3>3. fileMutationQueues'[key[a]] = fileMutationQueues[key[a]]
      BY <3>2 DEF IInv, TypeOK, Leave
    <3> QED
      BY <3>1, <3>3
  <2>3. key' = key /\ rank' = rank
    BY DEF Leave
  <2> QED
    BY <2>1, <2>2, <2>3, <1>4 DEF MapOK, Live
<1>7. ChainOK'
  <2>1. key' = key /\ rank' = rank /\ currentQueue' = currentQueue
    BY DEF Leave
  <2>2. ASSUME NEW a \in Ops, NEW b \in Ops,
               Live(a), a # op, Live(b), b # op,
               key[a] = key[b], rank[a] < rank[b]
        PROVE  /\ currentQueue[b] # NoOp
               /\ LiveNext(currentQueue[b])
               /\ key[currentQueue[b]] = key[b]
               /\ rank[a] <= rank[currentQueue[b]]
               /\ rank[currentQueue[b]] < rank[b]
    <3>1. /\ currentQueue[b] \in Ops
          /\ Live(currentQueue[b])
          /\ key[currentQueue[b]] = key[b]
          /\ rank[a] <= rank[currentQueue[b]]
          /\ rank[currentQueue[b]] < rank[b]
      BY <2>2 DEF IInv, TypeOK, ChainOK
    <3>2. currentQueue[b] # op
      BY <2>2, <3>1, <1>5 DEF IInv, TypeOK
    <3> QED
      BY <3>1, <3>2, <1>4
  <2> QED
    BY <2>1, <2>2, <1>4 DEF ChainOK, Live
<1>8. RunningOK'
  BY DEF IInv, TypeOK, Leave, RunningOK, QueueReached
<1> QED
  BY <1>1, <1>2, <1>3, <1>6, <1>7, <1>8 DEF IInv

LEMMA RemoveIInv ==
  ASSUME IInv, NEW f \in Path, Remove(f) PROVE IInv'
  BY DEF Remove, IInv, TypeOK, RanksOK, RegistrationOK, RegistrationTurn,
     MapOK, ChainOK, RunningOK, QueueReached, Live, Registering

LEMMA StutterIInv ==
  ASSUME IInv, UNCHANGED qvars PROVE IInv'
  BY DEF qvars, IInv, TypeOK, RanksOK, RegistrationOK, RegistrationTurn,
     MapOK, ChainOK, RunningOK, QueueReached, Live, Registering

LEMMA Inductive == Spec => []IInv
<1>1. IInv /\ [Next]_qvars => IInv'
  BY CallIInv, ResolveIInv, ResolveFailsIInv, RegisterIInv, StartIInv,
     MutateIInv, LeaveIInv, RemoveIInv, StutterIInv DEF Next, QueueStep
<1> QED
  BY InitIInv, <1>1, PTL DEF Spec

\* Of two operations of one key that run, neither can be before the other in
\* the chain.
LEMMA InvExcludes == IInv => MutualExclusion
<1> SUFFICES ASSUME IInv, NEW a \in Ops, NEW b \in Ops,
                    pc[a] = "running", pc[b] = "running", key[a] = key[b],
                    a # b
             PROVE FALSE
  BY DEF MutualExclusion
<1>1. rank[a] \in Nat /\ rank[b] \in Nat /\ rank[a] # rank[b]
  BY DEF IInv, TypeOK, RanksOK
<1>2. \A x, y \in Ops :
        Live(x) /\ pc[y] = "running" /\ key[x] = key[y] => ~ (rank[x] < rank[y])
  BY DEF IInv, TypeOK, ChainOK, RunningOK, QueueReached, Live
<1> QED
  BY <1>1, <1>2 DEF Live

\* No two operations run together under one key, whatever the interleaving
\* of calls, realpath answers and releases.
THEOREM Exclusive == Spec => []MutualExclusion
  BY Inductive, InvExcludes, PTL

\* Who runs comes after every operation of its key that was called before it.
LEMMA InvOrders == IInv => CallOrder
<1> SUFFICES ASSUME IInv, NEW a \in Ops, NEW b \in Ops,
                    0 < rank[a], rank[a] < rank[b], pc[b] = "running",
                    pc[a] \notin {"done", "rejected"}
             PROVE Live(a) /\ key[a] # key[b]
  BY DEF CallOrder
<1>1. ~ Registering(a)
  BY DEF IInv, TypeOK, RegistrationOK, Live
<1>2. Live(a)
  BY <1>1 DEF IInv, TypeOK, RanksOK, Registering, Live
<1>3. key[a] # key[b]
  BY <1>2 DEF IInv, TypeOK, ChainOK, RunningOK, QueueReached, Live
<1> QED
  BY <1>2, <1>3

\* Operations of a key run in the order in which they were called.
THEOREM RunInCallOrder == Spec => []CallOrder
  BY Inductive, InvOrders, PTL

\* The map never keeps an entry for a key without a live operation and never
\* misses one.
THEOREM NoStaleEntry == Spec => []MapHoldsLiveKeys
<1>1. IInv => MapHoldsLiveKeys
  BY DEF IInv, TypeOK, MapOK, MapHoldsLiveKeys
<1> QED
  BY Inductive, <1>1, PTL

-----------------------------------------------------------------------------
\* A registration is a request: every live operation of the key is ahead.
LEMMA RegisterRequests ==
  ASSUME IInv, NEW op \in Ops, Register(op)
  PROVE  Lock!Request(op, key[op])
<1> USE DEF IInv, TypeOK, Register, Live
<1>1. lockPhase[op] = "out" /\ lockPhase' = [lockPhase EXCEPT ![op] = "waiting"]
  BY DEF lockPhase
<1>2. lockWants' = [lockWants EXCEPT ![op] = key[op]]
  BY DEF lockWants
<1>3. \A o \in Ops : Live(o) => rank[o] < rank[op]
  BY DEF RegistrationOK, Registering
<1>4. lockAhead' = [lockAhead EXCEPT ![op] = {o \in Ops : Live(o) /\ key[o] = key[op]}]
  <2>1. \A o \in Ops : lockAhead'[o] =
          IF o = op THEN {x \in Ops : Live(x) /\ key[x] = key[op]} ELSE lockAhead[o]
    BY <1>3 DEF lockAhead
  <2> QED
    BY <2>1 DEF lockAhead
<1>5. {o \in Ops : Live(o) /\ key[o] = key[op]}
        = {o \in Ops : lockPhase[o] \in {"waiting", "inside"} /\ lockWants[o] = key[op]}
  BY DEF lockPhase, lockWants
<1> QED
  BY <1>1, <1>2, <1>4, <1>5
     DEF Lock!Request, Lock!Holds, lockPhase, lockWants, lockAhead

\* An operation that starts has nobody ahead of it.
LEMMA StartEnters ==
  ASSUME IInv, NEW op \in Ops, Start(op) PROVE Lock!Enter(op)
<1> USE DEF IInv, TypeOK, Start, Live
<1>1. lockPhase[op] = "waiting" /\ lockPhase' = [lockPhase EXCEPT ![op] = "inside"]
  BY DEF lockPhase
<1>2. lockAhead[op] = {}
  BY DEF lockAhead, ChainOK, QueueReached
<1>3. lockWants' = lockWants /\ lockAhead' = lockAhead
  BY DEF lockWants, lockAhead
<1> QED
  BY <1>1, <1>2, <1>3 DEF Lock!Enter, lockPhase, lockWants, lockAhead

\* A release takes the operation out of everyone's way.
LEMMA LeaveExits ==
  ASSUME IInv, NEW op \in Ops, Leave(op) PROVE Lock!Exit(op)
<1> USE DEF IInv, TypeOK, Leave, Live
<1>1. lockPhase[op] = "inside" /\ lockPhase' = [lockPhase EXCEPT ![op] = "left"]
  BY DEF lockPhase
<1>2. lockWants' = lockWants
  BY DEF lockWants
<1>3. lockAhead[op] = {}
  BY DEF lockAhead, ChainOK, RunningOK, QueueReached
<1>4. lockAhead' = [o \in Ops |-> lockAhead[o] \ {op}]
  BY <1>3 DEF lockAhead
<1> QED
  BY <1>1, <1>2, <1>4 DEF Lock!Exit, lockPhase, lockWants, lockAhead

\* The other steps are invisible to the lock.
LEMMA OthersStutter ==
  ASSUME IInv,
         \/ \E op \in Ops : Call(op) \/ Resolve(op) \/ ResolveFails(op) \/ Mutate(op)
         \/ \E f \in Path : Remove(f)
         \/ UNCHANGED qvars
  PROVE  UNCHANGED Lock!lvars
<1> USE DEF IInv, TypeOK, Live
<1>1. ASSUME NEW op \in Ops, Call(op) \/ Resolve(op) \/ ResolveFails(op)
      PROVE  lockPhase' = lockPhase /\ lockWants' = lockWants /\ lockAhead' = lockAhead
  <2>1. pc[op] \in {"called", "idle"} /\ pc'[op] \in {"called", "resolved", "rejected"}
    BY <1>1 DEF Call, Resolve, ResolveFails
  <2>2. \A o \in Ops : o # op => pc'[o] = pc[o] /\ key'[o] = key[o] /\ rank'[o] = rank[o]
    BY <1>1 DEF Call, Resolve, ResolveFails
  <2>3. lockPhase' = lockPhase /\ lockWants' = lockWants
    BY <2>1, <2>2 DEF lockPhase, lockWants
  <2>4. \A o \in Ops : lockAhead'[o] = lockAhead[o]
    BY <2>1, <2>2 DEF lockAhead
  <2> QED
    BY <2>3, <2>4 DEF lockAhead
<1>2. ASSUME pc' = pc, key' = key, rank' = rank
      PROVE  lockPhase' = lockPhase /\ lockWants' = lockWants /\ lockAhead' = lockAhead
  BY <1>2 DEF lockPhase, lockWants, lockAhead
<1> QED
  BY <1>1, <1>2 DEF Mutate, Remove, qvars, Lock!lvars, lockPhase, lockWants, lockAhead

\* The map and the chain of promises implement a lock per key that is granted
\* in the order of the requests.
THEOREM ImplementsLock == Spec => LockSpec
<1>1. Init => Lock!Init
  BY DEF Init, Lock!Init, Live, lockPhase, lockWants, lockAhead
<1>2. IInv /\ [Next]_qvars => [Lock!Next]_(Lock!lvars)
  <2> SUFFICES ASSUME IInv, [Next]_qvars PROVE Lock!Next \/ UNCHANGED Lock!lvars
    OBVIOUS
  <2>1. ASSUME NEW op \in Ops, Register(op) PROVE Lock!Next
    <3>1. Lock!Request(op, key[op])
      BY <2>1, RegisterRequests
    <3>2. key[op] \in Path
      BY DEF IInv, TypeOK
    <3> QED
      BY <3>1, <3>2 DEF Lock!Next
  <2>2. ASSUME NEW op \in Ops, Start(op) PROVE Lock!Next
    BY <2>2, StartEnters DEF Lock!Next
  <2>3. ASSUME NEW op \in Ops, Leave(op) PROVE Lock!Next
    BY <2>3, LeaveExits DEF Lock!Next
  <2> QED
    BY <2>1, <2>2, <2>3, OthersStutter DEF Next, QueueStep
<1> QED
  BY <1>1, <1>2, Inductive, PTL DEF Spec, LockSpec, Lock!Spec

-----------------------------------------------------------------------------
(* The tools.                                                              *)

\* A file is there and stays, or is named as realpath would name it.
OneName(op) == FileOf(op) \in InitialFiles \ Volatile \/ PathOf[op] = FileOf(op)

\* So every file has one key, whether it is there or not.
FilesThere == \A op \in Ops : FileOf(op) \in exists \ Volatile \/ PathOf[op] = FileOf(op)

KeysOK ==
  \A op \in Ops : pc[op] \in {"resolved", "queued", "running", "done"} => key[op] = FileOf(op)

\* What ended came after all that was called before it under its key.
DoneOK ==
  \A a, b \in Ops :
    0 < rank[a] /\ rank[a] < rank[b] /\ pc[b] = "done" =>
      \/ pc[a] \in {"done", "rejected"}
      \/ Live(a) /\ key[a] # key[b]

ToolTypeOK ==
  /\ step \in [Ops -> {"entry", "directory", "accessed", "read", "writing", "ended"}]
  /\ content \in [Path -> SUBSET Ops]
  /\ seen \in [Ops -> SUBSET Ops]
  /\ landed \subseteq Ops
  /\ spoiled \subseteq Ops

\* A file that is not there holds nothing, and nothing landed in it.
GoneOK ==
  /\ \A p \in Path : p \notin exists => content[p] = {}
  /\ \A op \in landed : FileOf(op) \in exists

\* A tool's steps are taken while its operation runs.
PhaseOK ==
  \A op \in Ops :
    /\ pc[op] \notin {"running", "done"} => step[op] = "entry"
    /\ step[op] = "writing" => pc[op] = "running"
    /\ op \in landed \cup spoiled => pc[op] = "done"

\* A write in flight has truncated its file.
TruncatedOK == \A op \in Ops : step[op] = "writing" => content[FileOf(op)] = {}

\* A landed edit is in its file, in what the edit in flight will write, or was
\* called before a write that replaced it or is about to, or one that failed.
LandedOK ==
  \A o \in landed \cap Edits :
    \/ o \in content[FileOf(o)]
    \/ \E w \in Ops : step[w] = "writing" /\ FileOf(w) = FileOf(o) /\ (w \in Edits => o \in seen[w])
    \/ \E w \in (landed \ Edits) \cup spoiled : FileOf(w) = FileOf(o) /\ rank[o] < rank[w]

QueueInv == IInv /\ FilesThere /\ KeysOK /\ DoneOK
ToolInv == ToolTypeOK /\ GoneOK /\ PhaseOK /\ TruncatedOK /\ EditSeesCurrentContent /\ LandedOK

-----------------------------------------------------------------------------
\* Of the queue, a tool's step is a mutation, a release or nothing at all.
LEMMA ToolStepsOfQueue ==
  ASSUME ToolNext \/ UNCHANGED tvars
  PROVE  \/ \E op \in Ops : QueueStep(op) \/ Mutate(op) \/ Leave(op)
         \/ \E f \in Path : Remove(f)
         \/ UNCHANGED qvars
<1>1. CASE Abort \/ UNCHANGED tvars
  BY <1>1 DEF Abort, tvars, qvars
<1>2. ASSUME NEW op \in Ops, QueueStep(op) PROVE QueueStep(op)
  BY <1>2
<1>3. ASSUME NEW op \in Ops, ToolStep(op)
      PROVE  Mutate(op) \/ Leave(op) \/ UNCHANGED qvars
  BY <1>3 DEF ToolStep, ThrowIfAborted, Mkdir, MkdirFails, Access, AccessFails, Read,
     EditRejected, BeginWrite, EndWrite, WriteFails, Ends
<1>4. ASSUME NEW f \in Path, RemoveFile(f) PROVE Remove(f)
  BY <1>4 DEF RemoveFile
<1> QED
  BY <1>1, <1>3, <1>4 DEF ToolNext

\* An operation is registered under its file.
LEMMA QueueInvStep ==
  ASSUME QueueInv, ToolNext \/ UNCHANGED tvars
  PROVE  QueueInv'
<1> USE DEF QueueInv
<1>1. CASE UNCHANGED qvars
  <2>1. IInv'
    BY <1>1, StutterIInv
  <2> QED
    BY <1>1, <2>1 DEF qvars, FilesThere, KeysOK, DoneOK, Live
<1>2. ASSUME NEW op \in Ops, QueueStep(op) \/ Mutate(op) \/ Leave(op)
      PROVE  QueueInv'
  <2>1. IInv'
    BY <1>2, CallIInv, ResolveIInv, ResolveFailsIInv, RegisterIInv, StartIInv,
       MutateIInv, LeaveIInv DEF QueueStep
  <2>2. FilesThere'
    BY <1>2 DEF FilesThere, QueueStep, Call, Resolve, ResolveFails, Register, Start, Mutate, Leave
  <2>3. KeysOK'
    BY <1>2 DEF KeysOK, FilesThere, IInv, TypeOK, QueueStep, Call, Resolve, ResolveFails,
       Register, Start, Mutate, Leave
  <2>4. DoneOK'
    <3> USE DEF DoneOK, IInv, TypeOK, Live
    <3>1. CASE Call(op)
      BY <3>1 DEF Call, RanksOK
    <3>2. CASE Resolve(op) \/ ResolveFails(op)
      BY <3>2 DEF Resolve, ResolveFails
    <3>3. CASE Register(op)
      BY <3>3 DEF Register
    <3>4. CASE Start(op) \/ Mutate(op)
      BY <3>4 DEF Start, Mutate
    <3>5. CASE Leave(op)
      <4>1. SUFFICES ASSUME NEW a \in Ops, NEW b \in Ops, 0 < rank[a], rank[a] < rank[b],
                            pc'[b] = "done", pc'[a] \notin {"done", "rejected"}
                     PROVE  Live(a)' /\ key[a] # key[b]
        BY <3>5 DEF Leave
      <4>2. a # op /\ pc'[a] = pc[a] /\ pc[op] = "running"
        BY <3>5, <4>1 DEF Leave
      <4>3. CASE b = op
        BY <4>1, <4>2, <4>3, InvOrders DEF CallOrder
      <4>4. CASE b # op
        BY <3>5, <4>1, <4>2, <4>4 DEF Leave
      <4> QED
        BY <4>3, <4>4
    <3> QED
      BY <1>2, <3>1, <3>2, <3>3, <3>4, <3>5 DEF QueueStep
  <2> QED
    BY <2>1, <2>2, <2>3, <2>4
<1>3. ASSUME NEW f \in Path, Remove(f) PROVE QueueInv'
  <2>1. IInv'
    BY <1>3, RemoveIInv
  <2>2. FilesThere' /\ KeysOK' /\ DoneOK'
    BY <1>3 DEF Remove, FilesThere, KeysOK, DoneOK, Live, FileOf
  <2> QED
    BY <2>1, <2>2
<1> QED
  BY <1>1, <1>2, <1>3, ToolStepsOfQueue

\* No two operations run on one file.
LEMMA OneRunsPerFile ==
  ASSUME QueueInv, NEW a \in Ops, NEW b \in Ops, pc[a] = "running", pc[b] = "running",
         FileOf(a) = FileOf(b)
  PROVE  a = b
  BY InvExcludes DEF QueueInv, KeysOK, MutualExclusion

-----------------------------------------------------------------------------
\* The steps before a write, and those that end a tool without one.
LEMMA QuietStepKeeps ==
  ASSUME QueueInv, ToolInv, NEW op \in Ops,
         \/ ThrowIfAborted(op) \/ MkdirFails(op) \/ AccessFails(op) \/ EditRejected(op)
         \/ Mkdir(op) \/ Access(op)
  PROVE  ToolInv'
<1> USE DEF QueueInv, ToolInv, ToolTypeOK, IInv, TypeOK
<1>1. /\ UNCHANGED <<content, landed, spoiled, rank, exists>>
      /\ seen' \in [Ops -> SUBSET Ops]
      /\ \A o \in Ops \ {op} : seen'[o] = seen[o]
      /\ step'[op] = "read" => seen'[op] = seen[op]
  BY DEF ThrowIfAborted, MkdirFails, AccessFails, EditRejected, Mkdir, Access, Goes, Ends, Leave, qvars
<1>2. /\ step' \in [Ops -> {"entry", "directory", "accessed", "read", "writing", "ended"}]
      /\ \A o \in Ops \ {op} : step'[o] = step[o] /\ pc'[o] = pc[o]
      /\ pc[op] = "running" /\ pc'[op] \in {"running", "done"}
      /\ step[op] # "writing" /\ step'[op] # "writing"
      /\ step'[op] = "read" => step[op] = "read"
  BY DEF ThrowIfAborted, MkdirFails, AccessFails, EditRejected, Mkdir, Access, Goes, Ends, Leave, qvars
<1>3. PhaseOK' /\ GoneOK'
  BY <1>1, <1>2 DEF PhaseOK, GoneOK, FileOf
<1>4. TruncatedOK'
  BY <1>1, <1>2 DEF TruncatedOK, FileOf
<1>5. EditSeesCurrentContent'
  BY <1>1, <1>2, EditsAssumption DEF EditSeesCurrentContent, FileOf
<1>6. LandedOK'
  BY <1>1, <1>2, EditsAssumption DEF LandedOK, FileOf
<1> QED
  BY <1>1, <1>2, <1>3, <1>4, <1>5, <1>6

\* An edit reads what its file holds.
LEMMA ReadKeeps ==
  ASSUME QueueInv, ToolInv, NEW op \in Ops, Read(op)
  PROVE  ToolInv'
<1> USE DEF QueueInv, ToolInv, ToolTypeOK, IInv, TypeOK, Read, Goes, qvars
<1>1. ToolTypeOK'
  BY FileOfType
<1>2. PhaseOK' /\ TruncatedOK' /\ GoneOK'
  BY DEF PhaseOK, TruncatedOK, GoneOK, FileOf
<1>3. EditSeesCurrentContent'
  BY EditsAssumption DEF EditSeesCurrentContent, FileOf
<1>4. LandedOK'
  BY EditsAssumption DEF LandedOK, FileOf
<1> QED
  BY <1>1, <1>2, <1>3, <1>4

\* A write begins: the landed edits that leave the file were seen by the edit
\* that writes it.
LEMMA BeginWriteKeeps ==
  ASSUME QueueInv, ToolInv, NEW op \in Ops, BeginWrite(op)
  PROVE  ToolInv'
<1> USE DEF QueueInv, ToolInv, ToolTypeOK, IInv, TypeOK
<1>1. /\ step' = [step EXCEPT ![op] = "writing"]
      /\ content' = [content EXCEPT ![FileOf(op)] = {}]
      /\ exists' = exists \cup {FileOf(op)}
      /\ UNCHANGED <<pc, rank, seen, landed, spoiled>>
      /\ pc[op] = "running" /\ step[op] # "writing" /\ (op \in Edits => step[op] = "read")
  BY DEF BeginWrite, Goes, Mutate
<1>2. ToolTypeOK'
  BY <1>1, FileOfType
<1>3. PhaseOK' /\ GoneOK'
  BY <1>1 DEF PhaseOK, GoneOK, FileOf
<1>4. TruncatedOK'
  BY <1>1, FileOfType DEF TruncatedOK, FileOf
<1>5. EditSeesCurrentContent'
  BY <1>1, OneRunsPerFile, EditsAssumption, FileOfType DEF EditSeesCurrentContent, FileOf
<1>6. ASSUME NEW o \in landed \cap Edits
      PROVE  \/ o \in content'[FileOf(o)]
             \/ \E w \in Ops : step'[w] = "writing" /\ FileOf(w) = FileOf(o) /\ (w \in Edits => o \in seen[w])
             \/ \E w \in (landed \ Edits) \cup spoiled : FileOf(w) = FileOf(o) /\ rank[o] < rank[w]
  <2> USE <1>1, <1>6
  <2>1. CASE o \in content[FileOf(o)] /\ FileOf(o) = FileOf(op)
    BY <2>1, EditsAssumption, FileOfType DEF EditSeesCurrentContent, GoneOK
  <2>2. CASE o \in content[FileOf(o)] /\ FileOf(o) # FileOf(op)
    BY <2>2, EditsAssumption, FileOfType
  <2>3. CASE \E w \in Ops : step[w] = "writing" /\ FileOf(w) = FileOf(o) /\ (w \in Edits => o \in seen[w])
    BY <2>3
  <2>4. CASE \E w \in (landed \ Edits) \cup spoiled : FileOf(w) = FileOf(o) /\ rank[o] < rank[w]
    BY <2>4
  <2> QED
    BY <2>1, <2>2, <2>3, <2>4 DEF LandedOK
<1>7. LandedOK'
  BY <1>1, <1>6 DEF LandedOK, FileOf
<1> QED
  BY <1>2, <1>3, <1>4, <1>5, <1>7

\* What has landed was called before what runs on its file.
LEMMA LandedBefore ==
  ASSUME QueueInv, ToolInv, NEW o \in Ops, NEW op \in Ops, pc[o] = "done",
         pc[op] = "running", FileOf(o) = FileOf(op)
  PROVE  rank[o] < rank[op]
<1> USE DEF QueueInv, IInv, TypeOK
<1>1. key[o] = key[op]
  BY DEF KeysOK
<1>2. rank[o] \in Nat /\ rank[op] \in Nat /\ 0 < rank[op] /\ rank[o] # rank[op]
  BY DEF RanksOK
<1>3. ~ (rank[op] < rank[o])
  BY <1>1, <1>2 DEF DoneOK
<1> QED
  BY <1>2, <1>3

\* A write settles: it holds what the edit saw and its own change, or replaces
\* what was called before it.
LEMMA EndWriteKeeps ==
  ASSUME QueueInv, ToolInv, NEW op \in Ops, EndWrite(op), FileOf(op) \in exists
  PROVE  ToolInv'
<1> USE DEF QueueInv, ToolInv, ToolTypeOK, IInv, TypeOK
<1>1. /\ step' = [step EXCEPT ![op] = "ended"]
      /\ content' = [content EXCEPT ![FileOf(op)] = seen[op] \cup {op}]
      /\ landed' = landed \cup {op}
      /\ pc' = [pc EXCEPT ![op] = "done"]
      /\ seen' = [seen EXCEPT ![op] = {}]
      /\ UNCHANGED <<rank, exists, spoiled>>
      /\ pc[op] = "running" /\ step[op] = "writing"
  BY DEF EndWrite, Ends, Leave
<1>2. ToolTypeOK'
  BY <1>1, FileOfType
<1>3. PhaseOK' /\ GoneOK'
  BY <1>1 DEF PhaseOK, GoneOK, FileOf
<1>4. TruncatedOK'
  BY <1>1, OneRunsPerFile, FileOfType DEF TruncatedOK, PhaseOK, FileOf
<1>5. EditSeesCurrentContent'
  BY <1>1, OneRunsPerFile, EditsAssumption, FileOfType DEF EditSeesCurrentContent, FileOf
<1>6. ASSUME NEW o \in landed' \cap Edits
      PROVE  \/ o \in content'[FileOf(o)]
             \/ \E w \in Ops : step'[w] = "writing" /\ FileOf(w) = FileOf(o) /\ (w \in Edits => o \in seen'[w])
             \/ \E w \in (landed' \ Edits) \cup spoiled : FileOf(w) = FileOf(o) /\ rank[o] < rank[w]
  <2> USE <1>1, <1>6
  <2>1. CASE o = op
    BY <2>1, FileOfType
  <2>2. CASE o # op /\ FileOf(o) = FileOf(op)
    <3>1. o \in landed /\ o \in Ops /\ pc[o] = "done"
      BY <2>2, EditsAssumption DEF PhaseOK
    <3>2. o \notin content[FileOf(o)]
      BY <2>2 DEF TruncatedOK
    <3>3. CASE op \notin Edits
      BY <2>2, <3>1, <3>3, LandedBefore
    <3>4. CASE op \in Edits
      <4>1. CASE \E w \in Ops : step[w] = "writing" /\ FileOf(w) = FileOf(o) /\ (w \in Edits => o \in seen[w])
        <5>1. o \in seen[op]
          BY <2>2, <3>4, <4>1, OneRunsPerFile DEF PhaseOK
        <5> QED
          BY <2>2, <5>1, FileOfType
      <4> QED
        BY <3>1, <3>2, <4>1 DEF LandedOK
    <3> QED
      BY <3>3, <3>4
  <2>3. CASE o # op /\ FileOf(o) # FileOf(op)
    BY <2>3, EditsAssumption, FileOfType DEF LandedOK
  <2> QED
    BY <2>1, <2>2, <2>3
<1>7. LandedOK'
  BY <1>1, <1>6 DEF LandedOK, FileOf
<1> QED
  BY <1>2, <1>3, <1>4, <1>5, <1>7

\* A write ends whose file was removed: no edit has landed in it since.
LEMMA LostWriteKeeps ==
  ASSUME QueueInv, ToolInv, NEW op \in Ops, EndWrite(op) \/ WriteFails(op),
         FileOf(op) \notin exists
  PROVE  ToolInv'
<1> USE DEF QueueInv, ToolInv, ToolTypeOK, IInv, TypeOK
<1>1. /\ step' = [step EXCEPT ![op] = "ended"]
      /\ pc' = [pc EXCEPT ![op] = "done"]
      /\ seen' = [seen EXCEPT ![op] = {}]
      /\ UNCHANGED <<rank, exists, content, landed, spoiled>>
      /\ pc[op] = "running" /\ step[op] = "writing"
  BY DEF EndWrite, WriteFails, Ends, Leave
<1>2. ToolTypeOK' /\ PhaseOK' /\ GoneOK'
  BY <1>1 DEF PhaseOK, GoneOK, FileOf
<1>3. TruncatedOK' /\ EditSeesCurrentContent'
  BY <1>1, EditsAssumption DEF TruncatedOK, EditSeesCurrentContent, FileOf
<1>4. \A o \in landed : FileOf(o) # FileOf(op)
  BY DEF GoneOK
<1>5. LandedOK'
  BY <1>1, <1>4, EditsAssumption DEF LandedOK, FileOf
<1> QED
  BY <1>2, <1>3, <1>5

\* A write fails: what had landed in the file was called before it.
LEMMA WriteFailsKeeps ==
  ASSUME QueueInv, ToolInv, NEW op \in Ops, WriteFails(op), FileOf(op) \in exists
  PROVE  ToolInv'
<1> USE DEF QueueInv, ToolInv, ToolTypeOK, IInv, TypeOK
<1>0. PICK part \in SUBSET (seen[op] \cup {op}) :
        content' = [content EXCEPT ![FileOf(op)] = part]
  BY DEF WriteFails
<1>1. /\ step' = [step EXCEPT ![op] = "ended"]
      /\ spoiled' = spoiled \cup {op}
      /\ pc' = [pc EXCEPT ![op] = "done"]
      /\ seen' = [seen EXCEPT ![op] = {}]
      /\ UNCHANGED <<rank, exists, landed>>
      /\ pc[op] = "running" /\ step[op] = "writing"
  BY DEF WriteFails, Ends, Leave
<1>2. ToolTypeOK'
  BY <1>0, <1>1, FileOfType
<1>3. PhaseOK' /\ GoneOK'
  BY <1>0, <1>1 DEF PhaseOK, GoneOK, FileOf
<1>4. TruncatedOK'
  BY <1>0, <1>1, OneRunsPerFile, FileOfType DEF TruncatedOK, PhaseOK, FileOf
<1>5. EditSeesCurrentContent'
  BY <1>0, <1>1, OneRunsPerFile, EditsAssumption, FileOfType DEF EditSeesCurrentContent, FileOf
<1>6. ASSUME NEW o \in landed \cap Edits
      PROVE  \/ o \in content'[FileOf(o)]
             \/ \E w \in Ops : step'[w] = "writing" /\ FileOf(w) = FileOf(o) /\ (w \in Edits => o \in seen'[w])
             \/ \E w \in (landed \ Edits) \cup spoiled' : FileOf(w) = FileOf(o) /\ rank[o] < rank[w]
  <2>1. CASE FileOf(o) = FileOf(op)
    <3>1. rank[o] < rank[op]
      BY <1>1, <1>6, <2>1, EditsAssumption, LandedBefore DEF PhaseOK
    <3> QED
      BY <1>1, <2>1, <3>1
  <2>2. CASE FileOf(o) # FileOf(op)
    BY <1>0, <1>1, <1>6, <2>2, EditsAssumption, FileOfType DEF LandedOK
  <2> QED
    BY <2>1, <2>2
<1>7. LandedOK'
  BY <1>1, <1>6 DEF LandedOK, FileOf
<1> QED
  BY <1>2, <1>3, <1>4, <1>5, <1>7

\* The steps of the queue before a tool runs, and the user's abort.
LEMMA QueueStepKeeps ==
  ASSUME QueueInv, ToolInv, UNCHANGED <<step, content, seen, landed, spoiled>>,
         (\E op \in Ops : QueueStep(op)) \/ UNCHANGED qvars
  PROVE  ToolInv'
<1> USE DEF QueueInv, ToolInv, ToolTypeOK, IInv, TypeOK
<1>1. \A o \in Ops : /\ pc'[o] = "done" <=> pc[o] = "done"
                     /\ pc[o] = "running" => pc'[o] = "running"
                     /\ pc'[o] = "running" /\ pc[o] # "running" => pc[o] = "queued"
                     /\ o \in landed \cup spoiled => rank'[o] = rank[o]
  BY DEF QueueStep, Call, Resolve, ResolveFails, Register, Start, qvars, PhaseOK
<1>2. PhaseOK'
  BY <1>1 DEF PhaseOK
<1>3. exists' = exists
  BY DEF QueueStep, Call, Resolve, ResolveFails, Register, Start, qvars
<1>6. TruncatedOK' /\ ToolTypeOK' /\ GoneOK'
  BY <1>3 DEF TruncatedOK, GoneOK, FileOf
<1>4. EditSeesCurrentContent'
  BY <1>1, <1>3, EditsAssumption DEF EditSeesCurrentContent, PhaseOK, FileOf
<1>5. LandedOK'
  BY <1>1 DEF LandedOK, FileOf
<1> QED
  BY <1>2, <1>6, <1>4, <1>5

\* A file is removed with all that landed in it.
LEMMA RemoveFileKeeps ==
  ASSUME QueueInv, ToolInv, NEW f \in Path, RemoveFile(f)
  PROVE  ToolInv'
<1> USE DEF QueueInv, ToolInv, ToolTypeOK, IInv, TypeOK
<1>1. /\ exists' = exists \ {f}
      /\ content' = [content EXCEPT ![f] = {}]
      /\ landed' = {op \in landed : FileOf(op) # f}
      /\ UNCHANGED <<pc, rank, step, seen, spoiled>>
  BY DEF RemoveFile, Remove
<1>2. ToolTypeOK' /\ PhaseOK'
  BY <1>1 DEF PhaseOK
<1>3. GoneOK' /\ TruncatedOK'
  BY <1>1, FileOfType DEF GoneOK, TruncatedOK, FileOf
<1>4. EditSeesCurrentContent'
  BY <1>1, EditsAssumption, FileOfType DEF EditSeesCurrentContent, FileOf
<1>5. LandedOK'
  BY <1>1, EditsAssumption, FileOfType DEF LandedOK, FileOf
<1> QED
  BY <1>2, <1>3, <1>4, <1>5

-----------------------------------------------------------------------------
\* The invariant of the tools, for files with one name each.
LEMMA ToolInductive ==
  ASSUME \A op \in Ops : OneName(op)
  PROVE  ToolSpec => [](QueueInv /\ ToolInv)
<1>1. ToolInit => QueueInv /\ ToolInv
  <2> SUFFICES ASSUME ToolInit PROVE QueueInv /\ ToolInv
    OBVIOUS
  <2>1. IInv
    BY InitIInv DEF ToolInit
  <2>2. FilesThere /\ KeysOK /\ DoneOK
    BY DEF ToolInit, Init, FilesThere, OneName, KeysOK, DoneOK
  <2>3. ToolInv
    BY EditsAssumption DEF ToolInit, Init, ToolInv, ToolTypeOK, GoneOK, PhaseOK,
       TruncatedOK, EditSeesCurrentContent, LandedOK
  <2> QED
    BY <2>1, <2>2, <2>3 DEF QueueInv
<1>2. QueueInv /\ ToolInv /\ [ToolNext]_tvars => (QueueInv /\ ToolInv)'
  <2> SUFFICES ASSUME QueueInv, ToolInv, [ToolNext]_tvars PROVE QueueInv' /\ ToolInv'
    OBVIOUS
  <2>0. ToolNext \/ UNCHANGED tvars
    OBVIOUS
  <2>1. QueueInv'
    BY <2>0, QueueInvStep
  <2>2. CASE Abort \/ UNCHANGED tvars
    BY <2>1, <2>2, QueueStepKeeps DEF Abort, tvars, qvars
  <2>3. ASSUME NEW op \in Ops, QueueStep(op), UNCHANGED toolvars PROVE ToolInv'
    BY <2>3, QueueStepKeeps DEF toolvars
  <2>4. ASSUME NEW op \in Ops, ToolStep(op) PROVE ToolInv'
    BY <2>4, QuietStepKeeps, ReadKeeps, BeginWriteKeeps, EndWriteKeeps,
       WriteFailsKeeps, LostWriteKeeps DEF ToolStep
  <2>5. ASSUME NEW f \in Path, RemoveFile(f) PROVE ToolInv'
    BY <2>5, RemoveFileKeeps
  <2> QED
    BY <2>0, <2>1, <2>2, <2>3, <2>4, <2>5 DEF ToolNext
<1> QED
  BY <1>1, <1>2, PTL DEF ToolSpec

\* No two writes of one file are in flight together, whatever is aborted.
THEOREM WritesExclude ==
  ASSUME \A op \in Ops : OneName(op)
  PROVE  ToolSpec => []OneWriteInFlight
<1>1. QueueInv /\ ToolInv => OneWriteInFlight
  BY OneRunsPerFile DEF ToolInv, PhaseOK, OneWriteInFlight
<1> QED
  BY ToolInductive, <1>1, PTL

\* An edit is computed from what its file holds until it is written.
THEOREM EditsAreCurrent ==
  ASSUME \A op \in Ops : OneName(op)
  PROVE  ToolSpec => []EditSeesCurrentContent
<1>1. QueueInv /\ ToolInv => EditSeesCurrentContent
  BY DEF ToolInv
<1> QED
  BY ToolInductive, <1>1, PTL

\* A landed edit is lost only to a write of the whole file that was called later,
\* or to an operation called later whose write failed.
THEOREM EditsAreKept ==
  ASSUME \A op \in Ops : OneName(op)
  PROVE  ToolSpec => []LandedEditsKept
<1>1. QueueInv /\ ToolInv => LandedEditsKept
  BY DEF ToolInv, PhaseOK, LandedOK, LandedEditsKept, Editing
<1> QED
  BY ToolInductive, <1>1, PTL
=============================================================================
