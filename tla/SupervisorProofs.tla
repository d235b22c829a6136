-------------------------- MODULE SupervisorProofs --------------------------
(***************************************************************************)
(* Nobody waits for a process that is gone, and no process is out of reach,*)
(* for any set of instances and any number of callers that stop them; and, *)
(* without Radius, instances.json agrees with what is live.                *)
(*                                                                         *)
(* PendingHasProcess is not inductive: a command is sent to the process    *)
(* that the resources name, so that process must not have been killed      *)
(* (NotKilled).  For ProcessesAreReachable a clean-up that awaits Radius   *)
(* must hold the process while the resources name it (CleanersHold; none   *)
(* runs before the process is there: Unspawned), and an exit handler that  *)
(* awaits Radius must follow an exit (ExitsAreExits).                      *)
(*                                                                         *)
(* RecordsMatchLive needs PlainInv, which holds while Radius is disabled:  *)
(* nothing is ever announced, so that no handler awaits a disconnection;   *)
(* an orchestrator that is down has no call in progress; and what is not   *)
(* live has a record that is neither starting nor online, for a command    *)
(* answered late saves that record again.                                  *)
(***************************************************************************)
EXTENDS Supervisor, TLAPS

CallsTyped ==
  /\ hasProcess \in [Instance -> BOOLEAN]
  /\ proc \in [Instance -> {"none", "running", "killed", "exited"}]
  /\ spawning \in [Instance -> {"none", "asking", "registering", "rejected", "failed", "done"}]
  /\ rpc \in [Instance -> {"none", "sent", "syncing", "ended"}]
  /\ cleaning \in [Instance -> [Caller -> {"none", "disconnecting", "disposing", "done"}]]
  /\ holds \in [Instance -> [Caller -> BOOLEAN]]
  /\ exiting \in [Instance -> BOOLEAN]

NotKilled ==
  \A i \in Instance : hasProcess[i] => proc[i] = "running" \/ proc[i] = "exited"

CleanersHold ==
  \A i \in Instance : \A c \in Caller :
    cleaning[i][c] = "disconnecting" /\ hasProcess[i] => holds[i][c]

Unspawned ==
  \A i \in Instance :
    proc[i] = "none" =>
      /\ i \notin live
      /\ spawning[i] = "none"
      /\ \A c \in Caller : cleaning[i][c] = "none"

SpawnerCleansLast ==
  \A i \in Instance : spawning[i] # "failed" => cleaning[i][Spawner] = "none"

ExitsAreExits ==
  \A i \in Instance : exiting[i] => proc[i] = "exited"

IInv ==
  /\ CallsTyped
  /\ NotKilled
  /\ CleanersHold
  /\ Unspawned
  /\ SpawnerCleansLast
  /\ ExitsAreExits
  /\ PendingHasProcess
  /\ ProcessesAreReachable

\* What the invariant depends on.
facts == <<live, hasProcess, proc, spawning, rpc, cleaning, holds, exiting, failed>>

-----------------------------------------------------------------------------
LEMMA NestedExcept ==
  ASSUME NEW I, NEW C, NEW S, NEW f \in [I -> [C -> S]], NEW i \in I, NEW c \in C,
         NEW v \in S
  PROVE  [f EXCEPT ![i][c] = v] \in [I -> [C -> S]]
<1>1. [f[i] EXCEPT ![c] = v] \in [C -> S]
  OBVIOUS
<1> QED
  BY <1>1

CleaningType == [Instance -> [Caller -> {"none", "disconnecting", "disposing", "done"}]]
HoldsType == [Instance -> [Caller -> BOOLEAN]]

LEMMA CleaningTyped ==
  ASSUME CallsTyped, NEW i \in Instance, NEW c \in Caller
  PROVE  /\ [cleaning EXCEPT ![i][c] = "disposing"] \in CleaningType
         /\ [cleaning EXCEPT ![i][c] = "done"] \in CleaningType
         /\ [holds EXCEPT ![i][c] = TRUE] \in HoldsType
         /\ [holds EXCEPT ![i][c] = FALSE] \in HoldsType
<1>1. cleaning \in CleaningType /\ holds \in HoldsType
  BY DEF CallsTyped, CleaningType, HoldsType
<1>2. \A at \in {"none", "disconnecting", "disposing", "done"} :
        [cleaning EXCEPT ![i][c] = at] \in CleaningType
  BY <1>1, NestedExcept DEF CleaningType
<1>3. \A held \in BOOLEAN : [holds EXCEPT ![i][c] = held] \in HoldsType
  BY <1>1, NestedExcept DEF HoldsType
<1>4. /\ [cleaning EXCEPT ![i][c] = "disposing"] \in CleaningType
      /\ [cleaning EXCEPT ![i][c] = "done"] \in CleaningType
  BY <1>2
<1>5. /\ [holds EXCEPT ![i][c] = TRUE] \in HoldsType
      /\ [holds EXCEPT ![i][c] = FALSE] \in HoldsType
  BY <1>3
<1> QED
  BY <1>4, <1>5

LEMMA SpawnerIsCaller == Spawner \in Caller /\ Stopper \subseteq Caller
  BY DEF Caller

\* Nothing has been spawned in the initial state.
LEMMA InitIInv == Init => IInv
  BY SpawnerIsCaller DEF Init, IInv, CallsTyped, NotKilled, CleanersHold, Unspawned, SpawnerCleansLast, ExitsAreExits,
         PendingHasProcess, ProcessesAreReachable, Blank, NoCalls, NoHolds

\* The invariant is a matter of facts alone.
LEMMA Untouched == IInv /\ UNCHANGED facts => IInv'
  BY DEF facts, IInv, CallsTyped, NotKilled, CleanersHold, Unspawned, SpawnerCleansLast, ExitsAreExits,
         PendingHasProcess, ProcessesAreReachable

\* The death of the orchestrator takes every call and every process with it.
LEMMA CrashKeeps == IInv /\ Crash => IInv'
  BY SpawnerIsCaller DEF Crash, IInv, CallsTyped, NotKilled, CleanersHold, Unspawned, SpawnerCleansLast, ExitsAreExits,
         PendingHasProcess, ProcessesAreReachable, Blank, NoCalls, NoHolds

\* A new process runs, in a live instance that names it.
LEMMA SpawnKeeps ==
  ASSUME IInv, NEW i \in Instance, Spawn(i)
  PROVE  IInv'
<1>1. PICK created \in BOOLEAN :
        /\ proc' = [proc EXCEPT ![i] = IF created THEN "running" ELSE "exited"]
        /\ spawning' = [spawning EXCEPT ![i] = IF created THEN "asking" ELSE "rejected"]
        /\ hasProcess' = [hasProcess EXCEPT ![i] = created]
  BY Zenon DEF Spawn
<1>2. /\ live' = live \cup {i}
      /\ proc[i] = "none"
      /\ UNCHANGED <<cleaning, holds, exiting, rpc, failed>>
  BY Zenon DEF Spawn
<1>3. /\ ~hasProcess[i] /\ ~exiting[i] /\ rpc[i] # "sent" /\ rpc[i] # "syncing"
      /\ \A c \in Caller : cleaning[i][c] = "none"
  BY <1>2 DEF IInv, CallsTyped, NotKilled, Unspawned, SpawnerCleansLast, ExitsAreExits, PendingHasProcess
<1>4. CallsTyped' /\ NotKilled' /\ Unspawned' /\ SpawnerCleansLast' /\ ExitsAreExits' /\ PendingHasProcess'
  BY <1>1, <1>2, <1>3
  DEF IInv, CallsTyped, NotKilled, Unspawned, SpawnerCleansLast, ExitsAreExits, PendingHasProcess
<1>5. CleanersHold'
  BY <1>1, <1>2, <1>3
  DEF IInv, CallsTyped, CleanersHold
<1>6. ProcessesAreReachable'
  BY <1>1, <1>2, <1>3 DEF IInv, CallsTyped, ProcessesAreReachable
<1> QED
  BY <1>4, <1>5, <1>6 DEF IInv

-----------------------------------------------------------------------------
\* The steps that move one instance's calls, and neither its process nor what
\* refers to it.

LEMMA SpawningStep ==
  ASSUME IInv, NEW i \in Instance, NEW to \in {"registering", "rejected", "done"},
         spawning[i] \notin {"none", "failed"}, spawning' = [spawning EXCEPT ![i] = to],
         UNCHANGED <<live, hasProcess, proc, rpc, cleaning, holds, exiting, failed>>
  PROVE  IInv'
<1>1. CallsTyped'
  BY DEF IInv, CallsTyped
<1>2. NotKilled' /\ CleanersHold' /\ Unspawned' /\ SpawnerCleansLast' /\ ExitsAreExits'
  BY DEF IInv, CallsTyped, NotKilled, CleanersHold, Unspawned, SpawnerCleansLast, ExitsAreExits
<1>3. PendingHasProcess' /\ ProcessesAreReachable'
  BY DEF IInv, CallsTyped, PendingHasProcess, ProcessesAreReachable
<1> QED
  BY <1>1, <1>2, <1>3 DEF IInv

\* A command that waits next, waits for a process that runs.
LEMMA RpcStep ==
  ASSUME IInv, NEW i \in Instance, NEW to \in {"sent", "syncing", "ended"},
         rpc' = [rpc EXCEPT ![i] = to],
         to # "ended" => proc[i] = "running",
         UNCHANGED <<live, hasProcess, proc, spawning, cleaning, holds, exiting, failed>>
  PROVE  IInv'
<1>1. CallsTyped'
  BY DEF IInv, CallsTyped
<1>2. NotKilled' /\ CleanersHold' /\ Unspawned' /\ SpawnerCleansLast' /\ ExitsAreExits'
  BY DEF IInv, CallsTyped, NotKilled, CleanersHold, Unspawned, SpawnerCleansLast, ExitsAreExits
<1>3. PendingHasProcess' /\ ProcessesAreReachable'
  BY DEF IInv, CallsTyped, PendingHasProcess, ProcessesAreReachable
<1> QED
  BY <1>1, <1>2, <1>3 DEF IInv

\* The steps of spawnInstance, of a command, and of Radius's presence.
LEMMA CallsKeep ==
  ASSUME IInv, NEW i \in Instance,
         \/ StateArrives(i) \/ Registered(i) \/ SpawnThrows(i)
         \/ Command(i) \/ CommandAnswered(i) \/ SyncAnswered(i)
         \/ Beat(i) \/ BeatEnds(i) \/ BeatNotFound(i) \/ MachineNotFound(i)
         \/ Reregistered(i) \/ ReregisterFails(i)
  PROVE  IInv'
<1>1. CASE StateArrives(i) \/ Registered(i) \/ SpawnThrows(i)
  <2>1. /\ spawning[i] \notin {"none", "failed"}
        /\ UNCHANGED <<live, hasProcess, proc, rpc, cleaning, holds, exiting, failed>>
    BY <1>1 DEF StateArrives, Registered, SpawnThrows, memory
  <2>2. \E to \in {"registering", "rejected", "done"} :
          spawning' = [spawning EXCEPT ![i] = to]
    BY <1>1 DEF StateArrives, Registered, SpawnThrows
  <2> QED
    BY <2>1, <2>2, SpawningStep
<1>2. CASE Command(i) \/ CommandAnswered(i) \/ SyncAnswered(i)
  <2>1. UNCHANGED <<live, hasProcess, proc, spawning, cleaning, holds, exiting, failed>>
    BY <1>2 DEF Command, CommandAnswered, SyncAnswered, memory
  <2>2. \E to \in {"sent", "syncing", "ended"} :
          /\ rpc' = [rpc EXCEPT ![i] = to]
          /\ to # "ended" => proc[i] = "running"
    <3>1. CASE Command(i)
      BY <3>1 DEF Command, IInv, CallsTyped, NotKilled
    <3>2. CASE CommandAnswered(i)
      BY <3>2 DEF CommandAnswered, IInv, CallsTyped, PendingHasProcess
    <3>3. CASE SyncAnswered(i)
      BY <3>3 DEF SyncAnswered
    <3> QED
      BY <1>2, <3>1, <3>2, <3>3
  <2> QED
    BY <2>1, <2>2, RpcStep
<1>3. CASE \/ Beat(i) \/ BeatEnds(i) \/ BeatNotFound(i) \/ MachineNotFound(i)
           \/ Reregistered(i) \/ ReregisterFails(i)
  <2>1. UNCHANGED facts
    BY <1>3 DEF Beat, BeatEnds, BeatNotFound, MachineNotFound, Reregistered,
                ReregisterFails, Others, calls, facts
  <2> QED
    BY <2>1, Untouched
<1> QED
  BY <1>1, <1>2, <1>3

-----------------------------------------------------------------------------
\* The steps of a clean-up.

\* Both of cleanupAcquiredResources' ends, whatever process it held.
LEMMA RestKeeps ==
  ASSUME IInv, NEW i \in Instance, NEW c \in Caller, NEW held \in BOOLEAN,
         hasProcess[i] => held,
         cleaning[i][c] = "disconnecting" => held = holds[i][c],
         c = Spawner => spawning'[i] = "failed",
         proc[i] # "none",
         hasProcess' = [hasProcess EXCEPT ![i] = hasProcess[i] /\ ~held],
         \/ /\ held /\ proc[i] # "exited"
            /\ proc' = [proc EXCEPT ![i] = "killed"]
            /\ cleaning' = [cleaning EXCEPT ![i][c] = "disposing"]
            /\ holds' = [holds EXCEPT ![i][c] = TRUE]
            /\ live' = live
         \/ /\ held => proc[i] = "exited"
            /\ proc' = proc
            /\ cleaning' = [cleaning EXCEPT ![i][c] = "done"]
            /\ holds' = [holds EXCEPT ![i][c] = FALSE]
            /\ live' = live \ {i},
         CallsTyped',
         \A j \in Instance \ {i} : spawning'[j] = spawning[j] /\ rpc'[j] = rpc[j],
         spawning'[i] = "asking" => spawning[i] = "asking" /\ ~held,
         rpc'[i] = "sent" \/ rpc'[i] = "syncing" =>
           (rpc[i] = "sent" \/ rpc[i] = "syncing") /\ ~held,
         spawning'[i] # "failed" => spawning[i] # "failed",
         UNCHANGED <<exiting, failed>>
  PROVE  IInv'
<1>1. ~hasProcess'[i] /\ (\A j \in Instance \ {i} : hasProcess'[j] = hasProcess[j])
  BY DEF IInv, CallsTyped
<1>2. \A j \in Instance \ {i} : proc'[j] = proc[j] /\ (j \in live' <=> j \in live)
  BY DEF IInv, CallsTyped
<1>3. \A j \in Instance \ {i} : cleaning'[j] = cleaning[j] /\ holds'[j] = holds[j]
  BY DEF IInv, CallsTyped
<1>4. \A d \in Caller \ {c} :
        cleaning'[i][d] = cleaning[i][d] /\ holds'[i][d] = holds[i][d]
  BY DEF IInv, CallsTyped
<1>5. /\ \/ proc'[i] = proc[i]
         \/ held /\ proc[i] # "exited" /\ proc'[i] = "killed"
      /\ proc'[i] # "none"
      /\ cleaning'[i][c] # "disconnecting"
  BY DEF IInv, CallsTyped
<1>6. NotKilled' /\ CleanersHold' /\ Unspawned'
  BY <1>1, <1>2, <1>3, <1>4, <1>5 DEF IInv, NotKilled, CleanersHold, Unspawned
<1>7. SpawnerCleansLast'
  BY <1>2, <1>3, <1>4, <1>5, SpawnerIsCaller DEF IInv, SpawnerCleansLast
<1>8. ExitsAreExits'
  BY <1>2, <1>3, <1>4, <1>5 DEF IInv, ExitsAreExits
<1>9. PendingHasProcess'
  <2>1. ASSUME NEW j \in Instance \ {i}
        PROVE  spawning'[j] = "asking" \/ rpc'[j] = "sent" \/ rpc'[j] = "syncing"
                 => proc'[j] = "running"
    BY <1>2, <1>3, <1>4, <1>5, <2>1 DEF IInv, PendingHasProcess
  <2>2. spawning'[i] = "asking" \/ rpc'[i] = "sent" \/ rpc'[i] = "syncing"
          => proc'[i] = "running"
    BY <1>2, <1>3, <1>4, <1>5 DEF IInv, PendingHasProcess
  <2> QED
    BY <2>1, <2>2 DEF PendingHasProcess
<1>10. ProcessesAreReachable'
  <2>1. ASSUME NEW j \in Instance \ {i}, ~failed, proc'[j] = "running"
        PROVE  \/ j \in live' /\ hasProcess'[j]
               \/ \E d \in Caller : cleaning'[j][d] = "disconnecting" /\ holds'[j][d]
    BY <1>1, <1>2, <1>3, <1>4, <1>5, <2>1 DEF IInv, ProcessesAreReachable
  <2>2. ASSUME ~failed, proc'[i] = "running"
        PROVE  \E d \in Caller : cleaning'[i][d] = "disconnecting" /\ holds'[i][d]
    <3>1. ~held /\ ~hasProcess[i] /\ proc[i] = "running"
      BY <1>2, <1>3, <1>4, <1>5, <2>2 DEF IInv, CallsTyped
    <3>2. PICK d \in Caller : cleaning[i][d] = "disconnecting" /\ holds[i][d]
      BY <2>2, <3>1 DEF IInv, ProcessesAreReachable
    <3> QED
      BY <1>2, <1>3, <1>4, <1>5, <3>1, <3>2
  <2> QED
    BY <2>1, <2>2 DEF ProcessesAreReachable
<1> QED
  BY <1>6, <1>7, <1>8, <1>9, <1>10 DEF IInv

\* cleanupAcquiredResources, called by stopInstance or failSpawn.
LEMMA CleanUpKeeps ==
  ASSUME IInv, NEW i \in Instance, NEW c \in Caller, NEW r, CleanUp(i, c, r),
         cleaning[i][c] = "none",
         c = Spawner => spawning'[i] = "failed",
         proc[i] # "none",
         CallsTyped,
         spawning' \in [Instance -> {"none", "asking", "registering", "rejected", "failed", "done"}],
         rpc' \in [Instance -> {"none", "sent", "syncing", "ended"}],
         \A j \in Instance \ {i} : spawning'[j] = spawning[j] /\ rpc'[j] = rpc[j],
         spawning'[i] = "asking" =>
           spawning[i] = "asking" /\ ((hasPi[i] /\ r.pi) \/ ~hasProcess[i]),
         rpc'[i] = "sent" \/ rpc'[i] = "syncing" =>
           /\ rpc[i] = "sent" \/ rpc[i] = "syncing"
           /\ (hasPi[i] /\ r.pi) \/ ~hasProcess[i],
         spawning'[i] # "failed" => spawning[i] # "failed",
         UNCHANGED <<exiting, failed>>
  PROVE  IInv'
<1>1. CASE hasPi[i] /\ r.pi
  <2>1. /\ cleaning' = [cleaning EXCEPT ![i][c] = "disconnecting"]
        /\ holds' = [holds EXCEPT ![i][c] = hasProcess[i]]
        /\ UNCHANGED <<hasProcess, proc, live>>
    BY <1>1, Zenon DEF CleanUp
  <2>2. CallsTyped'
    BY <2>1 DEF CallsTyped
  <2>3. NotKilled' /\ ExitsAreExits'
    BY <2>1 DEF IInv, NotKilled, ExitsAreExits
  <2>4. CleanersHold' /\ Unspawned'
    BY <2>1 DEF IInv, CallsTyped, CleanersHold, Unspawned
  <2>5. SpawnerCleansLast'
    BY <2>1, SpawnerIsCaller DEF IInv, CallsTyped, SpawnerCleansLast
  <2>6. PendingHasProcess'
    BY <2>1 DEF IInv, PendingHasProcess
  <2>7. ProcessesAreReachable'
    BY <2>1 DEF IInv, CallsTyped, ProcessesAreReachable
  <2> QED
    BY <2>2, <2>3, <2>4, <2>5, <2>6, <2>7 DEF IInv
<1>2. CASE ~(hasPi[i] /\ r.pi)
  <2> DEFINE held == hasProcess[i]
  <2>1. CleanUpRest(i, c, r, r, held)
    BY <1>2, Zenon DEF CleanUp
  <2>2. /\ hasProcess' = [hasProcess EXCEPT ![i] = hasProcess[i] /\ ~held]
        /\ \/ /\ held /\ proc[i] # "exited"
              /\ proc' = [proc EXCEPT ![i] = "killed"]
              /\ cleaning' = [cleaning EXCEPT ![i][c] = "disposing"]
              /\ holds' = [holds EXCEPT ![i][c] = TRUE]
              /\ live' = live
           \/ /\ held => proc[i] = "exited"
              /\ proc' = proc
              /\ cleaning' = [cleaning EXCEPT ![i][c] = "done"]
              /\ holds' = [holds EXCEPT ![i][c] = FALSE]
              /\ live' = live \ {i}
    BY <2>1, Zenon DEF CleanUpRest, Dispose, Finish, Forget
  <2>3. held \in BOOLEAN
    BY DEF CallsTyped
  <2>4. CallsTyped'
    <3>1. hasProcess' \in [Instance -> BOOLEAN]
      BY <2>2 DEF CallsTyped
    <3>2. proc' \in [Instance -> {"none", "running", "killed", "exited"}]
      BY <2>2 DEF CallsTyped
    <3>3. CallsTyped
      BY DEF IInv
    <3>4. \/ /\ cleaning' = [cleaning EXCEPT ![i][c] = "disposing"]
             /\ holds' = [holds EXCEPT ![i][c] = TRUE]
          \/ /\ cleaning' = [cleaning EXCEPT ![i][c] = "done"]
             /\ holds' = [holds EXCEPT ![i][c] = FALSE]
      BY <2>2, Zenon
    <3>5. cleaning' \in CleaningType /\ holds' \in HoldsType
      BY <3>3, <3>4, CleaningTyped, Zenon
    <3> QED
      BY <3>1, <3>2, <3>5 DEF CallsTyped, CleaningType, HoldsType
  <2> QED
    BY <1>2, <2>2, <2>3, <2>4, RestKeeps
<1> QED
  BY <1>1, <1>2

LEMMA StopKeeps ==
  ASSUME IInv, NEW i \in Instance, NEW s \in Stopper, StopInstance(i, s)
  PROVE  IInv'
<1>1. /\ i \in live /\ cleaning[i][s] = "none"
      /\ CleanUp(i, s, With(i, "stopping"))
      /\ UNCHANGED <<exiting, failed>>
  BY Zenon DEF StopInstance
<1>2. s \in Caller /\ s # Spawner
  BY SpawnerIsCaller, SpawnerAssumption
<1>3. proc[i] # "none"
  BY <1>1 DEF IInv, Unspawned
<1>4. With(i, "stopping").pi = record[i].pi
  BY DEF With
<1>5. IF hasProcess[i] /\ ~(hasPi[i] /\ record[i].pi)
        THEN RejectPending(i)
        ELSE UNCHANGED <<spawning, rpc>>
  BY Zenon DEF StopInstance
<1> QED
  BY <1>1, <1>2, <1>3, <1>4, <1>5, CleanUpKeeps DEF RejectPending, IInv, CallsTyped

LEMMA FailSpawnKeeps ==
  ASSUME IInv, NEW i \in Instance, FailSpawn(i)
  PROVE  IInv'
<1>1. /\ spawning[i] = "rejected"
      /\ spawning' = [spawning EXCEPT ![i] = "failed"]
      /\ CleanUp(i, Spawner, With(i, "error"))
      /\ UNCHANGED <<exiting, failed>>
  BY Zenon DEF FailSpawn
<1>2. rpc' = [rpc EXCEPT ![i] =
                IF rpc[i] \in {"sent", "syncing"} /\ ~(hasPi[i] /\ record[i].pi) /\ hasProcess[i]
                  THEN "ended" ELSE rpc[i]]
  BY SMT DEF FailSpawn
<1>3. /\ proc[i] # "none"
      /\ cleaning[i][Spawner] = "none"
  BY <1>1, SpawnerIsCaller DEF IInv, Unspawned, SpawnerCleansLast
<1>4. With(i, "error").pi = record[i].pi
  BY DEF With
<1>5. rpc'[i] = "sent" \/ rpc'[i] = "syncing" =>
        /\ rpc[i] = "sent" \/ rpc[i] = "syncing"
        /\ (hasPi[i] /\ record[i].pi) \/ ~hasProcess[i]
  BY <1>2 DEF IInv, CallsTyped
<1>6. /\ spawning' \in [Instance -> {"none", "asking", "registering", "rejected", "failed", "done"}]
      /\ rpc' \in [Instance -> {"none", "sent", "syncing", "ended"}]
      /\ \A j \in Instance \ {i} : spawning'[j] = spawning[j] /\ rpc'[j] = rpc[j]
      /\ spawning'[i] = "failed"
  BY <1>1, <1>2 DEF IInv, CallsTyped
<1>7. CallsTyped
  BY DEF IInv
<1> QED
  BY <1>1, <1>3, <1>4, <1>5, <1>6, <1>7, SpawnerIsCaller, CleanUpKeeps

LEMMA DisconnectedKeeps ==
  ASSUME IInv, NEW i \in Instance, NEW c \in Caller, Disconnected(i, c)
  PROVE  IInv'
<1> DEFINE held == holds[i][c]
<1>1. /\ cleaning[i][c] = "disconnecting"
      /\ CleanUpRest(i, c, [record[i] EXCEPT !.pi = FALSE], stored[i], held)
      /\ IF held THEN RejectPending(i) ELSE UNCHANGED <<spawning, rpc>>
      /\ UNCHANGED <<exiting, failed>>
  BY Zenon DEF Disconnected
<1>2. /\ hasProcess' = [hasProcess EXCEPT ![i] = hasProcess[i] /\ ~held]
      /\ \/ /\ held /\ proc[i] # "exited"
            /\ proc' = [proc EXCEPT ![i] = "killed"]
            /\ cleaning' = [cleaning EXCEPT ![i][c] = "disposing"]
            /\ holds' = [holds EXCEPT ![i][c] = TRUE]
            /\ live' = live
         \/ /\ held => proc[i] = "exited"
            /\ proc' = proc
            /\ cleaning' = [cleaning EXCEPT ![i][c] = "done"]
            /\ holds' = [holds EXCEPT ![i][c] = FALSE]
            /\ live' = live \ {i}
  BY <1>1, Zenon DEF CleanUpRest, Dispose, Finish, Forget
<1>3. /\ spawning' \in [Instance -> {"none", "asking", "registering", "rejected", "failed", "done"}]
      /\ rpc' \in [Instance -> {"none", "sent", "syncing", "ended"}]
      /\ \A j \in Instance \ {i} : spawning'[j] = spawning[j] /\ rpc'[j] = rpc[j]
      /\ spawning'[i] = "asking" => spawning[i] = "asking" /\ ~held
      /\ rpc'[i] = "sent" \/ rpc'[i] = "syncing" =>
           (rpc[i] = "sent" \/ rpc[i] = "syncing") /\ ~held
      /\ spawning'[i] = "failed" <=> spawning[i] = "failed"
  BY <1>1 DEF RejectPending, IInv, CallsTyped
<1>4. CallsTyped'
  <2>1. hasProcess' \in [Instance -> BOOLEAN]
    BY <1>2 DEF IInv, CallsTyped
  <2>2. proc' \in [Instance -> {"none", "running", "killed", "exited"}]
    BY <1>2 DEF IInv, CallsTyped
  <2>3. CallsTyped
    BY DEF IInv
  <2>4. cleaning' \in CleaningType /\ holds' \in HoldsType
    BY <1>2, <2>3, CleaningTyped, Zenon
  <2> QED
    BY <1>1, <1>3, <2>1, <2>2, <2>3, <2>4 DEF CallsTyped, CleaningType, HoldsType
<1>5. /\ held \in BOOLEAN
      /\ hasProcess[i] => held
      /\ proc[i] # "none"
      /\ c = Spawner => spawning'[i] = "failed"
  BY <1>1, <1>3 DEF IInv, CallsTyped, CleanersHold, Unspawned, SpawnerCleansLast
<1> HIDE DEF held
<1> QED
  BY <1>1, <1>2, <1>3, <1>4, <1>5, RestKeeps DEF held

\* disconnectPi's error is recorded, so only requests are left to look at.
LEMMA DisconnectFailsKeeps ==
  ASSUME IInv, NEW i \in Instance, NEW c \in Caller, DisconnectFails(i, c)
  PROVE  IInv'
<1>1. /\ cleaning[i][c] = "disconnecting"
      /\ cleaning' = [cleaning EXCEPT ![i][c] = "done"]
      /\ holds' = [holds EXCEPT ![i][c] = FALSE]
      /\ live' = live \ {i}
      /\ failed'
      /\ UNCHANGED <<hasProcess, spawning, exiting, rpc, proc>>
  BY Zenon DEF DisconnectFails, Finish, Forget
<1>2. CallsTyped'
  <2>1. CallsTyped
    BY DEF IInv
  <2>2. cleaning' \in CleaningType /\ holds' \in HoldsType
    BY <1>1, <2>1, CleaningTyped, Zenon
  <2> QED
    BY <1>1, <2>1, <2>2 DEF CallsTyped, CleaningType, HoldsType
<1>3. NotKilled' /\ ExitsAreExits' /\ PendingHasProcess' /\ ProcessesAreReachable'
  BY <1>1 DEF IInv, NotKilled, ExitsAreExits, PendingHasProcess, ProcessesAreReachable
<1>4. CleanersHold' /\ Unspawned'
  BY <1>1 DEF IInv, CallsTyped, CleanersHold, Unspawned
<1>5. SpawnerCleansLast'
  BY <1>1, SpawnerIsCaller DEF IInv, CallsTyped, SpawnerCleansLast
<1> QED
  BY <1>2, <1>3, <1>4, <1>5 DEF IInv

\* dispose has waited for the exit.
LEMMA DisposeReturnsKeeps ==
  ASSUME IInv, NEW i \in Instance, NEW c \in Caller, DisposeReturns(i, c)
  PROVE  IInv'
<1>1. /\ cleaning[i][c] = "disposing" /\ proc[i] = "exited"
      /\ cleaning' = [cleaning EXCEPT ![i][c] = "done"]
      /\ holds' = [holds EXCEPT ![i][c] = FALSE]
      /\ live' = live \ {i}
      /\ UNCHANGED <<hasProcess, spawning, exiting, rpc, proc, failed>>
  BY Zenon DEF DisposeReturns, Disposed, Finish, Forget
<1>2. CallsTyped'
  <2>1. CallsTyped
    BY DEF IInv
  <2>2. cleaning' \in CleaningType /\ holds' \in HoldsType
    BY <1>1, <2>1, CleaningTyped, Zenon
  <2> QED
    BY <1>1, <2>1, <2>2 DEF CallsTyped, CleaningType, HoldsType
<1>3. NotKilled' /\ ExitsAreExits' /\ PendingHasProcess'
  BY <1>1 DEF IInv, NotKilled, ExitsAreExits, PendingHasProcess
<1>4. CleanersHold' /\ Unspawned'
  BY <1>1 DEF IInv, CallsTyped, CleanersHold, Unspawned
<1>5. SpawnerCleansLast'
  BY <1>1, SpawnerIsCaller DEF IInv, CallsTyped, SpawnerCleansLast
<1>6. ProcessesAreReachable'
  BY <1>1 DEF IInv, CallsTyped, ProcessesAreReachable
<1> QED
  BY <1>2, <1>3, <1>4, <1>5, <1>6 DEF IInv

\* The process exits; what waited for it is rejected.
LEMMA ProcessExitsKeeps ==
  ASSUME IInv, NEW i \in Instance, ProcessExits(i)
  PROVE  IInv'
<1>1. /\ proc[i] # "none"
      /\ proc' = [proc EXCEPT ![i] = "exited"]
      /\ RejectPending(i)
      /\ UNCHANGED <<cleaning, holds, failed>>
  BY DEF ProcessExits
<1>2. /\ hasProcess' = hasProcess \/ hasProcess' = [hasProcess EXCEPT ![i] = FALSE]
      /\ live' = live \/ live' = live \ {i}
      /\ exiting' = exiting \/ exiting' = [exiting EXCEPT ![i] = TRUE]
  BY Zenon DEF ProcessExits, UnexpectedExit, Forget
<1>3. CallsTyped'
  BY <1>1, <1>2 DEF IInv, CallsTyped, RejectPending
<1>4. NotKilled' /\ ExitsAreExits'
  BY <1>1, <1>2 DEF IInv, CallsTyped, NotKilled, ExitsAreExits
<1>5. CleanersHold'
  BY <1>1, <1>2 DEF IInv, CallsTyped, CleanersHold
<1>6. Unspawned'
  BY <1>1, <1>2 DEF IInv, CallsTyped, Unspawned, RejectPending
<1>7. SpawnerCleansLast' /\ PendingHasProcess'
  BY <1>1 DEF IInv, CallsTyped, SpawnerCleansLast, PendingHasProcess, RejectPending
<1>8. ProcessesAreReachable'
  BY <1>1, <1>2 DEF IInv, CallsTyped, ProcessesAreReachable
<1> QED
  BY <1>3, <1>4, <1>5, <1>6, <1>7, <1>8 DEF IInv

LEMMA ExitDisconnectedKeeps ==
  ASSUME IInv, NEW i \in Instance, ExitDisconnected(i)
  PROVE  IInv'
<1>1. /\ exiting[i]
      /\ exiting' = [exiting EXCEPT ![i] = FALSE]
      /\ live' = live \ {i}
      /\ UNCHANGED <<hasProcess, spawning, cleaning, holds, rpc, proc, failed>>
  BY Zenon DEF ExitDisconnected, Forget
<1> QED
  BY <1>1 DEF IInv, CallsTyped, NotKilled, CleanersHold, Unspawned, SpawnerCleansLast,
              ExitsAreExits, PendingHasProcess, ProcessesAreReachable

-----------------------------------------------------------------------------
LEMMA NextKeeps == IInv /\ [Next]_svars => IInv'
<1> SUFFICES ASSUME IInv, [Next]_svars PROVE IInv'
  OBVIOUS
<1>1. CASE UNCHANGED svars
  BY <1>1, Untouched DEF svars, memory, calls, facts
<1>2. CASE Boot \/ RecoverySaves
  BY <1>2, Untouched DEF Boot, RecoverySaves, memory, calls, facts
<1>3. CASE Crash
  BY <1>3, CrashKeeps
<1>4. ASSUME NEW i \in Instance, Continuation(i)
      PROVE  IInv'
  BY <1>4, FailSpawnKeeps, DisposeReturnsKeeps DEF Continuation
<1>5. ASSUME NEW i \in Instance, Event(i)
      PROVE  IInv'
  BY <1>5, SpawnKeeps, CallsKeep, StopKeeps, DisconnectedKeeps, DisconnectFailsKeeps,
     ProcessExitsKeeps, ExitDisconnectedKeeps DEF Event
<1> QED
  BY <1>1, <1>2, <1>3, <1>4, <1>5 DEF Next

LEMMA Invariance == Spec => []IInv
<1>1. Init => IInv
  BY InitIInv
<1>2. IInv /\ [Next]_svars => IInv'
  BY NextKeeps
<1> QED
  BY <1>1, <1>2, PTL DEF Spec

\* No command and no start of an instance waits for the answer of a process
\* that was killed or has exited (rpc-process.ts:89, 96 and 188).
THEOREM NobodyWaitsInVain == Spec => []PendingHasProcess
<1>1. IInv => PendingHasProcess
  BY DEF IInv
<1> QED
  BY <1>1, Invariance, PTL

\* Every process that runs can be stopped, unless Radius failed a clean-up.
THEOREM ProcessesStayReachable == Spec => []ProcessesAreReachable
<1>1. IInv => ProcessesAreReachable
  BY DEF IInv
<1> QED
  BY <1>1, Invariance, PTL

-----------------------------------------------------------------------------
\* Without Radius.

Status == {"absent", "starting", "online", "stopping", "stopped", "error"}
Rec == [status : Status, pi : BOOLEAN]
Settled(r) == r.status \notin {"starting", "online"}

NothingAnnounced ==
  /\ phase \in {"down", "up"}
  /\ ~failed
  /\ hasPi = Blank(FALSE) /\ exiting = Blank(FALSE)
  /\ heart = Blank(NoHeart) /\ beating = Blank(FALSE) /\ lookedUp = Blank(Absent)
  /\ \A i \in Instance :
       /\ spawning[i] # "registering"
       /\ \A c \in Caller : cleaning[i][c] # "disconnecting"

DownIsIdle ==
  phase = "down" => \A i \in Instance :
    /\ i \notin live /\ spawning[i] = "none" /\ rpc[i] = "none"
    /\ proc[i] \in {"none", "exited"}
    /\ \A c \in Caller : cleaning[i][c] = "none"

RecordsTyped == record \in [Instance -> Rec] /\ stored \in [Instance -> Rec]

RecordsAgree ==
  \A i \in Instance :
    /\ i \in live => stored[i] = record[i]
    /\ i \notin live => Settled(record[i]) /\ (phase = "up" => Settled(stored[i]))

PlainInv == ~radius => NothingAnnounced /\ DownIsIdle /\ RecordsTyped /\ RecordsAgree

LEMMA RecTypes ==
  /\ Absent \in Rec /\ Settled(Absent) /\ [status |-> "starting", pi |-> FALSE] \in Rec
  /\ \A r \in Rec : \A st \in Status :
       [r EXCEPT !.status = st] \in Rec /\ [r EXCEPT !.status = st].status = st
  BY DEF Absent, Rec, Status, Settled

LEMMA WithTypes ==
  ASSUME RecordsTyped, NEW i \in Instance
  PROVE  /\ With(i, "error") \in Rec /\ Settled(With(i, "error"))
         /\ With(i, "stopping") \in Rec /\ Settled(With(i, "stopping"))
         /\ With(i, "online") \in Rec
  BY DEF RecordsTyped, Rec, With, Status, Settled

\* A step of one instance, while the orchestrator is up: if the instance is
\* live after it, its record is the stored one, and if not, both are settled.
LEMMA OneInstance ==
  ASSUME ~radius, NothingAnnounced, RecordsAgree, phase = "up", NEW i \in Instance,
         UNCHANGED <<radius, phase, failed, exiting, beating, lookedUp>>,
         hasPi' = hasPi \/ hasPi' = [hasPi EXCEPT ![i] = FALSE],
         heart' = heart \/ heart' = [heart EXCEPT ![i] = NoHeart],
         \A j \in Instance : spawning'[j] = spawning[j] \/ spawning'[j] # "registering",
         \A j \in Instance : \A c \in Caller :
           cleaning'[j][c] = cleaning[j][c] \/ cleaning'[j][c] # "disconnecting",
         RecordsTyped',
         \A j \in Instance \ {i} :
           record'[j] = record[j] /\ stored'[j] = stored[j] /\ (j \in live' <=> j \in live),
         i \in live' => stored'[i] = record'[i],
         i \notin live' => Settled(record'[i]) /\ Settled(stored'[i])
  PROVE  PlainInv'
<1>1. hasPi' = Blank(FALSE) /\ heart' = Blank(NoHeart)
  BY DEF NothingAnnounced, Blank
<1>2. NothingAnnounced'
  BY <1>1 DEF NothingAnnounced
<1>3. DownIsIdle'
  BY DEF DownIsIdle
<1>4. RecordsAgree'
  BY DEF RecordsAgree, Settled
<1> QED
  BY <1>2, <1>3, <1>4 DEF PlainInv

\* What a step that writes one clean-up's progress leaves alone.
LEMMA CleaningEffect ==
  ASSUME CallsTyped, NEW i \in Instance, NEW c \in Caller, NEW at \in {"disposing", "done"},
         cleaning' = [cleaning EXCEPT ![i][c] = at]
  PROVE  \A j \in Instance : \A d \in Caller :
           cleaning'[j][d] = cleaning[j][d] \/ cleaning'[j][d] # "disconnecting"
  BY DEF CallsTyped

\* The record of one instance and its copy in the file are written.
LEMMA RecordEffect ==
  ASSUME RecordsTyped, NEW i \in Instance, NEW r \in Rec, NEW saved \in Rec,
         record' = [record EXCEPT ![i] = r], stored' = [stored EXCEPT ![i] = saved]
  PROVE  /\ RecordsTyped'
         /\ record'[i] = r /\ stored'[i] = saved
         /\ \A j \in Instance \ {i} : record'[j] = record[j] /\ stored'[j] = stored[j]
  BY DEF RecordsTyped

\* The end of a clean-up: the instance is no longer live, and both copies of
\* its record are settled.
LEMMA FinishEffect ==
  ASSUME RecordsTyped, NEW i \in Instance, NEW c \in Caller, NEW r \in Rec, Finish(i, c, r)
  PROVE  /\ RecordsTyped'
         /\ Settled(record'[i]) /\ Settled(stored'[i]) /\ i \notin live'
         /\ \A j \in Instance \ {i} :
              record'[j] = record[j] /\ stored'[j] = stored[j] /\ (j \in live' <=> j \in live)
         /\ cleaning' = [cleaning EXCEPT ![i][c] = "done"]
<1> DEFINE end == [r EXCEPT !.status = "stopped"]
<1>1. /\ record' = [record EXCEPT ![i] = end]
      /\ stored' = [stored EXCEPT ![i] = IF c = Spawner THEN record'[i] ELSE Absent]
      /\ live' = live \ {i}
      /\ cleaning' = [cleaning EXCEPT ![i][c] = "done"]
  BY Zenon DEF Finish, Forget
<1>2. end \in Rec /\ Settled(end)
  BY RecTypes DEF Settled, Status
<1> HIDE DEF end
<1>3. record'[i] = end
  BY <1>1 DEF RecordsTyped
<1>4. PICK saved \in {end, Absent} : stored' = [stored EXCEPT ![i] = saved]
  BY <1>1, <1>3
<1>5. saved \in Rec /\ Settled(saved)
  BY <1>2, <1>4, RecTypes
<1> QED
  BY <1>1, <1>2, <1>4, <1>5, RecordEffect

\* A clean-up, which has nothing to disconnect: the record is settled.
LEMMA PlainCleanUp ==
  ASSUME ~radius, IInv, NothingAnnounced, RecordsTyped, RecordsAgree, phase = "up",
         NEW i \in Instance, NEW c \in Caller, NEW r \in Rec, Settled(r),
         CleanUp(i, c, r),
         UNCHANGED <<radius, phase, failed, exiting, beating, lookedUp>>,
         \A j \in Instance : spawning'[j] = spawning[j] \/ spawning'[j] # "registering"
  PROVE  PlainInv'
<1>1. ~hasPi[i]
  BY DEF NothingAnnounced, Blank
<1>2. CleanUpRest(i, c, r, r, hasProcess[i]) /\ heart' = heart
  BY <1>1, Zenon DEF CleanUp
<1>3. hasPi' = [hasPi EXCEPT ![i] = FALSE]
  BY <1>2, Zenon DEF CleanUpRest
<1>4. CASE hasProcess[i] /\ proc[i] # "exited"
  <2>1. /\ record' = [record EXCEPT ![i] = r]
        /\ stored' = [stored EXCEPT ![i] = r]
        /\ cleaning' = [cleaning EXCEPT ![i][c] = "disposing"]
        /\ live' = live
    BY <1>2, <1>4, Zenon DEF CleanUpRest
  <2>2. \A j \in Instance : \A d \in Caller :
          cleaning'[j][d] = cleaning[j][d] \/ cleaning'[j][d] # "disconnecting"
    BY <2>1, CleaningEffect DEF IInv
  <2>3. /\ RecordsTyped'
        /\ record'[i] = r /\ stored'[i] = r
        /\ \A j \in Instance \ {i} : record'[j] = record[j] /\ stored'[j] = stored[j]
    BY <2>1, RecordEffect
  <2> QED
    BY <1>2, <1>3, <2>1, <2>2, <2>3, OneInstance
<1>5. CASE ~(hasProcess[i] /\ proc[i] # "exited")
  <2>1. Finish(i, c, r)
    BY <1>2, <1>5, Zenon DEF CleanUpRest
  <2>2. \A j \in Instance : \A d \in Caller :
          cleaning'[j][d] = cleaning[j][d] \/ cleaning'[j][d] # "disconnecting"
    BY <2>1, FinishEffect, CleaningEffect DEF IInv
  <2> QED
    BY <1>2, <1>3, <2>1, <2>2, FinishEffect, OneInstance
<1> QED
  BY <1>4, <1>5

\* An instance asked for its state is live: its process runs, and has not
\* been given up.
LEMMA AskingIsLive ==
  ASSUME IInv, NothingAnnounced, NEW i \in Instance, spawning[i] = "asking"
  PROVE  i \in live
<1>1. proc[i] = "running"
  BY DEF IInv, PendingHasProcess
<1> QED
  BY <1>1 DEF IInv, ProcessesAreReachable, NothingAnnounced

LEMMA PlainSpawning ==
  ASSUME ~radius, IInv, NothingAnnounced, RecordsTyped, RecordsAgree, phase = "up",
         NEW i \in Instance, Spawn(i) \/ StateArrives(i) \/ SpawnThrows(i)
  PROVE  PlainInv'
<1>1. CASE Spawn(i)
  <2> DEFINE r == [status |-> "starting", pi |-> FALSE]
  <2>1. /\ live' = live \cup {i}
        /\ record' = [record EXCEPT ![i] = r] /\ stored' = [stored EXCEPT ![i] = r]
        /\ \E to \in {"asking", "rejected"} : spawning' = [spawning EXCEPT ![i] = to]
        /\ UNCHANGED <<hasPi, heart, radius, phase, failed, exiting, beating, lookedUp, cleaning>>
    BY <1>1 DEF Spawn, Record, presence, world
  <2>2. \A j \in Instance : spawning'[j] = spawning[j] \/ spawning'[j] # "registering"
    BY <2>1 DEF IInv, CallsTyped
  <2>3. r \in Rec
    BY RecTypes
  <2> HIDE DEF r
  <2> QED
    BY <2>1, <2>2, <2>3, RecordEffect, OneInstance
<1>2. CASE StateArrives(i)
  <2> DEFINE r == With(i, "online")
  <2>1. /\ spawning[i] = "asking" /\ spawning' = [spawning EXCEPT ![i] = "done"]
        /\ record' = [record EXCEPT ![i] = r] /\ stored' = [stored EXCEPT ![i] = r]
        /\ UNCHANGED <<live, hasPi, heart, radius, phase, failed, exiting, beating, lookedUp, cleaning>>
    BY <1>2 DEF StateArrives, Record, presence, world
  <2>2. \A j \in Instance : spawning'[j] = spawning[j] \/ spawning'[j] # "registering"
    BY <2>1 DEF IInv, CallsTyped
  <2>3. r \in Rec /\ i \in live
    BY <2>1, WithTypes, AskingIsLive
  <2> HIDE DEF r
  <2> QED
    BY <2>1, <2>2, <2>3, RecordEffect, OneInstance
<1>3. CASE SpawnThrows(i)
  <2>1. /\ spawning' = [spawning EXCEPT ![i] = "rejected"]
        /\ UNCHANGED <<live, record, stored, hasPi, heart, radius, phase, failed, exiting,
                       beating, lookedUp, cleaning>>
    BY <1>3 DEF SpawnThrows, memory, presence, world
  <2>2. \A j \in Instance : spawning'[j] = spawning[j] \/ spawning'[j] # "registering"
    BY <2>1 DEF IInv, CallsTyped
  <2>3. RecordsTyped'
    BY <2>1 DEF RecordsTyped
  <2>4. /\ i \in live => stored[i] = record[i]
        /\ i \notin live => Settled(record[i]) /\ Settled(stored[i])
    BY DEF RecordsAgree
  <2> QED
    BY <2>1, <2>2, <2>3, <2>4, OneInstance
<1> QED
  BY <1>1, <1>2, <1>3

LEMMA PlainStops ==
  ASSUME ~radius, IInv, NothingAnnounced, RecordsTyped, RecordsAgree, phase = "up",
         NEW i \in Instance,
         FailSpawn(i) \/ (\E s \in Stopper : StopInstance(i, s)) \/ (\E c \in Caller : DisposeReturns(i, c))
  PROVE  PlainInv'
<1>1. CASE FailSpawn(i)
  <2>1. /\ CleanUp(i, Spawner, With(i, "error"))
        /\ spawning' = [spawning EXCEPT ![i] = "failed"]
        /\ UNCHANGED <<radius, phase, failed, exiting, beating, lookedUp>>
    BY <1>1, Zenon DEF FailSpawn, world
  <2>2. \A j \in Instance : spawning'[j] = spawning[j] \/ spawning'[j] # "registering"
    BY <2>1 DEF IInv, CallsTyped
  <2> QED
    BY <2>1, <2>2, WithTypes, SpawnerIsCaller, PlainCleanUp
<1>2. ASSUME NEW s \in Stopper, StopInstance(i, s)
      PROVE  PlainInv'
  <2>1. /\ CleanUp(i, s, With(i, "stopping"))
        /\ RejectPending(i) \/ UNCHANGED <<spawning, rpc>>
        /\ UNCHANGED <<radius, phase, failed, exiting, beating, lookedUp>>
    BY <1>2, Zenon DEF StopInstance, world
  <2>2. \A j \in Instance : spawning'[j] = spawning[j] \/ spawning'[j] # "registering"
    BY <2>1 DEF IInv, CallsTyped, RejectPending
  <2>3. s \in Caller
    BY SpawnerIsCaller
  <2> QED
    BY <2>1, <2>2, <2>3, WithTypes, PlainCleanUp
<1>3. ASSUME NEW c \in Caller, DisposeReturns(i, c)
      PROVE  PlainInv'
  <2>1. /\ Finish(i, c, record[i])
        /\ UNCHANGED <<hasPi, heart, radius, phase, failed, exiting, beating, lookedUp, spawning>>
    BY <1>3, Zenon DEF DisposeReturns, presence, world
  <2>2. record[i] \in Rec
    BY DEF RecordsTyped
  <2>3. \A j \in Instance : \A d \in Caller :
          cleaning'[j][d] = cleaning[j][d] \/ cleaning'[j][d] # "disconnecting"
    BY <2>1, <2>2, FinishEffect, CleaningEffect DEF IInv
  <2> QED
    BY <2>1, <2>2, <2>3, FinishEffect, OneInstance
<1> QED
  BY <1>1, <1>2, <1>3

LEMMA PlainProcess ==
  ASSUME ~radius, IInv, NothingAnnounced, RecordsTyped, RecordsAgree, phase = "up",
         NEW i \in Instance,
         ProcessExits(i) \/ Command(i) \/ CommandAnswered(i) \/ SyncAnswered(i)
  PROVE  PlainInv'
<1>1. /\ i \in live => stored[i] = record[i]
      /\ i \notin live => Settled(record[i]) /\ Settled(stored[i])
      /\ record[i] \in Rec
  BY DEF RecordsAgree, RecordsTyped
<1>2. CASE ProcessExits(i)
  <2>1. /\ RejectPending(i)
        /\ UNCHANGED <<hasPi, radius, phase, failed, beating, lookedUp, cleaning>>
    BY <1>2, Zenon DEF ProcessExits, world
  <2>2. \A j \in Instance : spawning'[j] = spawning[j] \/ spawning'[j] # "registering"
    BY <2>1 DEF IInv, CallsTyped, RejectPending
  <2>3. CASE UnexpectedExit(i)
    <3>1. ~hasPi[i]
      BY DEF NothingAnnounced, Blank
    <3>2. /\ record' = [record EXCEPT ![i] = With(i, "error")]
          /\ stored' = [stored EXCEPT ![i] = With(i, "error")]
          /\ live' = live \ {i}
          /\ UNCHANGED <<heart, exiting>>
      BY <2>3, <3>1, Zenon DEF UnexpectedExit, Record, Forget
    <3> DEFINE r == With(i, "error")
    <3>3. r \in Rec /\ Settled(r)
      BY WithTypes
    <3> HIDE DEF r
    <3>4. /\ RecordsTyped' /\ record'[i] = r /\ stored'[i] = r
          /\ \A j \in Instance \ {i} : record'[j] = record[j] /\ stored'[j] = stored[j]
      BY <3>2, <3>3, RecordEffect DEF r
    <3> QED
      BY <2>1, <2>2, <3>2, <3>3, <3>4, OneInstance
  <2>4. CASE UNCHANGED <<record, stored, bound, hasProcess, heart, exiting, live>>
    <3>1. RecordsTyped'
      BY <2>4 DEF RecordsTyped
    <3> QED
      BY <1>1, <2>1, <2>2, <2>4, <3>1, OneInstance
  <2> QED
    BY <1>2, <2>3, <2>4, Zenon DEF ProcessExits
<1>3. CASE Command(i) \/ CommandAnswered(i) \/ SyncAnswered(i)
  <2>1. /\ UNCHANGED <<live, hasPi, heart, radius, phase, failed, exiting, beating, lookedUp,
                       spawning, cleaning>>
        /\ Record(i, record[i]) \/ UNCHANGED <<record, stored>>
    BY <1>3 DEF Command, CommandAnswered, SyncAnswered, memory, presence, world
  <2>2. CASE Record(i, record[i])
    <3>1. record' = [record EXCEPT ![i] = record[i]] /\ stored' = [stored EXCEPT ![i] = record[i]]
      BY <2>2 DEF Record
    <3> QED
      BY <1>1, <2>1, <3>1, RecordEffect, OneInstance
  <2>3. CASE UNCHANGED <<record, stored>>
    <3>1. RecordsTyped'
      BY <2>3 DEF RecordsTyped
    <3> QED
      BY <1>1, <2>1, <2>3, <3>1, OneInstance
  <2> QED
    BY <2>1, <2>2, <2>3
<1> QED
  BY <1>2, <1>3

\* Nothing of Radius's happens without it.
LEMMA NoRadiusSteps ==
  ASSUME ~radius, NothingAnnounced, NEW i \in Instance
  PROVE  /\ ~Registered(i)
         /\ \A c \in Caller : ~Disconnected(i, c) /\ ~DisconnectFails(i, c)
         /\ ~ExitDisconnected(i)
         /\ ~Beat(i) /\ ~BeatEnds(i) /\ ~BeatNotFound(i) /\ ~MachineNotFound(i)
         /\ ~Reregistered(i) /\ ~ReregisterFails(i)
         /\ ~RecoverySaves
<1>1. ~exiting[i] /\ heart[i] = NoHeart /\ ~beating[i] /\ lookedUp[i] = Absent
  BY DEF NothingAnnounced, Blank
<1>2. spawning[i] # "registering" /\ phase # "recovering"
      /\ \A c \in Caller : cleaning[i][c] # "disconnecting"
  BY DEF NothingAnnounced
<1>3. ~Registered(i) /\ ~ExitDisconnected(i) /\ ~RecoverySaves
  BY <1>1, <1>2 DEF Registered, ExitDisconnected, RecoverySaves
<1>4. \A c \in Caller : ~Disconnected(i, c) /\ ~DisconnectFails(i, c)
  BY <1>2, Zenon DEF Disconnected, DisconnectFails
<1>5. ~Beat(i) /\ ~BeatEnds(i) /\ ~BeatNotFound(i) /\ ~MachineNotFound(i)
  BY <1>1, Zenon DEF Beat, BeatEnds, BeatNotFound, MachineNotFound
<1>6. ~Reregistered(i) /\ ~ReregisterFails(i)
  BY <1>1, Zenon DEF Reregistered, ReregisterFails
<1> QED
  BY <1>3, <1>4, <1>5, <1>6

\* An orchestrator that is down has nothing to answer.
LEMMA DownStaysQuiet ==
  ASSUME IInv, NothingAnnounced, DownIsIdle, NEW i \in Instance, ~radius,
         Continuation(i) \/ Event(i)
  PROVE  phase = "up"
<1> SUFFICES ASSUME phase = "down" PROVE FALSE
  BY DEF NothingAnnounced
<1>1. /\ i \notin live /\ spawning[i] = "none" /\ rpc[i] = "none"
      /\ proc[i] \in {"none", "exited"}
      /\ \A c \in Caller : cleaning[i][c] = "none"
  BY DEF DownIsIdle
<1>2. ~Continuation(i)
  BY <1>1, Zenon DEF Continuation, FailSpawn, DisposeReturns, Disposed
<1>3. ~Spawn(i) /\ ~StateArrives(i) /\ ~SpawnThrows(i)
  BY <1>1 DEF Spawn, StateArrives, SpawnThrows
<1>4. \A s \in Stopper : ~StopInstance(i, s)
  BY <1>1, Zenon DEF StopInstance
<1>5. ~ProcessExits(i) /\ ~Command(i) /\ ~CommandAnswered(i) /\ ~SyncAnswered(i)
  BY <1>1 DEF ProcessExits, Command, CommandAnswered, SyncAnswered
<1> QED
  BY <1>2, <1>3, <1>4, <1>5, NoRadiusSteps DEF Event

LEMMA PlainBoot ==
  ASSUME ~radius, NothingAnnounced, DownIsIdle, RecordsTyped, RecordsAgree, Boot
  PROVE  PlainInv'
<1>1. /\ phase = "down" /\ phase' = "up"
      /\ stored' = [i \in Instance |-> Recovered(stored[i])]
      /\ UNCHANGED <<live, record, hasPi, radius, failed, exiting, heart, beating, lookedUp,
                     spawning, cleaning>>
  BY DEF Boot, memory, calls, presence
<1>2. \A r \in Rec : Recovered(r) \in Rec /\ Settled(Recovered(r))
  BY RecTypes DEF Recovered, Settled, Status
<1>3. \A i \in Instance : stored'[i] \in Rec /\ Settled(stored'[i])
  BY <1>1, <1>2 DEF RecordsTyped
<1>4. RecordsTyped'
  BY <1>1, <1>2 DEF RecordsTyped
<1>5. NothingAnnounced' /\ DownIsIdle'
  BY <1>1 DEF NothingAnnounced, DownIsIdle
<1>6. RecordsAgree'
  BY <1>1, <1>3 DEF RecordsAgree, DownIsIdle, Settled
<1> QED
  BY <1>4, <1>5, <1>6 DEF PlainInv

LEMMA PlainCrash ==
  ASSUME ~radius, IInv, NothingAnnounced, RecordsTyped, Crash
  PROVE  PlainInv'
<1>1. /\ phase' = "down" /\ live' = {} /\ record' = Blank(Absent)
      /\ hasPi' = Blank(FALSE) /\ exiting' = Blank(FALSE) /\ heart' = Blank(NoHeart)
      /\ beating' = Blank(FALSE) /\ lookedUp' = Blank(Absent)
      /\ spawning' = Blank("none") /\ rpc' = Blank("none") /\ cleaning' = NoCalls
      /\ proc' = [i \in Instance |-> IF proc[i] = "none" THEN "none" ELSE "exited"]
      /\ UNCHANGED <<radius, stored, failed>>
  BY Zenon DEF Crash
<1>2. NothingAnnounced' /\ DownIsIdle'
  BY <1>1 DEF NothingAnnounced, DownIsIdle, Blank, NoCalls
<1>3. RecordsTyped' /\ RecordsAgree'
  BY <1>1, RecTypes DEF RecordsTyped, RecordsAgree, Blank, Settled
<1> QED
  BY <1>2, <1>3 DEF PlainInv

LEMMA PlainKeeps == IInv /\ PlainInv /\ [Next]_svars => PlainInv'
<1> SUFFICES ASSUME IInv, PlainInv, [Next]_svars, ~radius' PROVE PlainInv'
  BY DEF PlainInv
<1>1. ~radius
  BY DEF Next, Continuation, Event, FailSpawn, DisposeReturns, Spawn, StateArrives, Registered,
         SpawnThrows, StopInstance, Disconnected, DisconnectFails, ProcessExits, ExitDisconnected,
         Command, CommandAnswered, SyncAnswered, Beat, BeatEnds, BeatNotFound, MachineNotFound,
         Reregistered, ReregisterFails, Others, Boot, RecoverySaves, Crash, svars, world
<1>2. NothingAnnounced /\ DownIsIdle /\ RecordsTyped /\ RecordsAgree
  BY <1>1 DEF PlainInv
<1>3. CASE UNCHANGED svars
  BY <1>1, <1>2, <1>3 DEF PlainInv, NothingAnnounced, DownIsIdle, RecordsTyped, RecordsAgree,
     svars, memory, calls, presence, world
<1>4. CASE Boot \/ RecoverySaves
  BY <1>1, <1>2, <1>4, PlainBoot DEF RecoverySaves, NothingAnnounced
<1>5. CASE Crash
  BY <1>1, <1>2, <1>5, PlainCrash
<1>6. ASSUME NEW i \in Instance, Continuation(i) \/ Event(i)
      PROVE  PlainInv'
  <2>1. phase = "up"
    BY <1>1, <1>2, <1>6, DownStaysQuiet
  <2>2. CASE Continuation(i)
    BY <1>1, <1>2, <2>1, <2>2, PlainStops DEF Continuation
  <2>3. CASE Event(i)
    BY <1>1, <1>2, <2>1, <2>3, PlainSpawning, PlainStops, PlainProcess, NoRadiusSteps DEF Event
  <2> QED
    BY <1>6, <2>2, <2>3
<1> QED
  BY <1>3, <1>4, <1>5, <1>6 DEF Next

\* Without Radius instances.json agrees with what is live, for any number of
\* instances, of callers that stop them, and of deaths of the orchestrator.
THEOREM RecordsStayTrue == Spec => []RecordsMatchLive
<1>1. Init => IInv /\ PlainInv
  <2>1. Init => PlainInv
    BY RecTypes DEF Init, PlainInv, NothingAnnounced, DownIsIdle, RecordsTyped, RecordsAgree,
                    Blank, NoCalls
  <2> QED
    BY <2>1, InitIInv
<1>2. IInv /\ PlainInv /\ [Next]_svars => (IInv /\ PlainInv)'
  BY NextKeeps, PlainKeeps
<1>3. PlainInv => RecordsMatchLive
  BY DEF PlainInv, RecordsMatchLive, RecordsAgree, Settled
<1> QED
  BY <1>1, <1>2, <1>3, PTL DEF Spec
=============================================================================
