----------------------------- MODULE Supervisor -----------------------------
(***************************************************************************)
(* The orchestrator (packages/orchestrator/src): OrchestratorSupervisor    *)
(* spawns agents as child processes, keeps a record of each in memory and  *)
(* in instances.json, and, when Radius is enabled, announces them to it.   *)
(* Everything runs on one event loop: an action is what happens between    *)
(* two awaits of I/O; what a settled promise wakes comes before the next   *)
(* I/O event (Calm).                                                       *)
(*                                                                         *)
(* A record is its status and whether it carries a radiusPiId.             *)
(***************************************************************************)
EXTENDS Naturals

CONSTANTS
  Instance,           \* the ids of the instances that will be spawned
  Stopper,            \* the calls of stopInstance there may be for each
  Spawner,            \* the call of spawnInstance, once it cleans up
  NotFoundThreshold,  \* NOT_FOUND_RETRY_THRESHOLD
  MaxCrashes          \* bound: deaths of the orchestrator

ASSUME SpawnerAssumption == Spawner \notin Stopper
ASSUME BoundsAssumption ==
  /\ NotFoundThreshold \in Nat \ {0}
  /\ MaxCrashes \in Nat

VARIABLES
  radius,     \* isRadiusEnabled()
  phase,      \* of the orchestrator: down, recovering its records, or up
  snapshot,   \* the records recoverAfterRestart loaded
  stored,     \* instances.json
  live,       \* the keys of liveInstances
  record,     \* LiveInstance.record
  hasPi,      \* LiveInstance.resources.radiusPiId is set
  hasProcess, \* LiveInstance.resources.rpcProcess is set
  bound,      \* the exit listener is attached
  proc,       \* the child process
  spawning,   \* where spawnInstance is
  cleaning,   \* where each call of cleanupAcquiredResources is
  holds,      \* the process such a call read before its await
  exiting,    \* handleUnexpectedRpcExit awaits the disconnection
  rpc,        \* where handleRpc is, for a command that may change the session
  heart,      \* the 404s in a row a heartbeat state has seen
  beating,    \* a heartbeat, or the registration it led to, is in flight
  lookedUp,   \* the record a re-registration started from
  failed,     \* a clean-up failed to disconnect from Radius
  crashes     \* deaths so far

memory == <<live, record, hasPi, hasProcess, bound>>
calls == <<spawning, cleaning, holds, exiting, rpc>>
presence == <<heart, beating, lookedUp>>
world == <<radius, phase, snapshot, crashes>>
svars == <<memory, calls, presence, world, stored, proc, failed>>

Caller == Stopper \cup {Spawner}
Absent == [status |-> "absent", pi |-> FALSE]
NoHeart == NotFoundThreshold

\* Nothing is in memory, no call is in progress.
Blank(value) == [i \in Instance |-> value]
NoCalls == Blank([c \in Caller |-> "none"])
NoHolds == Blank([c \in Caller |-> FALSE])

Init ==
  /\ live = {}
  /\ record = Blank(Absent)
  /\ hasPi = Blank(FALSE)
  /\ hasProcess = Blank(FALSE)
  /\ bound = Blank(FALSE)
  /\ spawning = Blank("none")
  /\ cleaning = NoCalls
  /\ holds = NoHolds
  /\ exiting = Blank(FALSE)
  /\ rpc = Blank("none")
  /\ heart = Blank(NoHeart)
  /\ beating = Blank(FALSE)
  /\ lookedUp = Blank(Absent)
  /\ radius \in BOOLEAN
  /\ phase = "down"
  /\ snapshot = Blank(Absent)
  /\ stored = Blank(Absent)
  /\ proc = Blank("none")
  /\ failed = FALSE
  /\ crashes = 0

-----------------------------------------------------------------------------
(* Starting the orchestrator.  Its server accepts requests before the      *)
(* records are recovered.                                                  *)

\* Mutant: a record is taken over as it was.
RecoveredAsIs(r) == r

Recovered(r) ==
  IF r.status \in {"online", "starting"} THEN [r EXCEPT !.status = "stopped"] ELSE r

\* recoverAfterRestart loads the records; without Radius it saves them at
\* once.
Boot ==
  /\ phase = "down"
  /\ snapshot' = [i \in Instance |-> Recovered(stored[i])]
  /\ IF radius THEN phase' = "recovering" /\ UNCHANGED stored
               ELSE phase' = "up" /\ stored' = snapshot'
  /\ UNCHANGED <<memory, calls, presence, radius, crashes, proc, failed>>

\* Radius has been told to disconnect each, and the records are saved.
RecoverySaves ==
  /\ phase = "recovering"
  /\ phase' = "up"
  /\ stored' = snapshot
  /\ UNCHANGED <<memory, calls, presence, radius, snapshot, crashes, proc, failed>>

\* The orchestrator dies, also by the error of a recovery.  Its children see
\* the end of their input, and exit.
Crash ==
  /\ phase # "down"
  /\ crashes < MaxCrashes
  /\ crashes' = crashes + 1
  /\ phase' = "down"
  /\ live' = {}
  /\ record' = Blank(Absent)
  /\ hasPi' = Blank(FALSE)
  /\ hasProcess' = Blank(FALSE)
  /\ bound' = Blank(FALSE)
  /\ spawning' = Blank("none")
  /\ cleaning' = NoCalls
  /\ holds' = NoHolds
  /\ exiting' = Blank(FALSE)
  /\ rpc' = Blank("none")
  /\ heart' = Blank(NoHeart)
  /\ beating' = Blank(FALSE)
  /\ lookedUp' = Blank(Absent)
  /\ proc' = [i \in Instance |-> IF proc[i] = "none" THEN "none" ELSE "exited"]
  /\ UNCHANGED <<radius, snapshot, stored, failed>>

-----------------------------------------------------------------------------
(* Pieces of the handlers.                                                 *)

\* setStatus and updateRecord: the record changes and is upserted.
Record(i, r) ==
  /\ record' = [record EXCEPT ![i] = r]
  /\ stored' = [stored EXCEPT ![i] = r]

With(i, status) == [record[i] EXCEPT !.status = status]

Forget(i) == live' = live \ {i}

\* Mutant: pending requests are left to wait.
KeepPending(i) == UNCHANGED <<spawning, rpc>>

\* rejectAllPending: the command ends, and so does the wait for get_state.
RejectPending(i) ==
  /\ rpc' = [rpc EXCEPT ![i] = IF @ \in {"sent", "syncing"} THEN "ended" ELSE @]
  /\ spawning' = [spawning EXCEPT ![i] = IF @ = "asking" THEN "rejected" ELSE @]

\* The finally blocks of stopInstance and failSpawn: a stopped instance is
\* removed from the file, one that failed to start stays there.
Finish(i, c, r) ==
  /\ cleaning' = [cleaning EXCEPT ![i][c] = "done"]
  /\ holds' = [holds EXCEPT ![i][c] = FALSE]
  /\ record' = [record EXCEPT ![i] = [r EXCEPT !.status = "stopped"]]
  /\ stored' = [stored EXCEPT ![i] = IF c = Spawner THEN record'[i] ELSE Absent]
  /\ Forget(i)

\* Mutant: the child is not killed.
DisposeWaits(i) == UNCHANGED proc

\* RpcProcessInstance.dispose sends SIGTERM.
Dispose(i) == proc' = [proc EXCEPT ![i] = "killed"]

\* cleanupAcquiredResources from its await of disconnectPi on: the process
\* it has read is disposed of, unless it is gone.
CleanUpRest(i, c, r, saved, held) ==
  /\ hasPi' = [hasPi EXCEPT ![i] = FALSE]
  /\ hasProcess' = [hasProcess EXCEPT ![i] = @ /\ ~held]
  /\ IF held /\ proc[i] # "exited"
       THEN /\ Dispose(i)
            /\ cleaning' = [cleaning EXCEPT ![i][c] = "disposing"]
            /\ holds' = [holds EXCEPT ![i][c] = TRUE]
            /\ record' = [record EXCEPT ![i] = r]
            /\ stored' = [stored EXCEPT ![i] = saved]
            /\ UNCHANGED live
       ELSE UNCHANGED proc /\ Finish(i, c, r)

\* Its start: an instance that Radius knows is disconnected first.
CleanUp(i, c, r) ==
  /\ bound' = [bound EXCEPT ![i] = FALSE]
  /\ IF hasPi[i] /\ r.pi
       THEN /\ heart' = [heart EXCEPT ![i] = NoHeart]
            /\ cleaning' = [cleaning EXCEPT ![i][c] = "disconnecting"]
            /\ holds' = [holds EXCEPT ![i][c] = hasProcess[i]]
            /\ Record(i, r)
            /\ UNCHANGED <<hasPi, hasProcess, proc, live>>
       ELSE CleanUpRest(i, c, r, r, hasProcess[i]) /\ UNCHANGED heart

Disposed(i, c) == cleaning[i][c] = "disposing" /\ proc[i] = "exited"

\* Nothing is left to do before the next event.
Calm ==
  \A i \in Instance :
    /\ spawning[i] # "rejected"
    /\ \A c \in Caller : ~Disposed(i, c)

-----------------------------------------------------------------------------
(* spawnInstance and stopInstance.                                         *)

\* The record is made and stored, the process created and asked for its
\* state; or it cannot be created.
Spawn(i) ==
  /\ phase # "down"
  /\ spawning[i] = "none" /\ proc[i] = "none"
  /\ live' = live \cup {i}
  /\ Record(i, [status |-> "starting", pi |-> FALSE])
  /\ \E created \in BOOLEAN :
       /\ proc' = [proc EXCEPT ![i] = IF created THEN "running" ELSE "exited"]
       /\ spawning' = [spawning EXCEPT ![i] = IF created THEN "asking" ELSE "rejected"]
       /\ hasProcess' = [hasProcess EXCEPT ![i] = created]
       /\ bound' = [bound EXCEPT ![i] = created]
  /\ UNCHANGED <<hasPi, cleaning, holds, exiting, rpc, presence, world, failed>>

\* get_state is answered.  With Radius the instance is registered next;
\* without, it is online.
StateArrives(i) ==
  /\ spawning[i] = "asking"
  /\ spawning' = [spawning EXCEPT ![i] = IF radius THEN "registering" ELSE "done"]
  /\ Record(i, IF radius THEN record[i] ELSE With(i, "online"))
  /\ UNCHANGED <<live, hasPi, hasProcess, bound, cleaning, holds, exiting, rpc,
                 presence, world, proc, failed>>

\* Radius has registered it: the heartbeat starts and the instance is online.
Registered(i) ==
  /\ spawning[i] = "registering"
  /\ spawning' = [spawning EXCEPT ![i] = "done"]
  /\ heart' = [heart EXCEPT ![i] = 0]
  /\ hasPi' = [hasPi EXCEPT ![i] = TRUE]
  /\ Record(i, [status |-> "online", pi |-> TRUE])
  /\ UNCHANGED <<live, hasProcess, bound, cleaning, holds, exiting, rpc, beating,
                 lookedUp, world, proc, failed>>

\* The request cannot be written, or the registration fails.
SpawnThrows(i) ==
  /\ spawning[i] \in {"asking", "registering"}
  /\ spawning' = [spawning EXCEPT ![i] = "rejected"]
  /\ UNCHANGED <<memory, cleaning, holds, exiting, rpc, presence, world, stored,
                 proc, failed>>

\* failSpawn.
FailSpawn(i) ==
  /\ spawning[i] = "rejected"
  /\ spawning' = [spawning EXCEPT ![i] = "failed"]
  /\ CleanUp(i, Spawner, With(i, "error"))
  /\ rpc' = [rpc EXCEPT ![i] =
                IF @ \in {"sent", "syncing"} /\ ~(hasPi[i] /\ record[i].pi) /\ hasProcess[i]
                  THEN "ended" ELSE @]
  /\ UNCHANGED <<exiting, beating, lookedUp, world, failed>>

\* stopInstance, which several callers may call.
StopInstance(i, s) ==
  /\ i \in live
  /\ cleaning[i][s] = "none"
  /\ CleanUp(i, s, With(i, "stopping"))
  /\ IF hasProcess[i] /\ ~(hasPi[i] /\ record[i].pi)
       THEN RejectPending(i)
       ELSE UNCHANGED <<spawning, rpc>>
  /\ UNCHANGED <<exiting, beating, lookedUp, world, failed>>

\* Radius has disconnected the instance, or does not know it.
Disconnected(i, c) ==
  /\ cleaning[i][c] = "disconnecting"
  /\ CleanUpRest(i, c, [record[i] EXCEPT !.pi = FALSE], stored[i], holds[i][c])
  /\ IF holds[i][c] THEN RejectPending(i) ELSE UNCHANGED <<spawning, rpc>>
  /\ UNCHANGED <<bound, exiting, presence, world, failed>>

\* disconnectPi throws: what follows it is skipped.
DisconnectFails(i, c) ==
  /\ cleaning[i][c] = "disconnecting"
  /\ Finish(i, c, record[i])
  /\ failed' = TRUE
  /\ UNCHANGED <<hasPi, hasProcess, bound, spawning, exiting, rpc, presence, world, proc>>

\* dispose's await of the exit returns.
DisposeReturns(i, c) ==
  /\ Disposed(i, c)
  /\ Finish(i, c, record[i])
  /\ UNCHANGED <<hasPi, hasProcess, bound, spawning, exiting, rpc, presence, world,
                 proc, failed>>

-----------------------------------------------------------------------------
(* The child process and its requests.                                     *)

\* handleUnexpectedRpcExit up to its await.
UnexpectedExit(i) ==
  /\ Record(i, With(i, "error"))
  /\ bound' = [bound EXCEPT ![i] = FALSE]
  /\ hasProcess' = [hasProcess EXCEPT ![i] = FALSE]
  /\ IF hasPi[i]
       THEN /\ heart' = [heart EXCEPT ![i] = NoHeart]
            /\ exiting' = [exiting EXCEPT ![i] = TRUE]
            /\ UNCHANGED live
       ELSE Forget(i) /\ UNCHANGED <<heart, exiting>>

\* The process exits: what was pending is rejected and the listener called.
ProcessExits(i) ==
  /\ proc[i] \in {"running", "killed"}
  /\ proc' = [proc EXCEPT ![i] = "exited"]
  /\ RejectPending(i)
  /\ IF bound[i] /\ i \in live /\ record[i].status \notin {"stopping", "stopped"}
       THEN UnexpectedExit(i)
       ELSE UNCHANGED <<record, stored, bound, hasProcess, heart, exiting, live>>
  /\ UNCHANGED <<hasPi, cleaning, holds, beating, lookedUp, world, failed>>

\* The rest of handleUnexpectedRpcExit; an error is only logged.
ExitDisconnected(i) ==
  /\ exiting[i]
  /\ exiting' = [exiting EXCEPT ![i] = FALSE]
  /\ Forget(i)
  /\ \/ Record(i, [record[i] EXCEPT !.pi = FALSE])
     \/ UNCHANGED <<record, stored>>
  /\ UNCHANGED <<hasPi, hasProcess, bound, spawning, cleaning, holds, rpc, presence,
                 world, proc, failed>>

\* handleRpc, with a command of SESSION_METADATA_COMMANDS.
Command(i) ==
  /\ i \in live
  /\ hasProcess[i]
  /\ rpc[i] = "none"
  /\ rpc' = [rpc EXCEPT ![i] = IF proc[i] = "exited" THEN "ended" ELSE "sent"]
  /\ UNCHANGED <<memory, spawning, cleaning, holds, exiting, presence, world, stored,
                 proc, failed>>

\* The command is answered, and the record is brought up to date.
CommandAnswered(i) ==
  /\ rpc[i] = "sent"
  /\ IF hasProcess[i]
       THEN rpc' = [rpc EXCEPT ![i] = "syncing"] /\ UNCHANGED <<record, stored>>
       ELSE rpc' = [rpc EXCEPT ![i] = "ended"] /\ Record(i, record[i])
  /\ UNCHANGED <<live, hasPi, hasProcess, bound, spawning, cleaning, holds, exiting,
                 presence, world, proc, failed>>

SyncAnswered(i) ==
  /\ rpc[i] = "syncing"
  /\ rpc' = [rpc EXCEPT ![i] = "ended"]
  /\ Record(i, record[i])
  /\ UNCHANGED <<live, hasPi, hasProcess, bound, spawning, cleaning, holds, exiting,
                 presence, world, proc, failed>>

-----------------------------------------------------------------------------
(* Heartbeats and registering again, one at a time for each instance.      *)

Others(i) ==
  UNCHANGED <<live, hasProcess, bound, calls, world, proc, failed>>

Beat(i) ==
  /\ heart[i] # NoHeart
  /\ ~beating[i]
  /\ beating' = [beating EXCEPT ![i] = TRUE]
  /\ UNCHANGED <<heart, lookedUp, record, hasPi, stored>> /\ Others(i)

\* The heartbeat succeeds, or fails with another error than a 404, or its
\* state is gone by now.
BeatEnds(i) ==
  /\ beating[i] /\ lookedUp[i] = Absent
  /\ beating' = [beating EXCEPT ![i] = FALSE]
  /\ \/ heart[i] # NoHeart /\ heart' = [heart EXCEPT ![i] = 0]
     \/ UNCHANGED heart
  /\ UNCHANGED <<lookedUp, record, hasPi, stored>> /\ Others(i)

\* reRegisterPi: a live instance is registered from the record it has now;
\* another loses its heartbeat.
LookUp(i) ==
  IF i \in live
    THEN /\ lookedUp' = [lookedUp EXCEPT ![i] = record[i]]
         /\ beating' = [beating EXCEPT ![i] = TRUE]
         /\ UNCHANGED heart
    ELSE /\ heart' = [heart EXCEPT ![i] = NoHeart]
         /\ beating' = [beating EXCEPT ![i] = FALSE]
         /\ UNCHANGED lookedUp

\* A 404: after some of them the instance is registered again.  What a state
\* deleted during the heartbeat had counted is taken to be enough.
BeatNotFound(i) ==
  /\ beating[i] /\ lookedUp[i] = Absent
  /\ IF heart[i] + 1 < NotFoundThreshold
       THEN /\ heart' = [heart EXCEPT ![i] = @ + 1]
            /\ beating' = [beating EXCEPT ![i] = FALSE]
            /\ UNCHANGED lookedUp
       ELSE LookUp(i)
  /\ UNCHANGED <<record, hasPi, stored>> /\ Others(i)

\* Radius has forgotten the machine: it is registered again, and then each
\* live instance.
MachineNotFound(i) ==
  /\ radius
  /\ phase # "down"
  /\ i \in live
  /\ ~beating[i]
  /\ LookUp(i)
  /\ UNCHANGED <<record, hasPi, stored>> /\ Others(i)

\* registerPi is answered, and updateInstance puts the record looked up
\* before in the place of whatever there is now.
Reregistered(i) ==
  /\ lookedUp[i] # Absent
  /\ heart' = [heart EXCEPT ![i] = 0]
  /\ beating' = [beating EXCEPT ![i] = FALSE]
  /\ lookedUp' = [lookedUp EXCEPT ![i] = Absent]
  /\ stored' = [stored EXCEPT ![i] = [lookedUp[i] EXCEPT !.pi = TRUE]]
  /\ IF i \in live
       THEN /\ record' = [record EXCEPT ![i] = stored'[i]]
            /\ hasPi' = [hasPi EXCEPT ![i] = TRUE]
       ELSE UNCHANGED <<record, hasPi>>
  /\ Others(i)

ReregisterFails(i) ==
  /\ lookedUp[i] # Absent
  /\ beating' = [beating EXCEPT ![i] = FALSE]
  /\ lookedUp' = [lookedUp EXCEPT ![i] = Absent]
  /\ UNCHANGED <<heart, record, hasPi, stored>> /\ Others(i)

-----------------------------------------------------------------------------
\* What follows an event before the next one.
Continuation(i) ==
  \/ FailSpawn(i)
  \/ \E c \in Caller : DisposeReturns(i, c)

Event(i) ==
  \/ Spawn(i)
  \/ StateArrives(i)
  \/ Registered(i)
  \/ SpawnThrows(i)
  \/ \E s \in Stopper : StopInstance(i, s)
  \/ \E c \in Caller : Disconnected(i, c) \/ DisconnectFails(i, c)
  \/ ProcessExits(i)
  \/ ExitDisconnected(i)
  \/ Command(i)
  \/ CommandAnswered(i)
  \/ SyncAnswered(i)
  \/ Beat(i)
  \/ BeatEnds(i)
  \/ BeatNotFound(i)
  \/ MachineNotFound(i)
  \/ Reregistered(i)
  \/ ReregisterFails(i)

Next ==
  \/ \E i \in Instance : Continuation(i)
  \/ Calm /\ \E i \in Instance : Event(i)
  \/ Calm /\ (Boot \/ RecoverySaves \/ Crash)

Spec == Init /\ [][Next]_svars

-----------------------------------------------------------------------------
\* Nobody waits for the answer of a process that was killed or is gone: the
\* request was rejected (rpc-process.ts:89, 96 and 188).
PendingHasProcess ==
  \A i \in Instance :
    \/ spawning[i] = "asking"
    \/ rpc[i] \in {"sent", "syncing"}
    => proc[i] = "running"

\* A process that runs can be reached to be stopped: a live instance has it,
\* or a clean-up that is not over; unless one threw before it came to it.
ProcessesAreReachable ==
  failed \/ \A i \in Instance :
    proc[i] = "running" =>
      \/ i \in live /\ hasProcess[i]
      \/ \E c \in Caller : cleaning[i][c] = "disconnecting" /\ holds[i][c]

\* Without Radius, instances.json agrees with what is live: it has the live
\* instances as they are, and calls no other starting or online.
RecordsMatchLive ==
  ~radius /\ phase = "up" =>
    \A i \in Instance :
      /\ i \in live => stored[i] = record[i]
      /\ stored[i].status \in {"starting", "online"} => i \in live
=============================================================================
