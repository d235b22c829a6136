---------------------------- MODULE AgentHarness ----------------------------
(***************************************************************************)
(* AgentHarness (packages/agent/src/harness/agent-harness.ts): a session,  *)
(* the run that a prompt starts, and the queues and session writes that    *)
(* callers, listeners and hooks fill meanwhile.                            *)
(*                                                                         *)
(* A prompt runs the agent loop, whose events the harness awaits.  Each    *)
(* goes to listeners, which may call the harness again and may throw.      *)
(* Appending to the session takes time and may fail.  The parent of an     *)
(* entry is the leaf at the time its append begins: the session is its     *)
(* branch, from the root to the leaf, and an append in flight holds the    *)
(* branch that its entry will extend.                                      *)
(***************************************************************************)
EXTENDS Naturals, SequencesExt

CONSTANTS
  Prompt,         \* the calls of prompt, skill and promptFromTemplate
  Message,        \* the texts given to steer, followUp and nextTurn
  Write,          \* what appendMessage and the setters store
  Detached,       \* what may be called before an earlier call has returned:
                  \* "prompt" (and compact, navigateTree), "write", or neither
  None,           \* no run
  MaxReplies,     \* bound: replies to one prompt that go on with tools
  MaxStructural,  \* bound: calls of compact and navigateTree
  MaxAborts,      \* bound: calls of abort
  MaxErrors       \* bound: appends, listeners, hooks and snapshots that fail

ASSUME HarnessAssumption ==
  /\ Detached \subseteq {"prompt", "write"}
  /\ None \notin Prompt
  /\ {MaxReplies, MaxStructural, MaxAborts, MaxErrors} \subseteq Nat
\* An entry of the session is a prompt, a message, a write, or made by a run or
\* a compaction.
ASSUME EntriesAssumption ==
  LET made == {"failure", "reply", "results", "continuation", "compaction"} IN
  /\ None \notin Prompt \cup Message \cup Write \cup made
  /\ Message \cap (Prompt \cup Write \cup made) = {}
  /\ Write \cap (Prompt \cup made) = {}

VARIABLES
  phase,       \* idle, turn, or structural: compaction and branch_summary
  pending,     \* pendingSessionWrites
  steerQueue,
  followUpQueue,
  nextTurnQueue,
  controller,  \* the run of runAbortController
  runPromise,  \* the call that made runPromise
  branch,      \* the session, from its root to its leaf
  left,        \* what navigateTree left behind
  flying,      \* the appends in flight, of runs and of writes
  pc,          \* where each prompt is
  run,         \* the state of its run
  late,        \* its run failed after it had settled
  structural,  \* calls of compact and navigateTree so far
  aborts,      \* calls of abort so far
  errors,      \* failures so far
  accepted,    \* the writes that callers were not refused
  queued,      \* the messages that were queued
  dropped      \* those given up by an abort or a failed run

queues == <<steerQueue, followUpQueue, nextTurnQueue>>
session == <<branch, left, flying>>
calls == <<pc, run, late>>
counters == <<structural, aborts, errors>>
hvars == <<phase, pending, queues, controller, runPromise, session, calls,
           counters, accepted, queued, dropped>>

NoAppend == [entry |-> None, base |-> <<>>]

NewRun ==
  [list |-> <<>>,         \* the messages to record next
   then |-> "poll",       \* what follows them
   back |-> "save point", \* what follows a flush of pending writes
   reply |-> "none",      \* how the provider's last reply ended
   context |-> <<>>,      \* the messages the agent loop has
   thrown |-> FALSE,      \* a turn_end listener threw
   failing |-> FALSE,     \* emitRunFailure is at work
   rejected |-> FALSE,    \* ... and threw as well
   aborted |-> FALSE,     \* its signal
   continued |-> FALSE,   \* the loop went on after a reply cut off by length
   replaced |-> FALSE,    \* abort replaced the queue it drained
   replies |-> 0]

Init ==
  /\ phase = "idle"
  /\ pending = <<>>
  /\ steerQueue = <<>>
  /\ followUpQueue = <<>>
  /\ nextTurnQueue = <<>>
  /\ controller = None
  /\ runPromise = None
  /\ branch = <<>>
  /\ left = {}
  /\ flying = [a \in Prompt \cup Write |-> NoAppend]
  /\ pc = [p \in Prompt |-> "none"]
  /\ run = [p \in Prompt |-> NewRun]
  /\ late = [p \in Prompt |-> FALSE]
  /\ structural = 0
  /\ aborts = 0
  /\ errors = 0
  /\ accepted = {}
  /\ queued = {}
  /\ dropped = {}

-----------------------------------------------------------------------------
(* Pieces of the steps of a run.                                           *)

Go(p, label) == pc' = [pc EXCEPT ![p] = label]

\* A listener, a hook, an append or a snapshot fails.
Fails == errors < MaxErrors /\ errors' = errors + 1

WritesInFlight == \E w \in Write : flying[w] # NoAppend

\* Between its start and the events of its end, and after a failure of those.
Active(p) == pc[p] \notin {"none", "settled", "done"}

\* A caller that awaits its calls holds up the run whose listener it is.
MayStep(p) ==
  /\ "prompt" \in Detached
       \/ /\ phase # "structural"
          /\ runPromise \in {p, None}
          /\ \A q \in Prompt \ {p} : ~Active(q)
  /\ "write" \in Detached \/ ~WritesInFlight

MayCall == "write" \in Detached \/ \A a \in DOMAIN flying : flying[a] = NoAppend

Drop(messages) == dropped' = dropped \cup (Range(messages) \cap Message)

\* Record the messages, and then go on with what follows.
Record(p, messages, then) ==
  /\ run' = [run EXCEPT ![p].list = messages, ![p].then = then]
  /\ Go(p, "recording")

\* Flush the pending writes, and then go back.
Flush(p, back) ==
  /\ run' = [run EXCEPT ![p].back = back]
  /\ Go(p, "flushing")

\* The prompt rejects before its run has begun.
Reject(p) ==
  /\ phase' = "idle"
  /\ runPromise' = None
  /\ Go(p, "done")
  /\ UNCHANGED <<controller, run, late>>

\* The run throws: emitRunFailure records an assistant message with the
\* error, and the turn and the run end.  If that throws too, the prompt will
\* reject.  What the run had not recorded yet is lost.
Throw(p) ==
  /\ flying' = [flying EXCEPT ![p] = NoAppend]
  /\ late' = [late EXCEPT ![p] = @ \/ pc[p] = "settled"]
  /\ IF run[p].failing
       THEN /\ run' = [run EXCEPT ![p].rejected = TRUE, ![p].back = "finally", ![p].list = <<>>]
            /\ Go(p, "flushing")
       ELSE /\ run' = [run EXCEPT ![p].failing = TRUE, ![p].reply = "stop",
                                  ![p].thrown = FALSE, ![p].list = <<"failure">>,
                                  ![p].then = "turn end"]
            /\ Go(p, "recording")

Outside == <<pending, queues, controller, runPromise, phase, structural, aborts, accepted, queued>>

-----------------------------------------------------------------------------
(* Starting a prompt.                                                      *)

\* prompt, skill or promptFromTemplate; also from a listener of agent_end or
\* settled.
StartPrompt(p) ==
  /\ phase = "idle"
  /\ pc[p] = "none"
  /\ MayCall
  /\ "prompt" \in Detached \/ \A q \in Prompt : pc[q] \in {"none", "settled", "done"}
  /\ phase' = "turn"
  /\ runPromise' = p
  /\ Go(p, "starting")
  /\ UNCHANGED <<pending, queues, controller, session, run, late, counters, accepted,
                 queued, dropped>>

\* createTurnState, or its failure; executeTurn takes the messages for the
\* next turn and notifies of it.
TakeNextTurn(p) ==
  /\ pc[p] = "starting"
  /\ MayStep(p)
  /\ run' = [run EXCEPT ![p].context = branch, ![p].list = nextTurnQueue]
  /\ nextTurnQueue' = <<>>
  /\ Go(p, "taken")
  /\ UNCHANGED <<phase, pending, steerQueue, followUpQueue, controller, runPromise,
                 session, late, counters, accepted, queued, dropped>>

StartFails(p) ==
  /\ pc[p] = "starting"
  /\ MayStep(p)
  /\ Fails
  /\ Reject(p)
  /\ UNCHANGED <<pending, queues, session, structural, aborts, accepted, queued, dropped>>

\* Mutant: the messages stay out of the queue.
ForgetNextTurn(p) ==
  /\ pc[p] = "taken"
  /\ run[p].list # <<>>
  /\ MayStep(p)
  /\ Fails
  /\ phase' = "idle"
  /\ runPromise' = None
  /\ Go(p, "done")
  /\ run' = [run EXCEPT ![p].list = <<>>]
  /\ UNCHANGED <<pending, queues, controller, session, late, structural, aborts,
                 accepted, queued, dropped>>

\* A listener of that queue_update throws: they are put back.
NextTurnRollsBack(p) ==
  /\ pc[p] = "taken"
  /\ run[p].list # <<>>
  /\ MayStep(p)
  /\ Fails
  /\ nextTurnQueue' = run[p].list \o nextTurnQueue
  /\ phase' = "idle"
  /\ runPromise' = None
  /\ Go(p, "done")
  /\ run' = [run EXCEPT ![p].list = <<>>]
  /\ UNCHANGED <<pending, steerQueue, followUpQueue, controller, session, late,
                 structural, aborts, accepted, queued, dropped>>

\* A before_agent_start hook throws: they are not.
HookFails(p) ==
  /\ pc[p] = "taken"
  /\ MayStep(p)
  /\ Fails
  /\ Drop(run[p].list)
  /\ phase' = "idle"
  /\ runPromise' = None
  /\ Go(p, "done")
  /\ run' = [run EXCEPT ![p].list = <<>>]
  /\ UNCHANGED <<pending, queues, controller, session, late, structural, aborts,
                 accepted, queued>>

\* The loop starts, with the context, the messages and the prompt.
StartLoop(p) ==
  /\ pc[p] = "taken"
  /\ MayStep(p)
  /\ controller' = p
  /\ run' = [run EXCEPT ![p].list = @ \o <<p>>,
                        ![p].context = @ \o run[p].list \o <<p>>]
  /\ Go(p, "recording")
  /\ UNCHANGED <<phase, pending, queues, runPromise, session, late, counters, accepted,
                 queued, dropped>>

-----------------------------------------------------------------------------
(* The agent loop and its events.                                          *)

\* The append of the next message begins, on message_end.
AppendMessage(p) ==
  /\ pc[p] = "recording"
  /\ run[p].list # <<>>
  /\ flying[p] = NoAppend
  /\ MayStep(p)
  /\ flying' = [flying EXCEPT ![p] = [entry |-> Head(run[p].list), base |-> branch]]
  /\ UNCHANGED <<branch, left, calls, errors, dropped, Outside>>

\* A listener of message_start throws, or the append fails.
AppendFails(p) ==
  /\ pc[p] = "recording"
  /\ run[p].list # <<>>
  /\ MayStep(p)
  /\ Fails
  /\ Drop(run[p].list)
  /\ Throw(p)
  /\ UNCHANGED <<branch, left, Outside>>

\* It is appended; a listener of message_end may throw.
Appended(p) ==
  /\ pc[p] = "recording"
  /\ flying[p] # NoAppend
  /\ MayStep(p)
  /\ branch' = Append(flying[p].base, flying[p].entry)
  /\ \/ /\ flying' = [flying EXCEPT ![p] = NoAppend]
        /\ run' = [run EXCEPT ![p].list = Tail(@)]
        /\ UNCHANGED <<pc, late, errors, dropped>>
     \/ Fails /\ Drop(Tail(run[p].list)) /\ Throw(p)
  /\ UNCHANGED <<left, Outside>>

\* All are recorded.
Recorded(p) ==
  /\ pc[p] = "recording"
  /\ run[p].list = <<>>
  /\ MayStep(p)
  /\ \/ run[p].then \in {"poll", "model"} /\ Go(p, run[p].then) /\ UNCHANGED run
     \/ /\ run[p].then = "tools"
        /\ run' = [run EXCEPT ![p].list = <<"results">>, ![p].then = "turn end",
                              ![p].context = Append(@, "results")]
        /\ UNCHANGED pc
     \/ run[p].then = "turn end" /\ Go(p, "turn end") /\ UNCHANGED run
  /\ UNCHANGED <<session, late, errors, dropped, Outside>>

\* The provider is asked with the context, and replies: with tool calls,
\* with nothing more to do, cut off, or with an error or an abort.
ProviderReplies(p) ==
  /\ pc[p] = "model"
  /\ MayStep(p)
  /\ \E reply \in {"calls", "length", "final", "stop"} :
       /\ run[p].aborted => reply = "stop"
       /\ reply \in {"calls", "length"} => run[p].replies < MaxReplies
       /\ run' = [run EXCEPT ![p].reply = reply,
                             ![p].replies = IF reply \in {"calls", "length"} THEN @ + 1 ELSE @,
                             ![p].list = <<"reply">>,
                             ![p].context = Append(@, "reply"),
                             ![p].then = IF reply = "calls" THEN "tools" ELSE "turn end"]
  /\ Go(p, "recording")
  /\ UNCHANGED <<session, late, errors, dropped, Outside>>

\* A hook of the request throws, or a snapshot for the next turn fails.
RunFails(p) ==
  /\ pc[p] \in {"model", "snapshot"}
  /\ MayStep(p)
  /\ Fails
  /\ Throw(p)
  /\ UNCHANGED <<branch, left, dropped, Outside>>

\* turn_end: an error of a listener waits until the writes are flushed.
TurnEnds(p) ==
  /\ pc[p] = "turn end"
  /\ MayStep(p)
  /\ \/ Flush(p, "save point") /\ UNCHANGED errors
     \/ /\ Fails
        /\ run' = [run EXCEPT ![p].back = "save point", ![p].thrown = TRUE]
        /\ Go(p, "flushing")
  /\ UNCHANGED <<session, late, dropped, Outside>>

\* save_point; then the run ends, continues a reply that was cut off, or
\* prepares its next turn.
SavePoint(p) ==
  /\ pc[p] = "save point"
  /\ MayStep(p)
  /\ \/ run[p].reply = "stop" /\ Flush(p, "settle")
     \/ /\ run[p].reply = "length"
        /\ run' = [run EXCEPT ![p].list = <<"continuation">>, ![p].then = "model",
                              ![p].context = Append(@, "continuation"),
                              ![p].continued = TRUE]
        /\ Go(p, "recording")
     \/ run[p].reply \in {"calls", "final"} /\ Flush(p, "snapshot")
  /\ UNCHANGED <<session, late, errors, dropped, Outside>>

SavePointFails(p) ==
  /\ pc[p] = "save point"
  /\ MayStep(p)
  /\ Fails
  /\ Throw(p)
  /\ UNCHANGED <<branch, left, dropped, Outside>>

\* Mutant: the next turn goes on with the context of the last.
KeepSnapshot(p) ==
  /\ pc[p] = "snapshot"
  /\ MayStep(p)
  /\ Go(p, "poll")
  /\ UNCHANGED <<session, run, late, errors, dropped, Outside>>

\* createTurnState for the next turn.
Snapshot(p) ==
  /\ pc[p] = "snapshot"
  /\ MayStep(p)
  /\ run' = [run EXCEPT ![p].context = branch, ![p].continued = FALSE]
  /\ Go(p, "poll")
  /\ UNCHANGED <<session, late, errors, dropped, Outside>>

Taken(queue) == {<<Head(queue)>>, queue}
Rest(queue, taken) == SubSeq(queue, Len(taken) + 1, Len(queue))

\* getSteeringMessages and, if the run would stop, getFollowUpMessages; the
\* mode of each queue is what it was set to last.
Drain(p, messages) ==
  /\ run' = [run EXCEPT ![p].list = messages, ![p].replaced = FALSE,
                        ![p].then = pc[p]]
  /\ Go(p, "drained")

Poll(p) ==
  /\ pc[p] = "poll"
  /\ MayStep(p)
  /\ \/ /\ steerQueue # <<>>
        /\ \E taken \in Taken(steerQueue) :
             Drain(p, taken) /\ steerQueue' = Rest(steerQueue, taken)
     \/ /\ steerQueue = <<>>
        /\ Go(p, IF run[p].reply = "final" THEN "poll follow-up" ELSE "model")
        /\ UNCHANGED <<run, steerQueue>>
  /\ UNCHANGED <<phase, pending, followUpQueue, nextTurnQueue, controller, runPromise,
                 session, late, counters, accepted, queued, dropped>>

PollFollowUp(p) ==
  /\ pc[p] = "poll follow-up"
  /\ MayStep(p)
  /\ \/ /\ followUpQueue # <<>>
        /\ \E taken \in Taken(followUpQueue) :
             Drain(p, taken) /\ followUpQueue' = Rest(followUpQueue, taken)
     \/ followUpQueue = <<>> /\ Flush(p, "settle") /\ UNCHANGED followUpQueue
  /\ UNCHANGED <<phase, pending, steerQueue, nextTurnQueue, controller, runPromise,
                 session, late, counters, accepted, queued, dropped>>

\* The queue_update went out: the messages are recorded, and then answered.
Drained(p) ==
  /\ pc[p] = "drained"
  /\ MayStep(p)
  /\ run' = [run EXCEPT ![p].then = "model", ![p].context = @ \o run[p].list]
  /\ Go(p, "recording")
  /\ UNCHANGED <<session, late, errors, dropped, Outside>>

\* A listener throws: the messages go back to the array they came from, which
\* is no longer the queue if there was an abort.
DrainRollsBack(p) ==
  /\ pc[p] = "drained"
  /\ MayStep(p)
  /\ Fails
  /\ IF run[p].replaced
       THEN Drop(run[p].list) /\ UNCHANGED <<steerQueue, followUpQueue>>
       ELSE /\ steerQueue' = IF run[p].then = "poll" THEN run[p].list \o steerQueue ELSE steerQueue
            /\ followUpQueue' = IF run[p].then = "poll" THEN followUpQueue ELSE run[p].list \o followUpQueue
            /\ UNCHANGED dropped
  /\ Throw(p)
  /\ UNCHANGED <<phase, pending, nextTurnQueue, controller, runPromise, branch, left,
                 structural, aborts, accepted, queued>>

-----------------------------------------------------------------------------
(* Flushing the pending writes, and the end of a run.                      *)

FlushNext(p) ==
  /\ pc[p] = "flushing"
  /\ pending # <<>>
  /\ flying[p] = NoAppend
  /\ MayStep(p)
  /\ flying' = [flying EXCEPT ![p] = [entry |-> Head(pending), base |-> branch]]
  /\ UNCHANGED <<branch, left, calls, errors, dropped, Outside>>

\* The write is appended, and whatever is first now is shifted out.
FlushAppended(p) ==
  /\ pc[p] = "flushing"
  /\ flying[p] # NoAppend
  /\ MayStep(p)
  /\ branch' = Append(flying[p].base, flying[p].entry)
  /\ flying' = [flying EXCEPT ![p] = NoAppend]
  /\ pending' = IF pending = <<>> THEN <<>> ELSE Tail(pending)
  /\ UNCHANGED <<phase, queues, controller, runPromise, left, calls, counters, accepted,
                 queued, dropped>>

\* Mutant: the phase of a prompt that rejects is left.
FinishStuck(p, rejected) ==
  /\ controller' = None
  /\ runPromise' = None
  /\ phase' = phase
  /\ Go(p, "done")

\* The end of executeTurn and of the prompt.
Finish(p, rejected) ==
  /\ controller' = None
  /\ runPromise' = None
  /\ phase' = IF rejected THEN "idle" ELSE phase
  /\ Go(p, "done")

\* Mutant: the write is shifted out before it is appended.
DropUnwritten(p) ==
  /\ pc[p] = "flushing"
  /\ flying[p] # NoAppend
  /\ MayStep(p)
  /\ Fails
  /\ pending' = Tail(pending)
  /\ IF run[p].back = "finally"
       THEN Finish(p, TRUE) /\ flying' = [flying EXCEPT ![p] = NoAppend] /\ UNCHANGED <<run, late>>
       ELSE Throw(p) /\ UNCHANGED <<phase, controller, runPromise>>
  /\ UNCHANGED <<queues, branch, left, structural, aborts, accepted, queued, dropped>>

\* The append of a write fails: it stays, and the run throws.
FlushFails(p) ==
  /\ pc[p] = "flushing"
  /\ flying[p] # NoAppend
  /\ MayStep(p)
  /\ Fails
  /\ IF run[p].back = "finally"
       THEN Finish(p, TRUE) /\ flying' = [flying EXCEPT ![p] = NoAppend] /\ UNCHANGED <<run, late>>
       ELSE Throw(p) /\ UNCHANGED <<phase, controller, runPromise>>
  /\ UNCHANGED <<pending, queues, branch, left, structural, aborts, accepted, queued, dropped>>

\* There is nothing more to flush.  agent_end makes the harness idle.
Flushed(p) ==
  /\ pc[p] = "flushing"
  /\ pending = <<>>
  /\ flying[p] = NoAppend
  /\ MayStep(p)
  /\ \/ run[p].back = "save point" /\ run[p].thrown
          /\ Throw(p) /\ UNCHANGED <<phase, controller, runPromise>>
     \/ /\ \/ run[p].back = "save point" /\ ~run[p].thrown
           \/ run[p].back = "snapshot"
        /\ Go(p, run[p].back)
        /\ UNCHANGED <<phase, controller, runPromise, run, late, flying>>
     \/ /\ run[p].back = "settle"
        /\ phase' = "idle"
        /\ Go(p, "settled")
        /\ UNCHANGED <<controller, runPromise, run, late, flying>>
     \/ /\ run[p].back = "finally"
        /\ Finish(p, run[p].rejected)
        /\ UNCHANGED <<run, late, flying>>
  /\ UNCHANGED <<branch, left, pending, queues, counters, accepted, queued, dropped>>

\* Mutant: the end of the run waits for the promise of the run.
SettledLate(p) ==
  /\ pc[p] = "settled"
  /\ runPromise = None
  /\ MayStep(p)
  /\ Flush(p, "finally")
  /\ UNCHANGED <<session, late, errors, dropped, Outside>>

\* The listeners of agent_end and settled return.
Settled(p) ==
  /\ pc[p] = "settled"
  /\ MayStep(p)
  /\ Flush(p, "finally")
  /\ UNCHANGED <<session, late, errors, dropped, Outside>>

\* One of them throws: the run fails when it was over.
SettledFails(p) ==
  /\ pc[p] = "settled"
  /\ MayStep(p)
  /\ Fails
  /\ Throw(p)
  /\ UNCHANGED <<branch, left, dropped, Outside>>

-----------------------------------------------------------------------------
(* What callers, listeners and hooks do meanwhile.                         *)

NewMessage(m) ==
  /\ m \notin queued
  /\ queued' = queued \cup {m}
  /\ UNCHANGED <<phase, pending, controller, runPromise, session, calls, counters,
                 accepted, dropped>>

Steer(m) ==
  /\ phase # "idle"
  /\ steerQueue' = Append(steerQueue, m)
  /\ NewMessage(m)
  /\ UNCHANGED <<followUpQueue, nextTurnQueue>>

FollowUp(m) ==
  /\ phase # "idle"
  /\ followUpQueue' = Append(followUpQueue, m)
  /\ NewMessage(m)
  /\ UNCHANGED <<steerQueue, nextTurnQueue>>

NextTurn(m) ==
  /\ nextTurnQueue' = Append(nextTurnQueue, m)
  /\ NewMessage(m)
  /\ UNCHANGED <<steerQueue, followUpQueue>>

\* A session write while the harness is busy.
QueueWrite(w) ==
  /\ phase # "idle"
  /\ w \notin accepted
  /\ accepted' = accepted \cup {w}
  /\ pending' = Append(pending, w)
  /\ UNCHANGED <<phase, queues, controller, runPromise, session, calls, counters,
                 queued, dropped>>

\* A session write while it is idle goes to the session; if that fails, the
\* caller is told.
BeginWrite(w) ==
  /\ phase = "idle"
  /\ w \notin accepted
  /\ MayCall
  /\ accepted' = accepted \cup {w}
  /\ flying' = [flying EXCEPT ![w] = [entry |-> w, base |-> branch]]
  /\ UNCHANGED <<phase, pending, queues, controller, runPromise, branch, left, calls,
                 counters, queued, dropped>>

EndWrite(w) ==
  /\ flying[w] # NoAppend
  /\ flying' = [flying EXCEPT ![w] = NoAppend]
  /\ \/ branch' = Append(flying[w].base, w) /\ UNCHANGED <<accepted, errors>>
     \/ Fails /\ accepted' = accepted \ {w} /\ UNCHANGED branch
  /\ UNCHANGED <<phase, pending, queues, controller, runPromise, left, calls, structural,
                 aborts, queued, dropped>>

\* compact and navigateTree.
BeginStructural ==
  /\ phase = "idle"
  /\ structural < MaxStructural
  /\ MayCall
  /\ structural' = structural + 1
  /\ phase' = "structural"
  /\ UNCHANGED <<pending, queues, controller, runPromise, session, calls, aborts, errors,
                 accepted, queued, dropped>>

\* A compaction is appended, the leaf moves to another entry, or nothing
\* happens: it was cancelled, or failed.
EndStructural ==
  /\ phase = "structural"
  /\ phase' = "idle"
  /\ \/ branch' = Append(branch, "compaction") /\ UNCHANGED left
     \/ \E n \in 0 .. Len(branch) - 1 :
          /\ branch' = SubSeq(branch, 1, n)
          /\ left' = left \cup Range(SubSeq(branch, n + 1, Len(branch)))
     \/ UNCHANGED <<branch, left>>
  /\ UNCHANGED <<pending, queues, controller, runPromise, flying, calls, counters,
                 accepted, queued, dropped>>

\* abort: the queues are replaced and the run, if it has a controller by now,
\* is told.  The call then waits for runPromise.
Abort ==
  /\ aborts < MaxAborts
  /\ aborts' = aborts + 1
  /\ steerQueue' = <<>>
  /\ followUpQueue' = <<>>
  /\ Drop(steerQueue \o followUpQueue)
  /\ run' = [p \in Prompt |-> [run[p] EXCEPT !.replaced = TRUE,
                                             !.aborted = @ \/ p = controller]]
  /\ UNCHANGED <<phase, pending, nextTurnQueue, controller, runPromise, session, pc, late,
                 structural, errors, accepted, queued>>

-----------------------------------------------------------------------------
Step(p) ==
  \/ TakeNextTurn(p)
  \/ StartFails(p)
  \/ NextTurnRollsBack(p)
  \/ HookFails(p)
  \/ StartLoop(p)
  \/ AppendMessage(p)
  \/ AppendFails(p)
  \/ Appended(p)
  \/ Recorded(p)
  \/ ProviderReplies(p)
  \/ RunFails(p)
  \/ TurnEnds(p)
  \/ SavePoint(p)
  \/ SavePointFails(p)
  \/ Snapshot(p)
  \/ Poll(p)
  \/ PollFollowUp(p)
  \/ Drained(p)
  \/ DrainRollsBack(p)
  \/ FlushNext(p)
  \/ FlushAppended(p)
  \/ FlushFails(p)
  \/ Flushed(p)
  \/ Settled(p)
  \/ SettledFails(p)

Next ==
  \/ \E p \in Prompt : StartPrompt(p) \/ Step(p)
  \/ \E m \in Message : Steer(m) \/ FollowUp(m) \/ NextTurn(m)
  \/ \E w \in Write : QueueWrite(w) \/ BeginWrite(w) \/ EndWrite(w)
  \/ BeginStructural
  \/ EndStructural
  \/ Abort

\* The listeners, the provider and the session's storage answer.
Fairness ==
  /\ \A p \in Prompt : WF_hvars(Step(p))
  /\ \A w \in Write : WF_hvars(EndWrite(w))
  /\ WF_hvars(EndStructural)

Spec == Init /\ [][Next]_hvars /\ Fairness

-----------------------------------------------------------------------------
Count(x, s) == Cardinality({i \in DOMAIN s : s[i] = x})

\* A write is in one place: waiting, on its way, in the session.  It is
\* persisted once, whatever fails (agent-harness.md: "Pending session writes
\* flush one-by-one and are not dropped on failure").
WritesKept ==
  \A w \in accepted :
    \/ flying[w] # NoAppend
    \/ w \in left
    \/ Count(w, pending) + Count(w, branch) = 1

\* Where the queued message m is.
Places(m) ==
  Count(m, steerQueue \o followUpQueue \o nextTurnQueue) + Count(m, branch)
    + (IF m \in left THEN 1 ELSE 0) + (IF m \in dropped THEN 1 ELSE 0)
    + Cardinality({p \in Prompt : m \in Range(run[p].list)})

\* A message is recorded once, or still waits, unless an abort or a failed run
\* gave it up.
QueuedOnce == \A m \in queued : Places(m) = 1

\* Between its start and its agent_end.
Busy(p) ==
  /\ Active(p)
  /\ ~late[p]
  /\ run[p].back = "finally" => run[p].rejected

\* The harness says "turn" while a run works, and at no other time.
PhaseIsTurn == phase = "turn" <=> \E p \in Prompt : Busy(p)

\* The provider is asked with what the session holds, so that nothing written
\* before a save point is missing from the next request; a reply that was cut
\* off is continued with the context there was.
ContextIsSession ==
  \A p \in Prompt :
    pc[p] = "model" /\ ~run[p].continued => run[p].context = branch

\* Every prompt returns, and leaves the harness idle or to another.
PromptsReturn == \A p \in Prompt : pc[p] = "starting" ~> pc[p] = "done"
=============================================================================
