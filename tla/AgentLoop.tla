------------------------------ MODULE AgentLoop ------------------------------
(***************************************************************************)
(* The agent (packages/agent/src/agent.ts) and the loop it runs            *)
(* (packages/agent/src/agent-loop.ts): a prompt is answered by a model in  *)
(* turns; the tool calls of a turn are executed one after the other or     *)
(* together; messages queued meanwhile are steered in between turns or     *)
(* follow when the loop would stop; the user may abort at any moment; a    *)
(* hook or a listener may throw at any await.                              *)
(*                                                                         *)
(* A step of the loop goes from one read of shared state (the queues, the  *)
(* abort signal) to the next: between two steps the user queues, aborts or *)
(* a tool settles.  A message is its role, its run, an identity and, for   *)
(* an answer of the model, its tool calls and its stop reason.             *)
(***************************************************************************)
EXTENDS Naturals, Sequences, FiniteSets

CONSTANTS
  MaxContinuations, \* MAX_LENGTH_CONTINUATIONS
  Modes,          \* of "parallel", "sequential": how batches are executed
  MaxRuns,        \* bound: prompts and continuations of the user
  MaxQueued,      \* bound: messages queued by the user
  MaxAnswers,     \* bound: answers of the model after which it stops
  MaxCalls,       \* bound: tool calls of an answer
  MaxFailures     \* bound: hooks or listeners that throw

ASSUME BoundsAssumption ==
  /\ Modes \subseteq {"parallel", "sequential"}
  /\ MaxContinuations \in Nat
  /\ MaxRuns \in Nat /\ MaxQueued \in Nat /\ MaxAnswers \in Nat
  /\ MaxCalls \in Nat /\ MaxFailures \in Nat

VARIABLES
  \* class Agent
  pc,               \* where the active run is; "idle" without one
  aborted,          \* the abort signal of the active run
  steeringQueue,
  followUpQueue,
  transcript,       \* state.messages
  pendingToolCalls, \* state.pendingToolCalls
  skipPoll,         \* skipInitialSteeringPoll
  \* runLoop
  context,          \* currentContext.messages
  pendingMessages,  \* also the prompts, until they are emitted
  hasMoreToolCalls,
  lengthAttempts,   \* lengthContinuationAttempts
  \* executeToolCalls
  calls,            \* the tool calls of the last answer
  mode,             \* how they are executed
  status,           \* per call: how far its execution is
  terminating,      \* the calls whose result asks to terminate
  at,               \* the call being prepared, or whose result is emitted
  strays,           \* calls of a failed run that are still executing
  \* bookkeeping
  run,              \* how many runs there were
  queued,           \* how many messages were queued
  answers,          \* how many answers the model gave
  failures          \* how many hooks or listeners threw

agentvars == <<aborted, steeringQueue, followUpQueue, skipPoll>>
loopvars == <<context, pendingMessages, hasMoreToolCalls, lengthAttempts>>
toolvars == <<calls, mode, status, terminating, at>>
boundvars == <<run, queued, answers, failures>>
vars == <<pc, agentvars, transcript, pendingToolCalls, loopvars, toolvars,
          strays, boundvars>>

-----------------------------------------------------------------------------
\* Messages.  The identity of a prompt is its run, of a queued message its
\* number, of an answer its number, of a result its call.
Msg(role, id) == [role |-> role, run |-> run, id |-> id, calls |-> <<>>, stop |-> "none"]
Prompt(r) == [role |-> "prompt", run |-> r, id |-> <<r, 0>>, calls |-> <<>>, stop |-> "none"]
Steer(n) == [role |-> "steer", run |-> 0, id |-> <<n, 0>>, calls |-> <<>>, stop |-> "none"]
FollowUp(n) == [role |-> "followUp", run |-> 0, id |-> <<n, 0>>, calls |-> <<>>, stop |-> "none"]
Continuation == Msg("continuation", <<answers, 0>>)
Result(call) == Msg("toolResult", call)
Answer(stop, cs) ==
  [role |-> "assistant", run |-> run, id |-> <<answers + 1, 0>>, calls |-> cs, stop |-> stop]

LastOf(s) == s[Len(s)]

\* PendingMessageQueue.drain: all, or one at a time; the user may change the
\* mode of a queue at any time.
Drains(queue) == {queue, SubSeq(queue, 1, IF queue = <<>> THEN 0 ELSE 1)}

\* Mutant: draining one message empties the queue.
UndrainedNone(queue, taken) == <<>>

Undrained(queue, taken) == SubSeq(queue, Len(taken) + 1, Len(queue))

Init ==
  /\ pc = "idle"
  /\ aborted = FALSE
  /\ steeringQueue = <<>> /\ followUpQueue = <<>>
  /\ transcript = <<>> /\ context = <<>>
  /\ pendingToolCalls = {}
  /\ skipPoll = FALSE
  /\ pendingMessages = <<>>
  /\ hasMoreToolCalls = TRUE
  /\ lengthAttempts = 0
  /\ calls = <<>> /\ mode = "parallel" /\ status = <<>> /\ terminating = {} /\ at = 1
  /\ strays = {}
  /\ run = 0 /\ queued = 0 /\ answers = 0 /\ failures = 0

-----------------------------------------------------------------------------
\* class Agent: the user's operations.

SteerCall ==
  /\ queued < MaxQueued
  /\ queued' = queued + 1
  /\ steeringQueue' = Append(steeringQueue, Steer(queued + 1))
  /\ UNCHANGED <<pc, aborted, followUpQueue, skipPoll, transcript, pendingToolCalls,
                 loopvars, toolvars, strays, run, answers, failures>>

FollowUpCall ==
  /\ queued < MaxQueued
  /\ queued' = queued + 1
  /\ followUpQueue' = Append(followUpQueue, FollowUp(queued + 1))
  /\ UNCHANGED <<pc, aborted, steeringQueue, skipPoll, transcript, pendingToolCalls,
                 loopvars, toolvars, strays, run, answers, failures>>

Abort ==
  /\ pc # "idle"
  /\ ~ aborted
  /\ aborted' = TRUE
  /\ UNCHANGED <<pc, steeringQueue, followUpQueue, skipPoll, transcript,
                 pendingToolCalls, loopvars, toolvars, strays, boundvars>>

\* runWithLifecycle and the beginning of runAgentLoop: the run gets its abort
\* controller, the loop its copy of the transcript and the prompts.
StartRun(prompts, skip) ==
  /\ pc = "idle"
  /\ run < MaxRuns
  /\ run' = run + 1
  /\ aborted' = FALSE
  /\ skipPoll' = skip
  /\ context' = transcript \o prompts
  /\ hasMoreToolCalls' = TRUE
  /\ lengthAttempts' = 0
  /\ pendingMessages' = prompts
  /\ pc' = "prompts"
  /\ UNCHANGED <<transcript, pendingToolCalls, toolvars, strays, queued, answers, failures>>

PromptCall ==
  /\ StartRun(<<Prompt(run + 1)>>, FALSE)
  /\ UNCHANGED <<steeringQueue, followUpQueue>>

\* Agent.continue: from an answer, the queued messages are the prompts; from
\* another message, the loop goes on without a prompt.
ContinueSteering ==
  /\ transcript # <<>> /\ LastOf(transcript).role = "assistant"
  /\ steeringQueue # <<>>
  /\ \E taken \in Drains(steeringQueue) :
       StartRun(taken, TRUE) /\ steeringQueue' = Undrained(steeringQueue, taken)
  /\ UNCHANGED followUpQueue

ContinueFollowUp ==
  /\ transcript # <<>> /\ LastOf(transcript).role = "assistant"
  /\ steeringQueue = <<>> /\ followUpQueue # <<>>
  /\ \E taken \in Drains(followUpQueue) :
       StartRun(taken, FALSE) /\ followUpQueue' = Undrained(followUpQueue, taken)
  /\ UNCHANGED steeringQueue

ContinueTranscript ==
  /\ transcript # <<>> /\ LastOf(transcript).role # "assistant"
  /\ StartRun(<<>>, FALSE)
  /\ UNCHANGED <<steeringQueue, followUpQueue>>

UserStep ==
  \/ SteerCall \/ FollowUpCall \/ Abort
  \/ PromptCall \/ ContinueSteering \/ ContinueFollowUp \/ ContinueTranscript

-----------------------------------------------------------------------------
\* runLoop.

\* The prompts are emitted: Agent.processEvents adds them to the transcript.
EmitPrompts ==
  /\ pc = "prompts"
  /\ transcript' = transcript \o pendingMessages
  /\ pendingMessages' = <<>>
  /\ pc' = "initialPoll"
  /\ UNCHANGED <<agentvars, pendingToolCalls, context, hasMoreToolCalls,
                 lengthAttempts, toolvars, strays, boundvars>>

\* getSteeringMessages at the start of the run.
InitialPoll ==
  /\ pc = "initialPoll"
  /\ skipPoll' = FALSE
  /\ \E taken \in IF skipPoll THEN {<<>>} ELSE Drains(steeringQueue) :
       /\ pendingMessages' = taken
       /\ steeringQueue' = Undrained(steeringQueue, taken)
  /\ pc' = "turn"
  /\ UNCHANGED <<aborted, followUpQueue, transcript, pendingToolCalls, context,
                 hasMoreToolCalls, lengthAttempts, toolvars, strays, boundvars>>

\* A turn starts: the pending messages are emitted and added to the context.
Turn ==
  /\ pc = "turn"
  /\ transcript' = transcript \o pendingMessages
  /\ context' = context \o pendingMessages
  /\ pendingMessages' = <<>>
  /\ pc' = "request"
  /\ UNCHANGED <<agentvars, pendingToolCalls, hasMoreToolCalls, lengthAttempts,
                 toolvars, strays, boundvars>>

\* The request to the model, with the signal of the run.  The provider
\* answers "aborted" to a request made after the abort.
Request ==
  /\ pc = "request"
  /\ ~ aborted
  /\ pc' = "streaming"
  /\ UNCHANGED <<agentvars, transcript, pendingToolCalls, loopvars, toolvars, strays,
                 boundvars>>

\* The answer ends with this message (message_end): it is in the transcript
\* and in the context.
Answered(message) ==
  /\ answers' = answers + 1
  /\ transcript' = Append(transcript, message)
  /\ context' = Append(context, message)
  /\ UNCHANGED <<run, queued, failures, agentvars, pendingToolCalls, pendingMessages,
                 lengthAttempts, strays>>

NewCalls(n) == [i \in 1..n |-> <<answers + 1, i>>]

\* An error or an abort may leave tool calls in the answer; none is executed.
AnswerFails(n) ==
  /\ \/ pc = "streaming" /\ Answered(Answer("error", NewCalls(n)))
     \/ pc = "streaming" /\ aborted /\ Answered(Answer("aborted", NewCalls(n)))
     \/ pc = "request" /\ aborted /\ Answered(Answer("aborted", <<>>))
  /\ pc' = "agentEnd"
  /\ UNCHANGED <<toolvars, hasMoreToolCalls>>

\* The stop reasons of an answer that is not an error: a truncated one may
\* hold calls too.
AnswerArrives(stop, n) ==
  /\ pc = "streaming"
  /\ n > 0 => stop \in {"toolUse", "length"}
  /\ stop = "toolUse" => n > 0
  /\ answers >= MaxAnswers => stop = "stop"
  /\ Answered(Answer(stop, NewCalls(n)))
  /\ calls' = NewCalls(n)
  /\ status' = [i \in 1..n |-> "todo"]
  /\ terminating' = {}
  /\ at' = 1
  /\ hasMoreToolCalls' = FALSE
  /\ \E m \in Modes : mode' = IF n = 0 \/ stop = "length" THEN mode ELSE m
  /\ pc' = IF n = 0 THEN "turnEnd" ELSE IF stop = "length" THEN "truncated" ELSE "tool"

-----------------------------------------------------------------------------
\* Tool calls.
Count == Len(calls)
Executing == {i \in 1..Count : status[i] = "executing"}
Ended == {i \in 1..Count : status[i] = "ended"}

\* The variables of the batch go out of scope.
LeaveBatch ==
  /\ status' = [i \in 1..Count |-> "ended"]
  /\ terminating' = {}
  /\ at' = 1
  /\ mode' = "parallel"
  /\ UNCHANGED calls

\* failToolCallsFromTruncatedMessage, one call: it gets an error result.
FailTruncated ==
  /\ pc = "truncated"
  /\ status' = [status EXCEPT ![at] = "ended"]
  /\ transcript' = Append(transcript, Result(calls[at]))
  /\ at' = at + 1
  /\ pc' = IF at = Count THEN "batchEnd" ELSE pc
  /\ UNCHANGED <<agentvars, pendingToolCalls, loopvars, calls, mode, terminating,
                 strays, boundvars>>

\* tool_execution_start is emitted and prepareToolCall called.
StartTool ==
  /\ pc = "tool"
  /\ status' = [status EXCEPT ![at] = "preparing"]
  /\ pendingToolCalls' = pendingToolCalls \cup {calls[at]}
  /\ pc' = "prepare"
  /\ UNCHANGED <<agentvars, transcript, loopvars, calls, mode, terminating, at,
                 strays, boundvars>>

\* Mutant: a parallel batch emits each result when its call ends.
EndCallAtOnce(i) ==
  /\ status' = [status EXCEPT ![i] = "ended"]
  /\ pendingToolCalls' = pendingToolCalls \ {calls[i]}
  /\ transcript' = Append(transcript, Result(calls[i]))

\* The call ends: tool_execution_end is emitted.  A sequential batch emits
\* its result at once, a parallel one after the whole batch.
EndCall(i) ==
  /\ status' = [status EXCEPT ![i] = "ended"]
  /\ pendingToolCalls' = pendingToolCalls \ {calls[i]}
  /\ transcript' =
       IF mode = "sequential" THEN Append(transcript, Result(calls[i])) ELSE transcript

\* prepareToolCall gives an immediate outcome: no such tool, invalid
\* arguments, blocked by beforeToolCall, or aborted meanwhile.
PrepareImmediate ==
  /\ pc = "prepare"
  /\ EndCall(at)
  /\ pc' = "prepared"
  /\ UNCHANGED <<agentvars, loopvars, calls, mode, terminating, at, strays,
                 boundvars>>

\* The call is prepared.  A sequential batch executes it, a parallel one goes
\* on preparing.
Prepare ==
  /\ pc = "prepare"
  /\ ~ aborted
  /\ status' = [status EXCEPT ![at] = IF mode = "sequential" THEN "executing" ELSE "prepared"]
  /\ pc' = IF mode = "sequential" THEN "settling" ELSE "prepared"
  /\ UNCHANGED <<agentvars, transcript, pendingToolCalls, loopvars, calls, mode,
                 terminating, at, strays, boundvars>>

\* After each call the loop over the calls ends if the run is aborted.  A
\* parallel batch then executes all it has prepared, even after an abort.
NextCall ==
  /\ pc = "prepared"
  /\ IF aborted \/ at = Count
       THEN /\ pc' = IF mode = "sequential" THEN "batchEnd" ELSE "settling"
            /\ status' = [i \in 1..Count |->
                            IF status[i] = "prepared" THEN "executing" ELSE status[i]]
            /\ at' = 1
       ELSE /\ pc' = "tool"
            /\ at' = at + 1
            /\ UNCHANGED status
  /\ UNCHANGED <<agentvars, transcript, pendingToolCalls, loopvars, calls, mode,
                 terminating, strays, boundvars>>

\* A tool settles and afterToolCall has run.  Its result may ask to terminate.
Settle(i) ==
  /\ pc = "settling"
  /\ i \in Executing
  /\ EndCall(i)
  /\ \E t \in {{}, {i}} : terminating' = terminating \cup t
  /\ pc' = IF mode = "sequential" THEN "prepared" ELSE pc
  /\ UNCHANGED <<agentvars, loopvars, calls, mode, at, strays, boundvars>>

\* Mutant: a result is awaited for every call of the answer.
EmitResultOfAll ==
  /\ pc = "settling"
  /\ mode = "parallel"
  /\ Executing = {}
  /\ at <= Count => at \in Ended
  /\ IF at \in Ended
       THEN /\ transcript' = Append(transcript, Result(calls[at]))
            /\ at' = at + 1
            /\ UNCHANGED pc
       ELSE /\ pc' = "batchEnd"
            /\ UNCHANGED <<transcript, at>>
  /\ UNCHANGED <<agentvars, pendingToolCalls, loopvars, calls, mode, status,
                 terminating, strays, boundvars>>

\* Promise.all is fulfilled: the results are emitted in the order of the calls.
EmitResult ==
  /\ pc = "settling"
  /\ mode = "parallel"
  /\ Executing = {}
  /\ IF at \in Ended
       THEN /\ transcript' = Append(transcript, Result(calls[at]))
            /\ at' = at + 1
            /\ UNCHANGED pc
       ELSE /\ pc' = "batchEnd"
            /\ UNCHANGED <<transcript, at>>
  /\ UNCHANGED <<agentvars, pendingToolCalls, loopvars, calls, mode, status,
                 terminating, strays, boundvars>>

\* The results go to the context; the batch terminates if all of them ask to.
BatchEnd ==
  /\ pc = "batchEnd"
  /\ context' = context \o [i \in 1..Cardinality(Ended) |-> Result(calls[i])]
  /\ hasMoreToolCalls' = (terminating # Ended)
  /\ LeaveBatch
  /\ pc' = "turnEnd"
  /\ UNCHANGED <<agentvars, transcript, pendingToolCalls, pendingMessages,
                 lengthAttempts, strays, boundvars>>

-----------------------------------------------------------------------------
\* The end of a turn.
CutOff == calls = <<>> /\ LastOf(context).stop = "length"

\* Mutant: a continuation is emitted, but not added to the context.
ContinueAnswerEmitsOnly ==
  /\ pc = "turnEnd"
  /\ CutOff
  /\ lengthAttempts < MaxContinuations
  /\ lengthAttempts' = lengthAttempts + 1
  /\ transcript' = Append(transcript, Continuation)
  /\ hasMoreToolCalls' = TRUE
  /\ pc' = "turn"
  /\ UNCHANGED <<agentvars, pendingToolCalls, context, pendingMessages, toolvars, strays,
                 boundvars>>

\* An answer cut off by the token limit is continued, without a poll.
ContinueAnswer ==
  /\ pc = "turnEnd"
  /\ CutOff
  /\ lengthAttempts < MaxContinuations
  /\ lengthAttempts' = lengthAttempts + 1
  /\ transcript' = Append(transcript, Continuation)
  /\ context' = Append(context, Continuation)
  /\ hasMoreToolCalls' = TRUE
  /\ pc' = "turn"
  /\ UNCHANGED <<agentvars, pendingToolCalls, pendingMessages, toolvars, strays,
                 boundvars>>

TurnEnd ==
  /\ pc = "turnEnd"
  /\ CutOff => lengthAttempts >= MaxContinuations
  /\ lengthAttempts' = IF CutOff THEN lengthAttempts ELSE 0
  /\ pc' = "poll"
  /\ UNCHANGED <<agentvars, transcript, pendingToolCalls, context, pendingMessages,
                 hasMoreToolCalls, toolvars, strays, boundvars>>

\* Mutant: the inner loop ignores the messages it has just drained.
PollForgets ==
  /\ pc = "poll"
  /\ \E taken \in Drains(steeringQueue) :
       pendingMessages' = taken /\ steeringQueue' = Undrained(steeringQueue, taken)
  /\ pc' = IF hasMoreToolCalls THEN "turn" ELSE "followUp"
  /\ UNCHANGED <<aborted, followUpQueue, skipPoll, transcript, pendingToolCalls,
                 context, hasMoreToolCalls, lengthAttempts, toolvars, strays,
                 boundvars>>

\* getSteeringMessages, and the condition of the inner loop.
Poll ==
  /\ pc = "poll"
  /\ \E taken \in Drains(steeringQueue) :
       pendingMessages' = taken /\ steeringQueue' = Undrained(steeringQueue, taken)
  /\ pc' = IF hasMoreToolCalls \/ steeringQueue # <<>> THEN "turn" ELSE "followUp"
  /\ UNCHANGED <<aborted, followUpQueue, skipPoll, transcript, pendingToolCalls,
                 context, hasMoreToolCalls, lengthAttempts, toolvars, strays,
                 boundvars>>

\* getFollowUpMessages, when the agent would stop.
FollowUpPoll ==
  /\ pc = "followUp"
  /\ \E taken \in Drains(followUpQueue) :
       pendingMessages' = taken /\ followUpQueue' = Undrained(followUpQueue, taken)
  /\ hasMoreToolCalls' = TRUE
  /\ pc' = IF followUpQueue # <<>> THEN "turn" ELSE "agentEnd"
  /\ UNCHANGED <<aborted, steeringQueue, skipPoll, transcript, pendingToolCalls,
                 context, lengthAttempts, toolvars, strays, boundvars>>

\* agent_end is emitted and its listeners are awaited.
AgentEnd ==
  /\ pc = "agentEnd"
  /\ pc' = "ended"
  /\ UNCHANGED <<agentvars, transcript, pendingToolCalls, loopvars, toolvars, strays,
                 boundvars>>

\* The variables of runLoop go out of scope.
LeaveLoop ==
  /\ context' = <<>>
  /\ hasMoreToolCalls' = TRUE
  /\ lengthAttempts' = 0
  /\ calls' = <<>>
  /\ status' = <<>>
  /\ UNCHANGED <<pendingMessages, mode, terminating, at>>

\* Mutant: the pending calls of a failed run are kept.
FinishRunKeepsPending ==
  /\ pc = "ended"
  /\ pc' = "idle"
  /\ aborted' = FALSE
  /\ LeaveLoop
  /\ UNCHANGED <<steeringQueue, followUpQueue, skipPoll, transcript, pendingToolCalls,
                 strays, boundvars>>

\* finishRun.
FinishRun ==
  /\ pc = "ended"
  /\ pc' = "idle"
  /\ pendingToolCalls' = {}
  /\ aborted' = FALSE
  /\ LeaveLoop
  /\ UNCHANGED <<steeringQueue, followUpQueue, skipPoll, transcript, strays, boundvars>>

-----------------------------------------------------------------------------
\* A hook or a listener throws.  Messages that were being emitted are in the
\* transcript up to the one whose listener threw.  A parallel batch rejects
\* while its other calls go on.
Fail ==
  /\ pc \notin {"idle", "failed"}
  /\ failures < MaxFailures
  /\ failures' = failures + 1
  /\ \E k \in IF pc \in {"prompts", "turn"} THEN 0..Len(pendingMessages) ELSE {0} :
       transcript' = transcript \o SubSeq(pendingMessages, 1, k)
  /\ \E i \in IF Executing = {} THEN {0} ELSE Executing :
       strays' = strays \cup {calls[j] : j \in Executing \ {i}}
  /\ LeaveBatch
  /\ pendingMessages' = <<>>
  /\ pc' = "failed"
  /\ UNCHANGED <<agentvars, pendingToolCalls, context, hasMoreToolCalls, lengthAttempts,
                 run, queued, answers>>

\* handleRunFailure: a failure message and agent_end, unless a listener of
\* these throws too.
HandleFailure ==
  /\ pc = "failed"
  /\ \/ /\ transcript' = Append(transcript, [Answer("error", <<>>) EXCEPT
               !.stop = IF aborted THEN "aborted" ELSE "error", !.id = <<0, run>>])
        /\ UNCHANGED failures
     \/ /\ failures < MaxFailures
        /\ failures' = failures + 1
        /\ UNCHANGED transcript
  /\ pc' = "ended"
  /\ UNCHANGED <<agentvars, pendingToolCalls, loopvars, toolvars, strays, run, queued,
                 answers>>

\* A call of a failed batch settles: its event reaches processEvents, after
\* the end of its run or in another run.
StraySettles(call) ==
  /\ call \in strays
  /\ strays' = strays \ {call}
  /\ pendingToolCalls' = pendingToolCalls \ {call}
  /\ UNCHANGED <<pc, agentvars, transcript, loopvars, toolvars, boundvars>>

ModelStep ==
  \/ Request
  \/ \E n \in {0, MaxCalls} : AnswerFails(n)
  \/ \E stop \in {"stop", "toolUse", "length"}, n \in 0..MaxCalls : AnswerArrives(stop, n)

LoopStep ==
  \/ EmitPrompts \/ InitialPoll \/ Turn \/ FailTruncated \/ StartTool
  \/ PrepareImmediate \/ Prepare \/ NextCall \/ EmitResult \/ BatchEnd
  \/ ContinueAnswer \/ TurnEnd \/ Poll \/ FollowUpPoll
  \/ AgentEnd \/ FinishRun \/ HandleFailure

ToolSettles == \E i \in 1..MaxCalls : Settle(i)
StraySettle == \E call \in strays : StraySettles(call)

Next == UserStep \/ ModelStep \/ LoopStep \/ ToolSettles \/ StraySettle \/ Fail

Spec == Init /\ [][Next]_vars

\* Promise reactions run, the model answers and tools settle.  Nothing
\* obliges the user, and nothing obliges a hook to throw.
Fairness == WF_vars(ModelStep \/ LoopStep \/ ToolSettles \/ StraySettle)

FairSpec == Spec /\ Fairness

-----------------------------------------------------------------------------
Places(s, n) ==
  Cardinality({i \in 1..Len(s) : s[i].role \in {"steer", "followUp"} /\ s[i].id = <<n, 0>>})

\* A queued message is delivered once: it is in one place, in a queue, taken
\* from it, or in the transcript.  Only a run that fails while it injects it
\* (agent-loop.ts:203-211) can lose it, and nothing ever doubles it.
DeliveredOnce ==
  \A n \in 1..queued :
    LET places == Places(steeringQueue, n) + Places(followUpQueue, n)
                    + Places(pendingMessages, n) + Places(transcript, n)
    IN  places <= 1 /\ (failures = 0 => places = 1)

\* Messages of one queue reach the transcript in the order they were queued.
DeliveredInOrder ==
  \A role \in {"steer", "followUp"} :
    LET queue == IF role = "steer" THEN steeringQueue ELSE followUpQueue
        all == transcript \o pendingMessages \o queue
    IN  \A i, j \in 1..Len(all) :
          i < j /\ all[i].role = role /\ all[j].role = role => all[i].id[1] < all[j].id[1]

\* Whenever and in whatever mode the loop drains them, and however its runs end,
\* the queues deliver each message once and in order.
QueuesDeliver == DeliveredOnce /\ DeliveredInOrder

\* What the model is sent is what the transcript holds, although the loop
\* keeps its own copy and fills it at other moments (agent-loop.ts:203-242,
\* agent.ts:528-560).
ContextIsTranscript == pc \in {"request", "streaming"} => context = transcript

\* The results of an answer follow it directly, in the order of its calls,
\* whatever the order in which the tools settled (agent-loop.ts:576-584).
ResultsFollowCalls ==
  \A j \in 1..Len(transcript) : transcript[j].role = "toolResult" =>
    \E i \in 1..(j - 1) :
      /\ \A k \in (i + 1)..j : transcript[k].role = "toolResult"
      /\ transcript[i].role = "assistant"
      /\ j - i <= Len(transcript[i].calls)
      /\ transcript[j].id = transcript[i].calls[j - i]

FailedStops == {"aborted", "error"}

\* Within a run the model never goes on from an answer with a call that has
\* no result: only the answer to an aborted request, or the message of a
\* failed run, can come next.
NoAnswerWithoutResults ==
  \A i, j \in 1..Len(transcript) :
    /\ i < j
    /\ transcript[i].role = "assistant" /\ transcript[j].role = "assistant"
    /\ transcript[i].run = transcript[j].run
    /\ transcript[j].stop \notin FailedStops
    => \A c \in 1..Len(transcript[i].calls) :
         \E k \in i..j : transcript[k].id = transcript[i].calls[c]
                         /\ transcript[k].role = "toolResult"

\* An answer, its calls and their results stay together, as providers demand it.
ResultsPairCalls == ResultsFollowCalls /\ NoAnswerWithoutResults

\* state.pendingToolCalls holds the calls that were started and have not
\* ended: nothing stays there after a run, whatever failed in it.
PendingCallsAreRunning ==
  /\ pc = "idle" => pendingToolCalls = {}
  /\ failures = 0 =>
       pendingToolCalls = {calls[i] : i \in {x \in 1..Count :
                              status[x] \in {"preparing", "prepared", "executing"}}}

\* Every run ends.
RunEnds == pc # "idle" ~> pc = "idle"

\* The last run was aborted, or something failed in it.
EndedBadly ==
  IF transcript = <<>> THEN failures > 0
  ELSE failures > 0 \/ LastOf(transcript).stop \in FailedStops

\* A message that is in the steering queue when the loop polls is in the
\* transcript by the end of the run, unless the run was aborted or failed.
SteeringDelivered ==
  \A n \in 1..MaxQueued :
    (pc = "poll" /\ Places(steeringQueue, n) = 1)
      ~> (\/ Places(transcript, n) = 1
          \/ pc = "idle" /\ EndedBadly)
=============================================================================
