---------------------------- MODULE AgentSession ----------------------------
(***************************************************************************)
(* AgentSession of core/agent-session.ts around one agent: prompts, the    *)
(* messages queued while it works, automatic retry and compaction, before  *)
(* a prompt and after a run, the user's own shell commands, abort, and     *)
(* what is saved.  The agent's run is taken at the grain this class sees   *)
(* (AgentLoop has the detail): one tool call per answer, queues drained    *)
(* one message at a time, which is the default.  Between two steps         *)
(* anything else may happen.                                               *)
(*                                                                         *)
(* What a compaction cuts is Compaction's subject; here it only rebuilds   *)
(* the transcript from the session.  Whether one is due is not told from   *)
(* sizes and times: a session past its threshold may be compacted.         *)
(***************************************************************************)
EXTENDS Naturals, Sequences, FiniteSets, SequencesExt

CONSTANTS
  Prompts,     \* calls of prompt()
  Overlap,     \* whether prompt() is called while another call prepares its run
  MaxRetries,  \* settings.retry.maxRetries
  MaxEvents,   \* bound: steer(), followUp(), shell commands and aborts together
  MaxAnswers   \* bound: answers that call a tool or fail

ASSUME BoundsAssumption ==
  /\ Overlap \in BOOLEAN
  /\ MaxRetries \in Nat /\ MaxEvents \in Nat /\ MaxAnswers \in Nat

\* Messages are told apart by numbers: a prompt's is its own.
ASSUME PromptsAssumption ==
  IsFiniteSet(Prompts) /\ Prompts \subseteq 1 .. Cardinality(Prompts)

VARIABLES
  \* class AgentSession
  pc,                  \* per call of prompt(): how far it is
  isAgentRunActive,    \* _isAgentRunActive: isStreaming, and not isIdle
  lastAssistant,       \* _lastAssistantMessage, its stop reason
  retryAttempt,        \* _retryAttempt
  retryAbort,          \* whose backoff _retryAbortController cancels
  recovered,           \* _overflowRecoveryAttempted
  steeringMessages, followUpMessages,   \* what the user is shown as queued
  pendingBash,         \* _pendingBashMessages
  idleWait,            \* somebody waits for _idleWaitPromise
  saved,               \* the messages of the session
  \* class Agent
  run,                 \* where the active run is; "none" without one
  owner,               \* the call of prompt() that awaits it
  aborted,             \* its abort signal
  steeringQueue, followUpQueue,
  pending,             \* messages the loop has taken and not yet emitted
  emitting,            \* the message whose message_end listeners run
  messages,            \* state.messages
  \* bookkeeping
  queued,              \* the messages that were ever queued
  early,               \* those of them that were queued while no run was active
  returned,            \* those clearQueue gave back
  events, answers      \* counters

runvars   == <<run, owner, aborted, pending, emitting>>
queues    == <<steeringMessages, followUpMessages, steeringQueue, followUpQueue>>
texts     == <<messages, saved>>
retryvars == <<lastAssistant, retryAttempt, retryAbort, recovered>>
counts    == <<queued, early, returned, events, answers>>
vars == <<pc, isAgentRunActive, retryvars, queues, pendingBash, idleWait, texts, runvars, counts>>

NoPrompt == 0
Nothing  == [role |-> "none", id |-> 0, stop |-> "none"]

User(id)     == [role |-> "user", id |-> id, stop |-> "none"]
Answer(stop) == [role |-> "assistant", id |-> answers, stop |-> stop]
Result       == [role |-> "toolResult", id |-> answers, stop |-> "none"]
Bash         == [role |-> "bash", id |-> events, stop |-> "none"]

\* An error the provider may recover from, any other error, and a context that
\* is too long.
Failures  == {"error", "fatal", "overflow"}
Failed(m) == m.stop \in Failures

\* Messages that are queued are numbered after the prompts.
Text == Cardinality(Prompts) + events + 1
Ids(s) == {s[i].id : i \in DOMAIN s}

\* A session that was saved and is opened again: its last answer did not fit.
Opened == <<User(NoPrompt), [role |-> "assistant", id |-> 0, stop |-> "overflow"]>>

Init ==
  /\ pc = [p \in Prompts |-> "idle"]
  /\ isAgentRunActive = FALSE
  /\ lastAssistant = "none" /\ retryAttempt = 0 /\ retryAbort = NoPrompt /\ recovered = FALSE
  /\ steeringMessages = <<>> /\ followUpMessages = <<>>
  /\ steeringQueue = <<>> /\ followUpQueue = <<>>
  /\ pendingBash = <<>> /\ idleWait = FALSE
  /\ \/ saved = <<>> /\ answers = 0
     \/ saved = Opened /\ answers = 1
  /\ messages = saved
  /\ run = "none" /\ owner = NoPrompt /\ aborted = FALSE
  /\ pending = <<>> /\ emitting = Nothing
  /\ queued = {} /\ early = {} /\ returned = {} /\ events = 0

Event == events < MaxEvents /\ events' = events + 1

-----------------------------------------------------------------------------
\* Queueing.
Steered(id) ==
  /\ steeringMessages' = Append(steeringMessages, id)
  /\ steeringQueue' = Append(steeringQueue, User(id))
  /\ UNCHANGED <<followUpMessages, followUpQueue>>

Followed(id) ==
  /\ followUpMessages' = Append(followUpMessages, id)
  /\ followUpQueue' = Append(followUpQueue, User(id))
  /\ UNCHANGED <<steeringMessages, steeringQueue>>

\* steer and followUp, at any time.
Queue ==
  /\ Event
  /\ queued' = queued \cup {Text}
  /\ early' = IF isAgentRunActive THEN early ELSE early \cup {Text}
  /\ Steered(Text) \/ Followed(Text)
  /\ UNCHANGED <<pc, isAgentRunActive, retryvars, pendingBash, idleWait, texts, runvars,
                 returned, answers>>

\* clearQueue: the messages shown go back to the editor.
ClearQueue ==
  /\ steeringMessages # <<>> \/ followUpMessages # <<>>
  /\ returned' = returned \cup Range(steeringMessages) \cup Range(followUpMessages)
  /\ steeringMessages' = <<>> /\ followUpMessages' = <<>>
  /\ steeringQueue' = <<>> /\ followUpQueue' = <<>>
  /\ UNCHANGED <<pc, isAgentRunActive, retryvars, pendingBash, idleWait, texts, runvars,
                 queued, early, events, answers>>

-----------------------------------------------------------------------------
\* Shell commands of the user.

\* Mutant: the result is added at once.
RecordBashAtOnce ==
  /\ Event
  /\ messages' = Append(messages, Bash)
  /\ saved' = Append(saved, Bash)
  /\ UNCHANGED <<pc, isAgentRunActive, retryvars, queues, pendingBash, idleWait, runvars,
                 queued, early, returned, answers>>

\* recordBashResult: not between a tool call and its result, so not during a run.
RecordBash ==
  /\ Event
  /\ IF isAgentRunActive
       THEN pendingBash' = Append(pendingBash, Bash) /\ UNCHANGED texts
       ELSE /\ messages' = Append(messages, Bash)
            /\ saved' = Append(saved, Bash)
            /\ UNCHANGED pendingBash
  /\ UNCHANGED <<pc, isAgentRunActive, retryvars, queues, idleWait, runvars,
                 queued, early, returned, answers>>

\* _flushPendingBashMessages, onto a transcript.
FlushPendingBash(transcript) ==
  /\ messages' = transcript \o pendingBash
  /\ saved' = saved \o pendingBash
  /\ pendingBash' = <<>>

-----------------------------------------------------------------------------
\* prompt().
CompactingFirst(p) == pc[p] \in {"trimmingFirst", "recoveringFirst"}

Preparing(p) == pc[p] \in {"called", "preflight"} \/ CompactingFirst(p)

\* The call, up to its first await.  Calls are numbered as they are made.
Prompt(p) ==
  /\ pc[p] = "idle"
  /\ \A q \in Prompts : q < p => pc[q] # "idle"
  /\ Overlap \/ \A q \in Prompts : ~Preparing(q)
  /\ pc' = [pc EXCEPT ![p] = "called"]
  /\ UNCHANGED <<isAgentRunActive, retryvars, queues, pendingBash, idleWait, texts, runvars, counts>>

\* During a run the text is queued, or refused if the caller did not say how.
PromptWhileStreaming(p) ==
  /\ pc[p] = "called"
  /\ isAgentRunActive
  /\ pc' = [pc EXCEPT ![p] = "done"]
  /\ \/ (Steered(p) \/ Followed(p)) /\ queued' = queued \cup {p}
     \/ UNCHANGED <<queues, queued>>
  /\ UNCHANGED <<isAgentRunActive, retryvars, pendingBash, idleWait, texts, runvars,
                 early, returned, events, answers>>

\* Mutant: the check for an active run is left to the agent.
PreflightAnyway(p) ==
  /\ pc[p] = "called"
  /\ pc' = [pc EXCEPT ![p] = "preflight"]
  /\ FlushPendingBash(messages)
  /\ UNCHANGED <<isAgentRunActive, retryvars, queues, idleWait, runvars, counts>>

\* The checks before a run, up to the awaits of extensions, where no compaction
\* is due.
Preflight(p) ==
  /\ pc[p] = "called"
  /\ ~isAgentRunActive
  /\ pc' = [pc EXCEPT ![p] = "preflight"]
  /\ FlushPendingBash(messages)
  /\ UNCHANGED <<isAgentRunActive, retryvars, queues, idleWait, runvars, counts>>

WithoutLastAnswer(s) == IF s # <<>> /\ Last(s).role = "assistant" THEN Front(s) ELSE s

LastAnswerIs(stop, s) ==
  \E i \in DOMAIN s :
    s[i].role = "assistant" /\ s[i].stop = stop /\ \A j \in i + 1 .. Len(s) : s[j].role # "assistant"

\* _checkCompaction before a run: a compaction is due for the last answer, also
\* an aborted one, and awaited while no run is active.  After an overflow that
\* was not recovered from, it is for a retry, which the prompt then stands for.
CompactFirst(p) ==
  LET transcript == messages \o pendingBash
  IN  /\ pc[p] = "called"
      /\ ~isAgentRunActive
      /\ \E m \in Range(messages) : m.role = "assistant"
      /\ saved' = saved \o pendingBash
      /\ pendingBash' = <<>>
      /\ IF LastAnswerIs("overflow", messages)
           THEN /\ ~recovered
                /\ recovered' = TRUE
                /\ messages' = WithoutLastAnswer(transcript)
                /\ pc' = [pc EXCEPT ![p] = "recoveringFirst"]
           ELSE /\ messages' = transcript
                /\ pc' = [pc EXCEPT ![p] = "trimmingFirst"]
                /\ UNCHANGED recovered
      /\ UNCHANGED <<isAgentRunActive, lastAssistant, retryAttempt, retryAbort, queues, idleWait,
                     runvars, counts>>

\* _runAutoCompaction rebuilds the transcript; for a retry without the failed
\* answer.
Rebuilt(retry) == IF retry /\ saved # <<>> /\ Failed(Last(saved)) THEN Front(saved) ELSE saved

\* It ends, or fails, and the prompt goes on.
CompactedFirst(p) ==
  /\ CompactingFirst(p)
  /\ messages' = Rebuilt(pc[p] = "recoveringFirst") \/ UNCHANGED messages
  /\ pc' = [pc EXCEPT ![p] = "preflight"]
  /\ UNCHANGED <<isAgentRunActive, retryvars, queues, pendingBash, idleWait, saved, runvars, counts>>

\* prompt() rejects before the run: no model, no key, an extension that throws;
\* or an extension has handled the text.
PromptEndsEarly(p) ==
  /\ pc[p] \in {"called", "preflight"}
  /\ pc' = [pc EXCEPT ![p] = "done"]
  /\ UNCHANGED <<isAgentRunActive, retryvars, queues, pendingBash, idleWait, texts, runvars, counts>>

\* The finally block of _runAgentPrompt, until the extensions are told.
Settle(p, transcript) ==
  /\ FlushPendingBash(transcript)
  /\ isAgentRunActive' = FALSE
  /\ pc' = [pc EXCEPT ![p] = "settling"]

\* A run of the agent begins, awaited by p.
Begin(p, phase, taken) ==
  /\ run' = phase
  /\ owner' = p
  /\ aborted' = FALSE
  /\ pending' = taken
  /\ pc' = [pc EXCEPT ![p] = "running"]
  /\ UNCHANGED emitting

\* _runAgentPrompt: the agent refuses a second prompt.
Launch(p) ==
  /\ pc[p] = "preflight"
  /\ \/ /\ run = "none"
        /\ Begin(p, "prompts", <<User(p)>>)
        /\ isAgentRunActive' = TRUE
        /\ UNCHANGED <<texts, pendingBash>>
     \/ run # "none" /\ Settle(p, messages) /\ UNCHANGED runvars
  /\ UNCHANGED <<retryvars, queues, idleWait, counts>>

\* Mutant: nobody who waits is told.
SettledSilently(p) ==
  /\ pc[p] = "settling"
  /\ pc' = [pc EXCEPT ![p] = "done"]
  /\ UNCHANGED <<isAgentRunActive, retryvars, queues, pendingBash, idleWait, texts, runvars, counts>>

\* The extensions were told; who waits for the session to be idle goes on.
Settled(p) ==
  /\ pc[p] = "settling"
  /\ pc' = [pc EXCEPT ![p] = "done"]
  /\ idleWait' = (idleWait /\ isAgentRunActive)
  /\ UNCHANGED <<isAgentRunActive, retryvars, queues, pendingBash, texts, runvars, counts>>

-----------------------------------------------------------------------------
\* The agent's run.

\* Mutant: follow-up messages are not taken off the display.
EmitTakenSteering ==
  /\ run \in {"prompts", "inject"}
  /\ emitting = Nothing
  /\ pending # <<>>
  /\ pending' = Tail(pending)
  /\ emitting' = Head(pending)
  /\ messages' = Append(messages, Head(pending))
  /\ steeringMessages' = RemoveFirst(steeringMessages, Head(pending).id)
  /\ recovered' = FALSE
  /\ UNCHANGED <<pc, isAgentRunActive, lastAssistant, retryAttempt, retryAbort, followUpMessages, steeringQueue,
                 followUpQueue, pendingBash, idleWait, saved, run, owner, aborted, counts>>

\* The first message taken is emitted: it leaves the display and enters the
\* transcript.  A user message allows one overflow recovery more.
EmitTaken ==
  /\ run \in {"prompts", "inject"}
  /\ emitting = Nothing
  /\ pending # <<>>
  /\ pending' = Tail(pending)
  /\ emitting' = Head(pending)
  /\ messages' = Append(messages, Head(pending))
  /\ IF Head(pending).id \in Range(steeringMessages)
       THEN /\ steeringMessages' = RemoveFirst(steeringMessages, Head(pending).id)
            /\ UNCHANGED followUpMessages
       ELSE /\ followUpMessages' = RemoveFirst(followUpMessages, Head(pending).id)
            /\ UNCHANGED steeringMessages
  /\ recovered' = FALSE
  /\ UNCHANGED <<pc, isAgentRunActive, lastAssistant, retryAttempt, retryAbort, steeringQueue,
                 followUpQueue, pendingBash, idleWait, saved, run, owner, aborted, counts>>

AfterEmitting(m) ==
  CASE m.role = "user" -> run
    [] m.role = "toolResult" -> "poll"
    [] m.stop = "calls" -> "tools"
    [] m.stop = "stop" -> "pollSteering"
    [] OTHER -> "end"

\* _handleAgentEvent of message_end: the message is saved, and an answer noted.
Save ==
  /\ emitting # Nothing
  /\ saved' = Append(saved, emitting)
  /\ emitting' = Nothing
  /\ run' = AfterEmitting(emitting)
  /\ IF emitting.role = "assistant"
       THEN /\ lastAssistant' = emitting.stop
            /\ recovered' = (recovered /\ Failed(emitting))
            /\ retryAttempt' = IF Failed(emitting) THEN retryAttempt ELSE 0
       ELSE UNCHANGED <<lastAssistant, recovered, retryAttempt>>
  /\ UNCHANGED <<pc, isAgentRunActive, retryAbort, queues, pendingBash, idleWait, messages,
                 owner, aborted, pending, counts>>

\* The loop takes one queued message, and goes on where "otherwise" says when
\* there is none.
Take(queue, otherwise) ==
  IF queue = <<>> THEN run' = otherwise /\ UNCHANGED <<queue, pending>>
  ELSE run' = "inject" /\ pending' = <<Head(queue)>> /\ queue' = Tail(queue)

Idling == emitting = Nothing /\ pending = <<>>

PollBeforeAnswer ==
  /\ run \in {"prompts", "poll"} /\ Idling
  /\ Take(steeringQueue, "inject")
  /\ UNCHANGED <<pc, isAgentRunActive, retryvars, steeringMessages, followUpMessages, followUpQueue,
                 pendingBash, idleWait, texts, owner, aborted, emitting, counts>>

PollAfterAnswer ==
  /\ run = "pollSteering"
  /\ Take(steeringQueue, "pollFollowUp")
  /\ UNCHANGED <<pc, isAgentRunActive, retryvars, steeringMessages, followUpMessages, followUpQueue,
                 pendingBash, idleWait, texts, owner, aborted, emitting, counts>>

PollFollowUp ==
  /\ run = "pollFollowUp"
  /\ Take(followUpQueue, "end")
  /\ UNCHANGED <<pc, isAgentRunActive, retryvars, steeringMessages, followUpMessages, steeringQueue,
                 pendingBash, idleWait, texts, owner, aborted, emitting, counts>>

\* An aborted answer may still have come to its end.
Stops ==
  (IF aborted THEN {"aborted", "stop"} ELSE {"stop"})
    \cup (IF answers < MaxAnswers THEN {"calls"} ELSE {})
    \cup (IF answers < MaxAnswers /\ ~aborted THEN {"error", "fatal", "overflow"} ELSE {})

Push(m) == messages' = Append(messages, m) /\ emitting' = m

ModelAnswers ==
  /\ run = "inject" /\ Idling
  /\ \E stop \in Stops :
       /\ Push(Answer(stop))
       /\ answers' = IF stop \in {"stop", "aborted"} THEN answers ELSE answers + 1
  /\ run' = "answered"
  /\ UNCHANGED <<pc, isAgentRunActive, retryvars, queues, pendingBash, idleWait, saved,
                 owner, aborted, pending, queued, early, returned, events>>

ToolEnds ==
  /\ run = "tools" /\ emitting = Nothing
  /\ Push(Result)
  /\ UNCHANGED <<pc, isAgentRunActive, retryvars, queues, pendingBash, idleWait, saved,
                 run, owner, aborted, pending, counts>>

\* agent_end and its listeners, then finishRun.
FinishRun ==
  /\ run = "end"
  /\ run' = "none" /\ owner' = NoPrompt
  /\ pc' = [pc EXCEPT ![owner] = "postRun"]
  /\ UNCHANGED <<isAgentRunActive, retryvars, queues, pendingBash, idleWait, texts,
                 aborted, pending, emitting, counts>>

-----------------------------------------------------------------------------
\* What follows a run.

\* agent.continue on a transcript: after an answer with what is queued, else with
\* the transcript.  It throws while another run is active, or with nothing to do.
Continue(p, transcript) ==
  LET answered == transcript # <<>> /\ Last(transcript).role = "assistant"
      refused  == \/ run # "none"
                  \/ transcript = <<>>
                  \/ answered /\ steeringQueue = <<>> /\ followUpQueue = <<>>
  IN  \/ refused /\ Settle(p, transcript) /\ UNCHANGED <<queues, runvars>>
      \/ /\ ~refused
         /\ messages' = transcript
         /\ UNCHANGED <<saved, pendingBash, isAgentRunActive, steeringMessages, followUpMessages>>
         /\ \/ ~answered /\ Begin(p, "poll", <<>>) /\ UNCHANGED <<steeringQueue, followUpQueue>>
            \/ /\ answered /\ steeringQueue # <<>>
               /\ Begin(p, "inject", <<Head(steeringQueue)>>)
               /\ steeringQueue' = Tail(steeringQueue) /\ UNCHANGED followUpQueue
            \/ /\ answered /\ steeringQueue = <<>>
               /\ Begin(p, "prompts", <<Head(followUpQueue)>>)
               /\ followUpQueue' = Tail(followUpQueue) /\ UNCHANGED steeringQueue

\* Mutant: only the steering queue is looked at.
GoOnSteering(p, transcript) ==
  IF steeringQueue # <<>> THEN Continue(p, transcript)
  ELSE Settle(p, transcript) /\ UNCHANGED <<queues, runvars>>

\* The end of _handlePostAgentRun: go on if anything is queued.
GoOn(p, transcript) ==
  IF steeringQueue # <<>> \/ followUpQueue # <<>> THEN Continue(p, transcript)
  ELSE Settle(p, transcript) /\ UNCHANGED <<queues, runvars>>

\* A retryable error is taken out of the transcript and retried after a while.
Retry(p) ==
  /\ pc[p] = "postRun"
  /\ lastAssistant = "error" /\ retryAttempt < MaxRetries
  /\ lastAssistant' = "none"
  /\ retryAttempt' = retryAttempt + 1
  /\ retryAbort' = p
  /\ pc' = [pc EXCEPT ![p] = "backoff"]
  /\ messages' = WithoutLastAnswer(messages)
  /\ UNCHANGED <<isAgentRunActive, recovered, queues, pendingBash, idleWait, saved, runvars, counts>>

\* Mutant: the recovery is not remembered.
RecoverEachTime(p) ==
  /\ pc[p] = "postRun"
  /\ lastAssistant = "overflow" /\ ~recovered
  /\ lastAssistant' = "none"
  /\ retryAttempt' = 0
  /\ pc' = [pc EXCEPT ![p] = "compacting"]
  /\ messages' = WithoutLastAnswer(messages)
  /\ UNCHANGED <<isAgentRunActive, retryAbort, recovered, queues, pendingBash, idleWait, saved, runvars, counts>>

\* An overflow is taken out too, and the session compacted, once.
Recover(p) ==
  /\ pc[p] = "postRun"
  /\ lastAssistant = "overflow" /\ ~recovered
  /\ lastAssistant' = "none"
  /\ retryAttempt' = 0
  /\ recovered' = TRUE
  /\ pc' = [pc EXCEPT ![p] = "compacting"]
  /\ messages' = WithoutLastAnswer(messages)
  /\ UNCHANGED <<isAgentRunActive, retryAbort, queues, pendingBash, idleWait, saved, runvars, counts>>

\* After any other answer that was not aborted the session may be past its
\* threshold: it is compacted, and nothing is retried.
Trim(p) ==
  /\ pc[p] = "postRun"
  /\ lastAssistant \notin {"none", "aborted", "overflow"}
  /\ ~(lastAssistant = "error" /\ retryAttempt < MaxRetries)
  /\ lastAssistant' = "none"
  /\ retryAttempt' = IF lastAssistant \in Failures THEN 0 ELSE retryAttempt
  /\ pc' = [pc EXCEPT ![p] = "trimming"]
  /\ UNCHANGED <<isAgentRunActive, retryAbort, recovered, queues, pendingBash, idleWait, texts, runvars, counts>>

\* Anything else ends here, unless something is queued.
Conclude(p) ==
  /\ pc[p] = "postRun"
  /\ ~(lastAssistant = "error" /\ retryAttempt < MaxRetries)
  /\ ~(lastAssistant = "overflow" /\ ~recovered)
  /\ lastAssistant' = "none"
  /\ retryAttempt' = IF lastAssistant \in Failures THEN 0 ELSE retryAttempt
  /\ IF lastAssistant = "none" THEN Settle(p, messages) /\ UNCHANGED <<queues, runvars>>
     ELSE GoOn(p, messages)
  /\ UNCHANGED <<retryAbort, recovered, idleWait, counts>>

BackoffEnds(p) ==
  /\ pc[p] = "backoff"
  /\ retryAbort' = NoPrompt
  /\ Continue(p, messages)
  /\ UNCHANGED <<lastAssistant, retryAttempt, recovered, idleWait, counts>>

RetryCancelled(p) ==
  /\ pc[p] = "cancelled"
  /\ retryAbort' = NoPrompt
  /\ retryAttempt' = 0
  /\ GoOn(p, messages)
  /\ UNCHANGED <<lastAssistant, recovered, idleWait, counts>>

\* _runAutoCompaction: the transcript is rebuilt, or the compaction fails.
CompactionEnds(p) ==
  /\ \/ pc[p] = "compacting" /\ Continue(p, Rebuilt(TRUE))
     \/ pc[p] = "trimming" /\ GoOn(p, Rebuilt(FALSE))
     \/ pc[p] \in {"compacting", "trimming"} /\ GoOn(p, messages)
  /\ UNCHANGED <<retryvars, idleWait, counts>>

\* abort: the backoff, the run, and then a wait until the session is idle.
Abort ==
  /\ Event
  /\ pc' = [p \in Prompts |-> IF p = retryAbort /\ pc[p] = "backoff" THEN "cancelled" ELSE pc[p]]
  /\ aborted' = (run # "none")
  /\ idleWait' = (idleWait \/ isAgentRunActive)
  /\ UNCHANGED <<isAgentRunActive, retryvars, queues, pendingBash, texts, run, owner, pending,
                 emitting, queued, early, returned, answers>>

-----------------------------------------------------------------------------
UserStep == Queue \/ ClearQueue \/ RecordBash \/ Abort

RunStep ==
  \/ EmitTaken \/ Save \/ PollBeforeAnswer \/ PollAfterAnswer \/ PollFollowUp
  \/ ModelAnswers \/ ToolEnds \/ FinishRun

PromptStep(p) ==
  \/ PromptWhileStreaming(p) \/ Preflight(p) \/ CompactFirst(p) \/ CompactedFirst(p)
  \/ PromptEndsEarly(p) \/ Launch(p)
  \/ Retry(p) \/ Recover(p) \/ Trim(p) \/ Conclude(p)
  \/ BackoffEnds(p) \/ RetryCancelled(p) \/ CompactionEnds(p) \/ Settled(p)

Next == UserStep \/ RunStep \/ \E p \in Prompts : Prompt(p) \/ PromptStep(p)

Spec == Init /\ [][Next]_vars

\* The model, tools, timers and extensions answer.  Nothing obliges the user.
Fairness == WF_vars(RunStep \/ \E p \in Prompts : PromptStep(p))

FairSpec == Spec /\ Fairness

-----------------------------------------------------------------------------
\* A call whose run is active, or that goes on after it.
Works(p) == pc[p] \in {"running", "postRun", "backoff", "cancelled", "compacting", "trimming"}

\* While the session is idle there is no run of the agent, and none of what
\* follows one: a retry, a compaction, a continuation (isIdle).  What precedes one
\* is excepted, against the comment at agent-session.ts:842: the session counts as
\* idle while prompt() awaits a compaction before its run (CompactingFirst).
IdleMeansNoRun == ~isAgentRunActive => run = "none" /\ \A p \in Prompts : ~Works(p)

\* A tool result directly follows the answer that called the tool, in the
\* transcript and in the session, whatever shell commands ended meanwhile
\* (recordBashResult defers them "to avoid breaking tool_use/tool_result ordering").
ResultsFollowCalls ==
  \A s \in {messages, saved} : \A i \in DOMAIN s :
    s[i].role = "toolResult" => i > 1 /\ s[i - 1].stop = "calls"

\* The session holds the transcript, in its order: what a reopened session would
\* send is what this process sends.  Failed answers apart, which a retry takes
\* out of the transcript, and the message whose listeners are running.  (Of the
\* messages that did not fail, the n-th here is the n-th there.)
SessionIsTranscript ==
  LET Place(s, i) == Cardinality({k \in 1 .. i : ~Failed(s[k])})
      Kept(s) == {<<Place(s, i), s[i]>> : i \in {j \in DOMAIN s : ~Failed(s[j])}}
  IN  Kept(messages) = Kept(IF emitting = Nothing THEN saved ELSE Append(saved, emitting))

\* Both: what the provider is sent, now or after a restart, is in order.
SessionInOrder == ResultsFollowCalls /\ SessionIsTranscript

\* The user is shown what is queued, in its order, and what the loop has taken
\* and not yet emitted, but nothing else.
QueueIsShown ==
  LET waiting(queue) == [i \in DOMAIN queue |-> queue[i].id]
  IN  /\ IsSuffix(waiting(steeringQueue), steeringMessages)
      /\ IsSuffix(waiting(followUpQueue), followUpMessages)
      /\ Range(steeringMessages) \cup Range(followUpMessages)
           \subseteq Ids(steeringQueue) \cup Ids(followUpQueue) \cup Ids(pending)

\* No queued message is lost: it waits, is about to be emitted, was sent, or went
\* back to the editor.
NothingQueuedIsLost ==
  queued \subseteq Ids(steeringQueue) \cup Ids(followUpQueue) \cup Ids(pending)
                     \cup {m.id : m \in {n \in Range(messages) : n.role = "user"}} \cup returned

\* Both: nothing is queued that is not shown, or is shown or dropped in vain.
QueueIsKept == QueueIsShown /\ NothingQueuedIsLost

\* When the session is idle nothing waits that was queued while it was not: it
\* goes on after a run for what the run left, also after an abort or an error.
NothingIsStranded ==
  ~isAgentRunActive =>
    Ids(steeringQueue) \cup Ids(followUpQueue) \subseteq early

\* A provider that goes on failing is not asked for ever: of the answers that fail
\* in a row at most two are overflows, and at most MaxRetries + 1 are retryable
\* errors in a row, counted anew when a retry is cancelled.
RetriesAreBounded ==
  \A i, j \in DOMAIN saved :
    (\A k \in i .. j : Failed(saved[k])) =>
      /\ Cardinality({k \in i .. j : saved[k].stop = "overflow"}) <= 2
      /\ (\A k \in i .. j : saved[k].stop = "error") => j - i < (MaxRetries + 1) * (events + 1)

\* Once active the session becomes idle again, whatever fails, is retried, queued
\* or aborted, and then nobody is left waiting for it (abort, waitForIdle).
SessionSettles ==
  isAgentRunActive \/ idleWait ~> ~isAgentRunActive /\ ~idleWait
=============================================================================
