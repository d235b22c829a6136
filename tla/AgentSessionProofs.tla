------------------------- MODULE AgentSessionProofs -------------------------
(***************************************************************************)
(* Five arguments about a session in which no call of prompt() is made     *)
(* while another one prepares its run.                                     *)
(*                                                                         *)
(* IdleWithoutRun: an idle session has no run, and no retry or compaction  *)
(* after one.  The proof (IInv) is about who works: the flag               *)
(* _isAgentRunActive, the agent's run and the progress of each call.       *)
(*                                                                         *)
(* NothingLeftWaiting: when the session becomes idle nothing is left in    *)
(* the queues of what was queued while it worked.  The session goes on     *)
(* with agent.continue(), which throws on an empty transcript: so QInv is  *)
(* also about what the transcript and the session begin with.              *)
(*                                                                         *)
(* QueueKept: what is queued is what is shown.  KeptInv follows the one    *)
(* message that the loop has taken and not yet emitted.                    *)
(*                                                                         *)
(* RetriesEnd: BoundInv counts the failed answers that the session ends    *)
(* with, at each place where the model is asked and where its answer is    *)
(* looked at.                                                              *)
(*                                                                         *)
(* SentInOrder: OrderInv says that the session agrees with the transcript  *)
(* and that both end with the call whose result is emitted.                *)
(***************************************************************************)
EXTENDS AgentSession, SequenceTheorems, FiniteSetTheorems, TLAPS

\* At most one call prepares a run, and one works; the flag is set while one
\* works and not while one has checked that it is not set.
TurnsOK ==
  /\ \A p, q \in Prompts : Preparing(p) /\ Preparing(q) => p = q
  /\ \A p, q \in Prompts : Works(p) /\ Works(q) => p = q
  /\ \A p \in Prompts : Works(p) => isAgentRunActive
  /\ \A p \in Prompts : pc[p] = "preflight" \/ CompactingFirst(p) => ~isAgentRunActive

\* The agent's run belongs to the call that awaits it.
OwnerOK ==
  /\ run # "none" => owner \in Prompts /\ pc[owner] = "running"
  /\ \A p \in Prompts : pc[p] = "running" => run # "none" /\ owner = p

\* A message's listeners run only where the run emits one.
EmittingOK == emitting # Nothing => run \in {"prompts", "inject", "answered", "tools"}

IInv == DOMAIN pc = Prompts /\ TurnsOK /\ OwnerOK /\ EmittingOK

\* A step of the run that is not its last.
LEMMA RunGoesOn ==
  ASSUME IInv, run # "none", run' # "none", EmittingOK', UNCHANGED <<pc, isAgentRunActive, owner>>
  PROVE  IInv'
  BY DEF IInv, TurnsOK, OwnerOK, Works, Preparing, CompactingFirst

\* Only the call that works, or the one that prepares, ends in _runAgentPrompt's
\* finally block.
LEMMA SettleKeeps ==
  ASSUME IInv, NEW p \in Prompts, NEW transcript, Works(p), pc[p] # "running",
         Settle(p, transcript), UNCHANGED <<run, owner, emitting>>
  PROVE  IInv'
  BY DEF IInv, TurnsOK, OwnerOK, EmittingOK, Works, Preparing, CompactingFirst, Settle

\* A run that begins is awaited by the only call that works.
LEMMA BeginKeeps ==
  ASSUME IInv, NEW p \in Prompts, NEW phase, NEW taken, phase # "none", run = "none",
         \/ Works(p) /\ UNCHANGED isAgentRunActive
         \/ pc[p] = "preflight" /\ isAgentRunActive' = TRUE,
         Begin(p, phase, taken)
  PROVE  IInv'
  BY DEF IInv, TurnsOK, OwnerOK, EmittingOK, Works, Preparing, CompactingFirst, Begin

LEMMA ContinueKeeps ==
  ASSUME IInv, NEW p \in Prompts, NEW transcript, Works(p), pc[p] # "running",
         Continue(p, transcript)
  PROVE  IInv'
<1>1. CASE Settle(p, transcript) /\ UNCHANGED runvars
  BY <1>1, SettleKeeps DEF runvars
<1>2. CASE /\ run = "none" /\ UNCHANGED isAgentRunActive
           /\ \E phase \in {"poll", "inject", "prompts"} : \E taken : Begin(p, phase, taken)
  BY <1>2, BeginKeeps
<1> QED
  BY <1>1, <1>2 DEF Continue

LEMMA GoOnKeeps ==
  ASSUME IInv, NEW p \in Prompts, NEW transcript, Works(p), pc[p] # "running",
         GoOn(p, transcript)
  PROVE  IInv'
<1>1. CASE Continue(p, transcript)
  BY <1>1, ContinueKeeps
<1>2. CASE Settle(p, transcript) /\ UNCHANGED runvars
  BY <1>2, SettleKeeps DEF runvars
<1> QED
  BY <1>1, <1>2 DEF GoOn

LEMMA InitIInv == Init => IInv
  BY DEF Init, IInv, TurnsOK, OwnerOK, EmittingOK, Works, Preparing, CompactingFirst

\* What the user does changes neither who works nor the run.
LEMMA UserStepKeeps ==
  ASSUME IInv, UserStep
  PROVE  IInv'
<1>1. CASE Queue \/ ClearQueue \/ RecordBash
  <2>1. UNCHANGED <<pc, isAgentRunActive, run, owner, emitting>>
    BY <1>1 DEF Queue, ClearQueue, RecordBash, runvars
  <2> QED
    BY <2>1 DEF IInv, TurnsOK, OwnerOK, EmittingOK, Works, Preparing, CompactingFirst
<1>2. CASE Abort
  BY <1>2 DEF Abort, IInv, TurnsOK, OwnerOK, EmittingOK, Works, Preparing, CompactingFirst
<1> QED
  BY <1>1, <1>2 DEF UserStep

LEMMA RunStepKeeps ==
  ASSUME IInv, RunStep
  PROVE  IInv'
<1>1. CASE EmitTaken
  BY <1>1, RunGoesOn DEF EmitTaken, EmittingOK
<1>2. CASE Save
  <2>1. run \in {"prompts", "inject", "answered", "tools"}
    BY <1>2 DEF Save, IInv, EmittingOK
  <2>2. AfterEmitting(emitting) # "none"
    BY <2>1 DEF AfterEmitting
  <2>3. run' # "none" /\ EmittingOK' /\ UNCHANGED <<pc, isAgentRunActive, owner>>
    BY <1>2, <2>2 DEF Save, EmittingOK
  <2> QED
    BY <2>1, <2>3, RunGoesOn
<1>3. CASE PollBeforeAnswer
  BY <1>3, RunGoesOn DEF PollBeforeAnswer, Take, Idling, EmittingOK
<1>4. CASE PollAfterAnswer \/ PollFollowUp
  <2>1. emitting = Nothing
    BY <1>4 DEF PollAfterAnswer, PollFollowUp, IInv, EmittingOK
  <2> QED
    BY <1>4, <2>1, RunGoesOn DEF PollAfterAnswer, PollFollowUp, Take, EmittingOK
<1>5. CASE ModelAnswers \/ ToolEnds
  BY <1>5, RunGoesOn DEF ModelAnswers, ToolEnds, EmittingOK
<1>6. CASE FinishRun
  BY <1>6 DEF FinishRun, IInv, TurnsOK, OwnerOK, EmittingOK, Works, Preparing, CompactingFirst
<1> QED
  BY <1>1, <1>2, <1>3, <1>4, <1>5, <1>6 DEF RunStep

\* A call of prompt(), while no other one prepares its run.
LEMMA PromptKeeps ==
  ASSUME IInv, ~Overlap, NEW p \in Prompts, Prompt(p)
  PROVE  IInv'
  BY DEF Prompt, IInv, TurnsOK, OwnerOK, EmittingOK, Works, Preparing, CompactingFirst, runvars

LEMMA PromptStepKeeps ==
  ASSUME IInv, NEW p \in Prompts, PromptStep(p)
  PROVE  IInv'
<1> USE DEF Works
<1>1. CASE PromptWhileStreaming(p) \/ Preflight(p) \/ PromptEndsEarly(p)
  BY <1>1 DEF PromptWhileStreaming, Preflight, PromptEndsEarly, IInv, TurnsOK, OwnerOK, EmittingOK,
              Preparing, CompactingFirst, runvars
<1>9. CASE CompactFirst(p) \/ CompactedFirst(p)
  BY <1>9 DEF CompactFirst, CompactedFirst, IInv, TurnsOK, OwnerOK, EmittingOK,
              Preparing, CompactingFirst, runvars
<1>2. CASE Launch(p)
  <2>1. run = "none"
    BY <1>2 DEF Launch, IInv, TurnsOK, OwnerOK
  <2> QED
    BY <1>2, <2>1, BeginKeeps DEF Launch
<1>3. CASE Retry(p) \/ Recover(p) \/ Trim(p)
  BY <1>3 DEF Retry, Recover, Trim, IInv, TurnsOK, OwnerOK, EmittingOK, Preparing, CompactingFirst, runvars
<1>4. CASE Conclude(p)
  <2>1. CASE Settle(p, messages) /\ UNCHANGED runvars
    BY <1>4, <2>1, SettleKeeps DEF Conclude, runvars
  <2>2. CASE GoOn(p, messages)
    BY <1>4, <2>2, GoOnKeeps DEF Conclude
  <2> QED
    BY <1>4, <2>1, <2>2 DEF Conclude
<1>5. CASE BackoffEnds(p)
  BY <1>5, ContinueKeeps DEF BackoffEnds
<1>6. CASE RetryCancelled(p)
  BY <1>6, GoOnKeeps DEF RetryCancelled
<1>7. CASE CompactionEnds(p)
  <2>1. pc[p] \in {"compacting", "trimming"}
    BY <1>7 DEF CompactionEnds
  <2>2. \E transcript : Continue(p, transcript) \/ GoOn(p, transcript)
    BY <1>7 DEF CompactionEnds
  <2> QED
    BY <2>1, <2>2, ContinueKeeps, GoOnKeeps
<1>8. CASE Settled(p)
  BY <1>8 DEF Settled, IInv, TurnsOK, OwnerOK, EmittingOK, Preparing, CompactingFirst, runvars
<1> QED
  BY <1>1, <1>2, <1>3, <1>4, <1>5, <1>6, <1>7, <1>8, <1>9 DEF PromptStep

\* An idle session has no run of the agent, and no retry, compaction or
\* continuation after one (isIdle; not the compaction before a run), for any
\* number of prompts, retries and events, provided that prompt() is not called
\* while another call of it prepares its run.
THEOREM IdleWithoutRun ==
  ASSUME ~Overlap
  PROVE  Spec => []IdleMeansNoRun
<1>1. IInv /\ [Next]_vars => IInv'
  <2> SUFFICES ASSUME IInv, [Next]_vars PROVE IInv'
    OBVIOUS
  <2>1. CASE UNCHANGED vars
    BY <2>1 DEF vars, runvars, IInv, TurnsOK, OwnerOK, EmittingOK, Works, Preparing, CompactingFirst
  <2>2. CASE Next
    BY <2>2, UserStepKeeps, RunStepKeeps, PromptKeeps, PromptStepKeeps DEF Next
  <2> QED
    BY <2>1, <2>2
<1>2. IInv => IdleMeansNoRun
  BY DEF IInv, TurnsOK, OwnerOK, Works, IdleMeansNoRun
<1> QED
  BY InitIInv, <1>1, <1>2, PTL DEF Spec

-----------------------------------------------------------------------------
(* What waits in the queues.                                               *)

Ident == Prompts \cup Nat \cup {Cardinality(Prompts) + n + 1 : n \in Nat}

\* Answers say how they ended, and nothing else does.
AnyMessage ==
  {m \in [role : {"user", "assistant", "toolResult", "bash"}, id : Ident,
          stop : Failures \cup {"none", "stop", "calls", "aborted"}] :
     m.stop = "none" <=> m.role # "assistant"}

\* The messages that are no answers.
Words == {m \in AnyMessage : m.role \in {"user", "toolResult", "bash"} /\ m.stop = "none"}

Users == {m \in Words : m.role = "user"}

\* A transcript does not begin with an answer.
Said(s) == s \in Seq(AnyMessage) /\ (s # <<>> => s[1] \in Words)

TextOK ==
  /\ events \in Nat /\ answers \in Nat
  /\ Said(messages) /\ Said(saved)
  /\ steeringQueue \in Seq(Users) /\ followUpQueue \in Seq(Users)
  /\ pending \in Seq(Users) /\ pendingBash \in Seq(Words)
  /\ emitting # Nothing =>
       \/ emitting \in Words /\ emitting.role # "bash"
       \/ /\ emitting \in AnyMessage /\ emitting.role = "assistant" /\ emitting.stop # "none"
          /\ run = "answered"

\* A run ends with an answer, and it is noted until the session has looked at it.
NotedOK ==
  /\ run \in {"pollSteering", "pollFollowUp", "end"} => lastAssistant # "none"
  /\ \A p \in Prompts : pc[p] = "postRun" => lastAssistant # "none"

\* Once the first message of a run is emitted, there is one to continue from.
BegunOK ==
  /\ run \notin {"none", "prompts"} => saved # <<>> /\ messages # <<>>
  /\ run = "prompts" /\ pending = <<>> =>
       messages # <<>> /\ (emitting = Nothing => saved # <<>>)
  /\ emitting # Nothing => messages # <<>>
  /\ \A p \in Prompts : Works(p) /\ pc[p] # "running" => saved # <<>> /\ messages # <<>>

QInv == IInv /\ TextOK /\ NotedOK /\ BegunOK /\ NothingIsStranded

-----------------------------------------------------------------------------
LEMMA TextIdent == ASSUME events \in Nat PROVE Text \in Ident
  BY DEF Text, Ident

\* Between two runs the agent has none.
LEMMA NoRunAfterRun ==
  ASSUME IInv, NEW p \in Prompts, Works(p), pc[p] # "running"
  PROVE  /\ run = "none" /\ emitting = Nothing /\ isAgentRunActive
         /\ \A q \in Prompts : Works(q) => q = p
  BY DEF IInv, TurnsOK, OwnerOK, EmittingOK, Works

\* Appending to a transcript.
LEMMA SaidAppend ==
  ASSUME NEW s, Said(s), NEW m \in AnyMessage, s # <<>> \/ m \in Words
  PROVE  Said(Append(s, m)) /\ Append(s, m) # <<>>
<1>1. s \in Seq(AnyMessage)
  BY DEF Said
<1>2. Append(s, m) \in Seq(AnyMessage) /\ Len(Append(s, m)) = Len(s) + 1
  BY <1>1
<1>3. Append(s, m)[1] = IF s = <<>> THEN m ELSE s[1]
  BY <1>1
<1>4. Append(s, m)[1] \in Words
  BY <1>3 DEF Said
<1>5. Append(s, m) # <<>>
  BY <1>1, <1>2
<1> QED
  BY <1>2, <1>4, <1>5 DEF Said

LEMMA SaidConcat ==
  ASSUME NEW s, Said(s), NEW t \in Seq(Words)
  PROVE  Said(s \o t) /\ (s # <<>> => s \o t # <<>>)
<1>1. t \in Seq(AnyMessage)
  BY DEF Words
<1>2. s \o t \in Seq(AnyMessage) /\ Len(s \o t) = Len(s) + Len(t)
  BY <1>1 DEF Said
<1>3. CASE s = <<>>
  BY <1>2, <1>3 DEF Said
<1>4. CASE s # <<>>
  BY <1>1, <1>2, <1>4 DEF Said
<1> QED
  BY <1>3, <1>4

\* Taking the last answer out leaves the message it answered.
LEMMA SaidWithoutLast ==
  ASSUME NEW s, Said(s), s # <<>>, Last(s) \notin Words
  PROVE  Said(Front(s)) /\ Front(s) # <<>>
<1>1. Len(s) \in Nat /\ Len(s) > 1
  BY DEF Said, Last
<1>2. Front(s) \in Seq(AnyMessage) /\ Len(Front(s)) = Len(s) - 1 /\ Front(s)[1] = s[1]
  BY <1>1 DEF Said, Front
<1> QED
  BY <1>1, <1>2 DEF Said

-----------------------------------------------------------------------------
\* The finally block of _runAgentPrompt, with nothing queued.
LEMMA SettleStrandsNothing ==
  ASSUME QInv, NEW p \in Prompts, NEW transcript, Works(p), pc[p] # "running",
         Said(transcript), Settle(p, transcript), UNCHANGED <<queues, runvars, events, answers>>,
         steeringQueue = <<>>, followUpQueue = <<>>
  PROVE  QInv'
<1> USE DEF QInv
<1>1. run = "none" /\ emitting = Nothing /\ \A q \in Prompts : Works(q) => q = p
  BY NoRunAfterRun
<1>2. IInv'
  BY SettleKeeps DEF runvars
<1>3. TextOK'
  BY <1>1, SaidConcat DEF TextOK, Settle, FlushPendingBash, queues, runvars
<1>4. NotedOK' /\ BegunOK'
  BY <1>1 DEF NotedOK, BegunOK, Settle, runvars, Works, IInv
<1>5. NothingIsStranded'
  BY DEF NothingIsStranded, Settle, queues, Ids
<1> QED
  BY <1>2, <1>3, <1>4, <1>5

\* agent.continue on a transcript that is not empty throws only when there is
\* nothing queued.
LEMMA ContinueStrandsNothing ==
  ASSUME QInv, NEW p \in Prompts, NEW transcript, Works(p), pc[p] # "running",
         Said(transcript), transcript # <<>>, saved # <<>>, Continue(p, transcript),
         UNCHANGED <<events, answers, early>>
  PROVE  QInv'
<1> USE DEF QInv
<1>1. /\ run = "none" /\ emitting = Nothing /\ isAgentRunActive
      /\ \A q \in Prompts : Works(q) => q = p
  BY NoRunAfterRun
<1>2. IInv'
  BY ContinueKeeps
<1>3. CASE /\ steeringQueue = <<>> /\ followUpQueue = <<>>
           /\ Settle(p, transcript) /\ UNCHANGED <<queues, runvars>>
  BY <1>3, SettleStrandsNothing
<1>4. ASSUME NEW phase \in {"poll", "inject", "prompts"}, NEW taken \in Seq(Users),
             phase = "prompts" => taken # <<>>,
             Begin(p, phase, taken),
             messages' = transcript, UNCHANGED <<saved, pendingBash, isAgentRunActive>>,
             steeringQueue' \in Seq(Users), followUpQueue' \in Seq(Users)
      PROVE  QInv'
  <2>1. TextOK'
    BY <1>1, <1>4 DEF TextOK, Begin
  <2>2. pc'[p] = "running" /\ \A q \in Prompts \ {p} : ~Works(q) /\ pc'[q] = pc[q]
    BY <1>1, <1>4 DEF Begin, IInv, Works
  <2>3. NotedOK' /\ BegunOK'
    BY <1>1, <1>4, <2>2 DEF NotedOK, BegunOK, Begin, Works
  <2>4. NothingIsStranded'
    BY <1>1, <1>4 DEF NothingIsStranded
  <2> QED
    BY <1>2, <2>1, <2>3, <2>4
<1>5. /\ steeringQueue # <<>> => <<Head(steeringQueue)>> \in Seq(Users) /\ Tail(steeringQueue) \in Seq(Users)
      /\ followUpQueue # <<>> => <<Head(followUpQueue)>> \in Seq(Users) /\ Tail(followUpQueue) \in Seq(Users)
      /\ steeringQueue \in Seq(Users) /\ followUpQueue \in Seq(Users) /\ <<>> \in Seq(Users)
  BY DEF TextOK
<1>6. CASE ~ (steeringQueue = <<>> /\ followUpQueue = <<>> /\ Settle(p, transcript)
              /\ UNCHANGED <<queues, runvars>>)
  <2>1. messages' = transcript /\ UNCHANGED <<saved, pendingBash, isAgentRunActive>>
    BY <1>1, <1>6 DEF Continue
  <2>2. \/ Begin(p, "poll", <<>>) /\ UNCHANGED <<steeringQueue, followUpQueue>>
        \/ /\ steeringQueue # <<>>
           /\ Begin(p, "inject", <<Head(steeringQueue)>>)
           /\ steeringQueue' = Tail(steeringQueue) /\ UNCHANGED followUpQueue
        \/ /\ followUpQueue # <<>>
           /\ Begin(p, "prompts", <<Head(followUpQueue)>>)
           /\ followUpQueue' = Tail(followUpQueue) /\ UNCHANGED steeringQueue
    BY <1>1, <1>6 DEF Continue
  <2> QED
    BY <1>4, <1>5, <2>1, <2>2
<1> QED
  BY <1>3, <1>6

LEMMA GoOnStrandsNothing ==
  ASSUME QInv, NEW p \in Prompts, NEW transcript, Works(p), pc[p] # "running",
         Said(transcript), transcript # <<>>, GoOn(p, transcript),
         UNCHANGED <<events, answers, early>>
  PROVE  QInv'
<1>1. saved # <<>>
  BY DEF QInv, BegunOK
<1>2. CASE steeringQueue # <<>> \/ followUpQueue # <<>>
  BY <1>1, <1>2, ContinueStrandsNothing DEF GoOn
<1>3. CASE steeringQueue = <<>> /\ followUpQueue = <<>>
  BY <1>3, SettleStrandsNothing DEF GoOn
<1> QED
  BY <1>2, <1>3

\* A compaction leaves something of a session that is not empty.
LEMMA RebuiltSaid ==
  ASSUME NEW retry, Said(saved)
  PROVE  Said(Rebuilt(retry)) /\ (saved # <<>> => Rebuilt(retry) # <<>>)
<1>1. CASE Rebuilt(retry) = saved
  BY <1>1
<1>2. CASE Rebuilt(retry) = Front(saved) /\ saved # <<>> /\ Failed(Last(saved))
  <2>1. Last(saved) \notin Words
    BY <1>2 DEF Failed, Failures, Words
  <2> QED
    BY <1>2, <2>1, SaidWithoutLast
<1> QED
  BY <1>1, <1>2 DEF Rebuilt

LEMMA WithoutLastSaid ==
  ASSUME NEW s, Said(s)
  PROVE  Said(WithoutLastAnswer(s)) /\ (s # <<>> => WithoutLastAnswer(s) # <<>>)
<1>1. CASE s # <<>> /\ Last(s).role = "assistant"
  <2>1. Last(s) \notin Words
    BY <1>1 DEF Words
  <2> QED
    BY <1>1, <2>1, SaidWithoutLast DEF WithoutLastAnswer
<1>2. CASE ~ (s # <<>> /\ Last(s).role = "assistant")
  BY <1>2 DEF WithoutLastAnswer
<1> QED
  BY <1>1, <1>2

-----------------------------------------------------------------------------
LEMMA UserStrandsNothing ==
  ASSUME QInv, UserStep
  PROVE  QInv'
<1> USE DEF QInv
<1>1. IInv'
  BY UserStepKeeps
<1>2. /\ UNCHANGED <<run, isAgentRunActive, lastAssistant, emitting, pending>>
      /\ ~Abort => UNCHANGED pc
  BY DEF UserStep, Queue, ClearQueue, RecordBash, Abort, runvars, retryvars
<1>3. CASE Queue
  <2>1. User(Text) \in Users
    BY TextIdent DEF TextOK, User, Users, Words, AnyMessage
  <2>2. /\ \/ steeringQueue' = Append(steeringQueue, User(Text)) /\ UNCHANGED followUpQueue
           \/ followUpQueue' = Append(followUpQueue, User(Text)) /\ UNCHANGED steeringQueue
        /\ events' = events + 1 /\ UNCHANGED <<pc, answers, messages, saved, pendingBash>>
    BY <1>3 DEF Queue, Event, Steered, Followed, texts
  <2>3. \A q \in Seq(Users) : /\ Append(q, User(Text)) \in Seq(Users)
                             /\ Ids(Append(q, User(Text))) \subseteq Ids(q) \cup {User(Text).id}
    BY <2>1 DEF Ids
  <2>4. steeringQueue' \in Seq(Users) /\ followUpQueue' \in Seq(Users)
    BY <2>2, <2>3 DEF TextOK
  <2>5. TextOK'
    BY <1>2, <2>2, <2>4 DEF TextOK
  <2>6. NothingIsStranded'
    <3>1. Ids(steeringQueue') \cup Ids(followUpQueue')
            \subseteq Ids(steeringQueue) \cup Ids(followUpQueue) \cup {User(Text).id}
      BY <2>2, <2>3 DEF TextOK
    <3>2. ~isAgentRunActive => early' = early \cup {User(Text).id}
      BY <1>3 DEF Queue, User
    <3> QED
      BY <1>2, <3>1, <3>2 DEF NothingIsStranded
  <2>7. NotedOK' /\ BegunOK' /\ NothingIsStranded'
    BY <1>2, <2>2, <2>6 DEF NotedOK, BegunOK, Works
  <2> QED
    BY <1>1, <2>5, <2>7
<1>4. CASE ClearQueue
  BY <1>1, <1>2, <1>4 DEF ClearQueue, TextOK, NotedOK, BegunOK, NothingIsStranded, Works, Ids, texts
<1>5. CASE RecordBash
  <2>1. Bash \in Words /\ Bash \in AnyMessage
    BY DEF Bash, TextOK, Words, AnyMessage, Ident
  <2>2. UNCHANGED <<queues, answers, early>> /\ events' = events + 1 /\ UNCHANGED pc
    BY <1>5 DEF RecordBash, Event
  <2>3. \/ pendingBash' = Append(pendingBash, Bash) /\ UNCHANGED <<messages, saved>>
        \/ /\ messages' = Append(messages, Bash) /\ saved' = Append(saved, Bash)
           /\ UNCHANGED pendingBash
    BY <1>5 DEF RecordBash, texts
  <2>4. /\ Said(messages') /\ Said(saved') /\ pendingBash' \in Seq(Words)
        /\ messages # <<>> => messages' # <<>>
        /\ saved # <<>> => saved' # <<>>
    <3>1. Said(Append(messages, Bash)) /\ Append(messages, Bash) # <<>>
      BY <2>1, SaidAppend DEF TextOK
    <3>2. Said(Append(saved, Bash)) /\ Append(saved, Bash) # <<>>
      BY <2>1, SaidAppend DEF TextOK
    <3>3. Append(pendingBash, Bash) \in Seq(Words)
      BY <2>1 DEF TextOK
    <3> QED
      BY <2>3, <3>1, <3>2, <3>3 DEF TextOK
  <2>5. TextOK'
    BY <1>2, <2>2, <2>4 DEF TextOK, queues
  <2>6. BegunOK' /\ NotedOK' /\ NothingIsStranded'
    BY <1>2, <2>2, <2>4 DEF BegunOK, NotedOK, NothingIsStranded, Works, queues
  <2> QED
    BY <1>1, <2>5, <2>6
<1>6. CASE Abort
  <2>1. UNCHANGED <<queues, texts, pendingBash, early, answers>> /\ events' \in Nat
    BY <1>6 DEF Abort, Event, TextOK
  <2>2. \A q \in Prompts : /\ pc'[q] = "postRun" <=> pc[q] = "postRun"
                           /\ Works(q)' /\ pc'[q] # "running" => Works(q) /\ pc[q] # "running"
    BY <1>6 DEF Abort, Works
  <2> QED
    BY <1>1, <1>2, <2>1, <2>2 DEF TextOK, NotedOK, BegunOK, NothingIsStranded, queues, texts
<1> QED
  BY <1>3, <1>4, <1>5, <1>6 DEF UserStep

\* During a run the session is active, and nobody is after one.
LEMMA ActiveDuringRun ==
  ASSUME IInv, run # "none"
  PROVE  isAgentRunActive /\ \A q \in Prompts : Works(q) => pc[q] = "running"
  BY DEF IInv, TurnsOK, OwnerOK, Works

\* The steps of the run that emit, save or ask.
LEMMA EmissionStrandsNothing ==
  ASSUME QInv, EmitTaken \/ Save \/ ModelAnswers \/ ToolEnds
  PROVE  QInv'
<1> USE DEF QInv
<1>1. IInv'
  BY RunStepKeeps DEF RunStep
<1>2. run # "none"
  BY DEF EmitTaken, Save, ModelAnswers, ToolEnds, IInv, EmittingOK
<1>3. UNCHANGED <<pc, isAgentRunActive>> /\ isAgentRunActive /\ \A q \in Prompts : Works(q) => pc[q] = "running"
  <2>1. UNCHANGED <<pc, isAgentRunActive>>
    BY DEF EmitTaken, Save, ModelAnswers, ToolEnds
  <2> QED
    BY <1>2, <2>1, ActiveDuringRun
<1>4. NothingIsStranded'
  BY <1>3 DEF NothingIsStranded
<1>5. UNCHANGED <<steeringQueue, followUpQueue, pendingBash, events>> /\ answers' \in Nat
  BY DEF EmitTaken, Save, ModelAnswers, ToolEnds, queues, counts, TextOK
<1>6. Nothing \notin AnyMessage /\ Nothing \notin Words
  BY DEF Nothing, AnyMessage, Words
<1>7. CASE EmitTaken
  <2>1. Head(pending) \in Users /\ Tail(pending) \in Seq(Users)
    BY <1>7 DEF EmitTaken, TextOK
  <2>2. Head(pending) \in Words /\ Head(pending) \in AnyMessage /\ Head(pending).role = "user"
    BY <2>1 DEF Users, Words
  <2>3. Said(messages') /\ messages' # <<>>
    BY <1>7, <2>2, SaidAppend DEF EmitTaken, TextOK
  <2>4. /\ emitting' = Head(pending) /\ emitting' # Nothing /\ pending' = Tail(pending)
        /\ UNCHANGED <<run, saved, lastAssistant>> /\ run \in {"prompts", "inject"}
    BY <1>6, <1>7, <2>2 DEF EmitTaken
  <2>5. TextOK'
    BY <1>5, <2>1, <2>2, <2>3, <2>4 DEF TextOK
  <2>6. NotedOK' /\ BegunOK'
    BY <1>3, <2>3, <2>4 DEF NotedOK, BegunOK, Works
  <2> QED
    BY <1>1, <1>4, <2>5, <2>6
<1>8. CASE Save
  <2>1. /\ emitting \in AnyMessage
        /\ \/ emitting \in Words /\ emitting.role \in {"user", "toolResult"} /\ emitting.stop = "none"
           \/ emitting.role = "assistant" /\ emitting.stop # "none" /\ run = "answered"
    BY <1>8 DEF Save, TextOK, Words
  <2>2. messages # <<>> /\ (saved # <<>> \/ emitting \in Words)
    BY <1>8, <2>1 DEF Save, BegunOK
  <2>3. /\ Said(saved') /\ saved' # <<>> /\ UNCHANGED <<messages, pending>>
        /\ emitting' = Nothing /\ run' = AfterEmitting(emitting)
    BY <1>8, <2>1, <2>2, SaidAppend DEF Save, TextOK, texts
  <2>4. TextOK'
    BY <1>5, <2>3 DEF TextOK
  <2>5. BegunOK'
    BY <1>3, <2>2, <2>3 DEF BegunOK, Works
  <2>6. NotedOK'
    <3>1. CASE emitting.role \in {"user", "toolResult"} /\ emitting.stop = "none"
      <4>1. lastAssistant' = lastAssistant
        BY <1>8, <3>1 DEF Save
      <4>2. run' = run \/ run' = "poll"
        <5>1. CASE emitting.role = "user"
          BY <2>3, <3>1, <5>1 DEF AfterEmitting
        <5>2. CASE emitting.role = "toolResult"
          BY <2>3, <3>1, <5>2 DEF AfterEmitting
        <5> QED
          BY <3>1, <5>1, <5>2
      <4> QED
        BY <1>3, <4>1, <4>2 DEF NotedOK
    <3>2. CASE emitting.role = "assistant"
      BY <1>3, <1>8, <2>1, <3>2 DEF Save, NotedOK
    <3> QED
      BY <2>1, <3>1, <3>2
  <2> QED
    BY <1>1, <1>4, <2>4, <2>5, <2>6
<1>9. CASE ModelAnswers
  <2>1. PICK stop \in Stops : messages' = Append(messages, Answer(stop)) /\ emitting' = Answer(stop)
    BY <1>9 DEF ModelAnswers, Push
  <2>2. Answer(stop) \in AnyMessage /\ Answer(stop).role = "assistant" /\ Answer(stop).stop # "none"
    BY <2>1 DEF Stops, Answer, AnyMessage, Failures, Ident, TextOK
  <2>3. /\ run' = "answered" /\ run = "inject"
        /\ UNCHANGED <<saved, pending, lastAssistant>>
    BY <1>9 DEF ModelAnswers, retryvars
  <2>4. Said(messages') /\ messages' # <<>> /\ messages # <<>> /\ saved # <<>>
    BY <2>1, <2>2, <2>3, SaidAppend DEF TextOK, BegunOK
  <2>5. TextOK'
    BY <1>5, <2>1, <2>2, <2>3, <2>4 DEF TextOK
  <2>6. NotedOK' /\ BegunOK'
    BY <1>3, <2>3, <2>4 DEF NotedOK, BegunOK, Works
  <2> QED
    BY <1>1, <1>4, <2>5, <2>6
<1>10. CASE ToolEnds
  <2>1. Result \in Words /\ Result \in AnyMessage /\ Result.role # "bash"
    BY DEF Result, Words, AnyMessage, Ident, TextOK
  <2>2. /\ messages' = Append(messages, Result) /\ emitting' = Result /\ run = "tools"
        /\ UNCHANGED <<run, saved, pending, lastAssistant>>
    BY <1>10 DEF ToolEnds, Push, retryvars
  <2>3. Said(messages') /\ messages' # <<>> /\ saved # <<>>
    BY <2>1, <2>2, SaidAppend DEF TextOK, BegunOK
  <2>4. TextOK'
    BY <1>5, <2>1, <2>2, <2>3 DEF TextOK
  <2>5. NotedOK' /\ BegunOK'
    BY <1>3, <2>2, <2>3 DEF NotedOK, BegunOK, Works
  <2> QED
    BY <1>1, <1>4, <2>4, <2>5
<1> QED
  BY <1>7, <1>8, <1>9, <1>10

\* The steps of the run that take what is queued, and its end.
LEMMA PollStrandsNothing ==
  ASSUME QInv, PollBeforeAnswer \/ PollAfterAnswer \/ PollFollowUp \/ FinishRun
  PROVE  QInv'
<1> USE DEF QInv
<1>1. IInv'
  BY RunStepKeeps DEF RunStep
<1>2. run # "none" /\ isAgentRunActive /\ \A q \in Prompts : Works(q) => pc[q] = "running"
  <2>1. run # "none"
    BY DEF PollBeforeAnswer, PollAfterAnswer, PollFollowUp, FinishRun
  <2> QED
    BY <2>1, ActiveDuringRun
<1>3. UNCHANGED <<isAgentRunActive, lastAssistant, messages, saved, emitting, pendingBash, events, answers>>
  BY DEF PollBeforeAnswer, PollAfterAnswer, PollFollowUp, FinishRun, texts, retryvars, counts
<1>4. NothingIsStranded'
  BY <1>2, <1>3 DEF NothingIsStranded
<1>5. messages # <<>> /\ saved # <<>> /\ (emitting = Nothing \/ run = "end")
  BY DEF PollBeforeAnswer, PollAfterAnswer, PollFollowUp, FinishRun, Idling, BegunOK, IInv, EmittingOK
<1>6. \A queue \in Seq(Users) :
        queue # <<>> => <<Head(queue)>> \in Seq(Users) /\ Tail(queue) \in Seq(Users)
  OBVIOUS
<1>7. CASE PollBeforeAnswer \/ PollAfterAnswer \/ PollFollowUp
  <2>1. /\ UNCHANGED pc /\ emitting = Nothing
        /\ run' \in {"pollSteering", "pollFollowUp", "end"} =>
             run \in {"pollSteering", "pollFollowUp", "end"}
    BY <1>7 DEF PollBeforeAnswer, PollAfterAnswer, PollFollowUp, Take, Idling, IInv, EmittingOK
  <2>2. steeringQueue' \in Seq(Users) /\ followUpQueue' \in Seq(Users) /\ pending' \in Seq(Users)
    BY <1>6, <1>7 DEF PollBeforeAnswer, PollAfterAnswer, PollFollowUp, Take, TextOK
  <2>3. TextOK'
    BY <1>3, <2>1, <2>2 DEF TextOK
  <2>4. NotedOK' /\ BegunOK'
    BY <1>2, <1>3, <1>5, <2>1 DEF NotedOK, BegunOK, Works
  <2> QED
    BY <1>1, <1>4, <2>3, <2>4
<1>8. CASE FinishRun
  <2>1. UNCHANGED <<queues, pending>> /\ run' = "none" /\ lastAssistant # "none"
    BY <1>8 DEF FinishRun, NotedOK
  <2>2. TextOK'
    <3>1. emitting = Nothing
      BY <1>8 DEF FinishRun, IInv, EmittingOK
    <3> QED
      BY <1>3, <2>1, <3>1 DEF TextOK, queues
  <2>3. NotedOK' /\ BegunOK'
    BY <1>3, <1>5, <2>1 DEF NotedOK, BegunOK
  <2> QED
    BY <1>1, <1>4, <2>2, <2>3
<1> QED
  BY <1>7, <1>8

-----------------------------------------------------------------------------
\* A call of prompt() before its run, and after it.
LEMMA CallStrandsNothing ==
  ASSUME QInv, ~Overlap, NEW p \in Prompts,
         \/ Prompt(p) \/ PromptWhileStreaming(p) \/ Preflight(p) \/ CompactFirst(p)
         \/ CompactedFirst(p) \/ PromptEndsEarly(p) \/ Launch(p) \/ Settled(p)
  PROVE  QInv'
<1> USE DEF QInv
<1>1. IInv'
  BY PromptKeeps, PromptStepKeeps DEF PromptStep
<1>2. DOMAIN pc = Prompts
  BY DEF IInv
<1>3. CASE Prompt(p) \/ PromptEndsEarly(p) \/ Settled(p)
  <2>1. /\ UNCHANGED <<isAgentRunActive, lastAssistant, queues, texts, pendingBash, early, events, answers>>
        /\ UNCHANGED <<run, pending, emitting>>
    BY <1>3 DEF Prompt, PromptEndsEarly, Settled, retryvars, counts, runvars
  <2>2. /\ pc' = [pc EXCEPT ![p] = "called"] \/ pc' = [pc EXCEPT ![p] = "done"]
        /\ \A q \in Prompts : (Works(q)' => Works(q) /\ pc'[q] = pc[q])
    BY <1>2, <1>3 DEF Prompt, PromptEndsEarly, Settled, Works
  <2>3. TextOK' /\ NothingIsStranded'
    BY <2>1 DEF TextOK, NothingIsStranded, queues, texts
  <2>4. NotedOK' /\ BegunOK'
    BY <1>2, <2>1, <2>2 DEF NotedOK, BegunOK, Works, texts
  <2> QED
    BY <1>1, <2>3, <2>4
<1>4. CASE PromptWhileStreaming(p)
  <2>1. /\ UNCHANGED <<isAgentRunActive, lastAssistant, texts, pendingBash, events, answers>>
        /\ UNCHANGED <<run, pending, emitting>> /\ isAgentRunActive
        /\ pc' = [pc EXCEPT ![p] = "done"]
    BY <1>4 DEF PromptWhileStreaming, retryvars, runvars
  <2>2. User(p) \in Users
    BY DEF User, Users, Words, AnyMessage, Ident
  <2>3. steeringQueue' \in Seq(Users) /\ followUpQueue' \in Seq(Users)
    <3>1. \A q \in Seq(Users) : Append(q, User(p)) \in Seq(Users)
      BY <2>2
    <3>2. /\ steeringQueue' = steeringQueue \/ steeringQueue' = Append(steeringQueue, User(p))
          /\ followUpQueue' = followUpQueue \/ followUpQueue' = Append(followUpQueue, User(p))
      BY <1>4 DEF PromptWhileStreaming, Steered, Followed, queues
    <3> QED
      BY <3>1, <3>2 DEF TextOK
  <2>4. TextOK'
    BY <2>1, <2>3 DEF TextOK, texts
  <2>5. NotedOK' /\ BegunOK' /\ NothingIsStranded'
    BY <1>2, <2>1 DEF NotedOK, BegunOK, NothingIsStranded, Works, texts
  <2> QED
    BY <1>1, <2>4, <2>5
<1>5. CASE Preflight(p)
  <2>1. /\ UNCHANGED <<isAgentRunActive, lastAssistant, queues, early, events, answers>>
        /\ UNCHANGED <<run, pending, emitting>>
        /\ messages' = messages \o pendingBash /\ saved' = saved \o pendingBash /\ pendingBash' = <<>>
        /\ pc' = [pc EXCEPT ![p] = "preflight"]
    BY <1>5 DEF Preflight, FlushPendingBash, retryvars, runvars, counts
  <2>2. /\ Said(messages') /\ (messages # <<>> => messages' # <<>>)
        /\ Said(saved') /\ (saved # <<>> => saved' # <<>>)
    BY <2>1, SaidConcat DEF TextOK
  <2>3. TextOK' /\ NothingIsStranded'
    BY <2>1, <2>2 DEF TextOK, NothingIsStranded, queues
  <2>4. NotedOK' /\ BegunOK'
    BY <1>2, <2>1, <2>2 DEF NotedOK, BegunOK, Works
  <2> QED
    BY <1>1, <2>3, <2>4
<1>6. CASE CompactFirst(p)
  <2>1. /\ UNCHANGED <<isAgentRunActive, lastAssistant, queues, early, events, answers>>
        /\ UNCHANGED <<run, pending, emitting>>
        /\ \/ messages' = messages \o pendingBash
           \/ messages' = WithoutLastAnswer(messages \o pendingBash)
        /\ saved' = saved \o pendingBash /\ pendingBash' = <<>>
        /\ pc' = [pc EXCEPT ![p] = "recoveringFirst"] \/ pc' = [pc EXCEPT ![p] = "trimmingFirst"]
    BY <1>6 DEF CompactFirst, runvars, counts
  <2>2. /\ Said(messages') /\ (messages # <<>> => messages' # <<>>)
        /\ Said(saved') /\ (saved # <<>> => saved' # <<>>)
    BY <2>1, SaidConcat, WithoutLastSaid DEF TextOK
  <2>3. TextOK' /\ NothingIsStranded'
    BY <2>1, <2>2 DEF TextOK, NothingIsStranded, queues
  <2>4. NotedOK' /\ BegunOK'
    BY <1>2, <2>1, <2>2 DEF NotedOK, BegunOK, Works
  <2> QED
    BY <1>1, <2>3, <2>4
<1>7. CASE CompactedFirst(p)
  <2>1. /\ UNCHANGED <<isAgentRunActive, lastAssistant, queues, early, events, answers, saved>>
        /\ UNCHANGED <<run, pending, emitting, pendingBash>>
        /\ messages' = messages \/ \E retry : messages' = Rebuilt(retry)
        /\ pc' = [pc EXCEPT ![p] = "preflight"]
    BY <1>7 DEF CompactedFirst, retryvars, runvars, counts
  <2>2. ~isAgentRunActive /\ \A q \in Prompts : ~Works(q)
    BY <1>7 DEF CompactedFirst, IInv, TurnsOK
  <2>3. run = "none" /\ emitting = Nothing
    BY <2>2 DEF IInv, OwnerOK, EmittingOK, Works
  <2>4. Said(messages')
    BY <2>1, RebuiltSaid DEF TextOK
  <2>5. TextOK' /\ NothingIsStranded'
    BY <2>1, <2>4 DEF TextOK, NothingIsStranded, queues
  <2>6. NotedOK' /\ BegunOK'
    BY <1>2, <2>1, <2>2, <2>3 DEF NotedOK, BegunOK, Works
  <2> QED
    BY <1>1, <2>5, <2>6
<1>8. CASE Launch(p)
  <2>1. ~isAgentRunActive /\ \A q \in Prompts : ~Works(q)
    BY <1>8 DEF Launch, IInv, TurnsOK
  <2>2. run = "none" /\ emitting = Nothing
    BY <2>1 DEF IInv, OwnerOK, EmittingOK, Works
  <2>3. /\ run' = "prompts" /\ pending' = <<User(p)>> /\ pc' = [pc EXCEPT ![p] = "running"]
        /\ UNCHANGED <<emitting, texts, pendingBash, lastAssistant, queues, events, answers>>
        /\ isAgentRunActive' = TRUE
    BY <1>8, <2>2 DEF Launch, Begin, retryvars, counts
  <2>4. User(p) \in Users
    BY DEF User, Users, Words, AnyMessage, Ident
  <2>5. pending' \in Seq(Users) /\ pending' # <<>>
    BY <2>3, <2>4
  <2>6. TextOK'
    BY <2>2, <2>3, <2>5 DEF TextOK, texts, queues
  <2>7. NotedOK' /\ BegunOK' /\ NothingIsStranded'
    BY <1>2, <2>1, <2>2, <2>3, <2>5 DEF NotedOK, BegunOK, NothingIsStranded, Works
  <2> QED
    BY <1>1, <2>6, <2>7
<1> QED
  BY <1>3, <1>4, <1>5, <1>6, <1>7, <1>8

\* A retry and an overflow's recovery take the failed answer out of the
\* transcript, and leave what it answered.
LEMMA RetryStrandsNothing ==
  ASSUME QInv, NEW p \in Prompts, Retry(p) \/ Recover(p) \/ Trim(p)
  PROVE  QInv'
<1> USE DEF QInv
<1>1. IInv'
  BY PromptStepKeeps DEF PromptStep
<1>2. pc[p] = "postRun" /\ Works(p) /\ DOMAIN pc = Prompts
  BY DEF Retry, Recover, Trim, Works, IInv
<1>3. /\ run = "none" /\ emitting = Nothing /\ isAgentRunActive
      /\ \A q \in Prompts : Works(q) => q = p
  BY <1>2, NoRunAfterRun
<1>4. /\ messages' = WithoutLastAnswer(messages) \/ messages' = messages
      /\ UNCHANGED <<queues, saved, pendingBash, isAgentRunActive, events, answers, run, pending, emitting>>
      /\ \E next \in {"backoff", "compacting", "trimming"} : pc' = [pc EXCEPT ![p] = next]
  BY DEF Retry, Recover, Trim, runvars, counts, texts
<1>5. Said(messages) /\ messages # <<>> /\ saved # <<>>
  BY <1>2 DEF TextOK, BegunOK
<1>6. Said(messages') /\ messages' # <<>>
  BY <1>4, <1>5, WithoutLastSaid
<1>7. TextOK'
  BY <1>3, <1>4, <1>6 DEF TextOK, queues
<1>8. NotedOK' /\ BegunOK' /\ NothingIsStranded'
  BY <1>2, <1>3, <1>4, <1>5, <1>6 DEF NotedOK, BegunOK, NothingIsStranded, Works
<1> QED
  BY <1>1, <1>7, <1>8

\* Where the session looks at what is queued.
LEMMA AfterRunStrandsNothing ==
  ASSUME QInv, NEW p \in Prompts,
         Conclude(p) \/ BackoffEnds(p) \/ RetryCancelled(p) \/ CompactionEnds(p)
  PROVE  QInv'
<1> USE DEF QInv
<1>1. Works(p) /\ pc[p] # "running"
  BY DEF Conclude, BackoffEnds, RetryCancelled, CompactionEnds, Works
<1>2. Said(messages) /\ messages # <<>> /\ Said(saved) /\ saved # <<>>
  BY <1>1 DEF TextOK, BegunOK
<1>3. UNCHANGED <<events, answers, early>>
  BY DEF Conclude, BackoffEnds, RetryCancelled, CompactionEnds, counts
<1>4. CASE Conclude(p)
  BY <1>1, <1>2, <1>3, <1>4, GoOnStrandsNothing DEF Conclude, NotedOK
<1>5. CASE BackoffEnds(p)
  BY <1>1, <1>2, <1>3, <1>5, ContinueStrandsNothing DEF BackoffEnds
<1>6. CASE RetryCancelled(p)
  BY <1>1, <1>2, <1>3, <1>6, GoOnStrandsNothing DEF RetryCancelled
<1>7. CASE CompactionEnds(p)
  <2>1. \E transcript \in {messages, Rebuilt(TRUE), Rebuilt(FALSE)} :
          Continue(p, transcript) \/ GoOn(p, transcript)
    BY <1>7 DEF CompactionEnds
  <2>2. \A transcript \in {messages, Rebuilt(TRUE), Rebuilt(FALSE)} :
          Said(transcript) /\ transcript # <<>>
    BY <1>2, RebuiltSaid
  <2> QED
    BY <1>1, <1>2, <1>3, <2>1, <2>2, ContinueStrandsNothing, GoOnStrandsNothing
<1> QED
  BY <1>4, <1>5, <1>6, <1>7

LEMMA InitQInv == Init => QInv
<1> SUFFICES ASSUME Init PROVE QInv
  OBVIOUS
<1>1. IInv
  BY InitIInv
<1>2. TextOK
  <2>1. Said(<<>>)
    BY DEF Said
  <2>2. Said(Opened)
    <3>1. User(NoPrompt) \in Words /\ Words \subseteq AnyMessage
      BY DEF User, NoPrompt, Words, AnyMessage, Ident
    <3>2. [role |-> "assistant", id |-> 0, stop |-> "overflow"] \in AnyMessage
      BY DEF AnyMessage, Ident, Failures
    <3> QED
      BY <3>1, <3>2 DEF Opened, Said
  <2> QED
    BY <2>1, <2>2 DEF Init, TextOK
<1>3. NotedOK /\ BegunOK /\ NothingIsStranded
  BY DEF Init, NotedOK, BegunOK, NothingIsStranded, Works, Ids
<1> QED
  BY <1>1, <1>2, <1>3 DEF QInv

LEMMA NextQInv ==
  ASSUME QInv, ~Overlap, [Next]_vars PROVE QInv'
<1>1. CASE UNCHANGED vars
  <2>1. IInv'
    BY <1>1 DEF vars, runvars, QInv, IInv, TurnsOK, OwnerOK, EmittingOK, Works, Preparing, CompactingFirst
  <2>2. TextOK' /\ NotedOK' /\ BegunOK' /\ NothingIsStranded'
    BY <1>1 DEF vars, runvars, queues, texts, retryvars, counts, QInv, TextOK, NotedOK, BegunOK,
                NothingIsStranded, Works
  <2> QED
    BY <2>1, <2>2 DEF QInv
<1>2. CASE UserStep
  BY <1>2, UserStrandsNothing
<1>3. CASE RunStep
  BY <1>3, EmissionStrandsNothing, PollStrandsNothing DEF RunStep
<1>4. ASSUME NEW p \in Prompts, Prompt(p) \/ PromptStep(p) PROVE QInv'
  BY <1>4, CallStrandsNothing, RetryStrandsNothing, AfterRunStrandsNothing DEF PromptStep
<1> QED
  BY <1>1, <1>2, <1>3, <1>4 DEF Next

\* When the session is idle nothing waits in the queues that was queued while it
\* was not (_handlePostAgentRun goes on for what a run left), for any number of
\* prompts, retries and events, provided that prompt() is not called while
\* another call of it prepares its run.
THEOREM NothingLeftWaiting ==
  ASSUME ~Overlap
  PROVE  Spec => []NothingIsStranded
<1>1. QInv /\ [Next]_vars => QInv'
  BY NextQInv
<1>2. QInv => NothingIsStranded
  BY DEF QInv
<1> QED
  BY InitQInv, <1>1, <1>2, PTL DEF Spec


-----------------------------------------------------------------------------
(* What is queued and what is shown.                                       *)

Waiting(queue) == [i \in DOMAIN queue |-> queue[i].id]

Distinct(queue) == \A i, j \in DOMAIN queue : queue[i].id = queue[j].id => i = j

\* The numbers that were given to messages so far.
Spent ==
  {p \in Prompts : pc[p] \notin {"idle", "called", "preflight", "trimmingFirst", "recoveringFirst"}}
    \cup {n \in Nat : Cardinality(Prompts) < n /\ n <= Cardinality(Prompts) + events}

\* The display of a queue, alone or after a message that the loop has taken.
Just(display, queue) == display = Waiting(queue)
After(id, display, queue) == display = <<id>> \o Waiting(queue)

\* The loop takes one message at a time.
TakenOK ==
  pending # <<>> =>
    /\ emitting = Nothing /\ run \in {"prompts", "inject"} /\ Len(pending) = 1
    /\ pending[1].id \notin Ids(steeringQueue) \cup Ids(followUpQueue)

NumbersOK ==
  /\ Distinct(steeringQueue) /\ Distinct(followUpQueue)
  /\ Ids(steeringQueue) \cap Ids(followUpQueue) = {}
  /\ Ids(steeringQueue) \cup Ids(followUpQueue) \cup Ids(pending) \subseteq Spent

DisplayOK ==
  \/ Just(steeringMessages, steeringQueue) /\ Just(followUpMessages, followUpQueue)
  \/ /\ pending # <<>>
     /\ After(pending[1].id, steeringMessages, steeringQueue)
     /\ Just(followUpMessages, followUpQueue)
  \/ /\ pending # <<>>
     /\ Just(steeringMessages, steeringQueue)
     /\ After(pending[1].id, followUpMessages, followUpQueue)

FlowOK == TakenOK /\ NumbersOK /\ DisplayOK

\* The session has the user's messages that the transcript has.
SavedOK ==
  \A m \in Range(messages) : m.role = "user" => m = emitting \/ m \in Range(saved)

-----------------------------------------------------------------------------
LEMMA SpentGrows ==
  ASSUME DOMAIN pc = Prompts, events \in Nat, UNCHANGED events \/ events' = events + 1,
         \A p \in Prompts :
           pc[p] \notin {"idle", "called", "preflight", "trimmingFirst", "recoveringFirst"} =>
             pc'[p] \notin {"idle", "called", "preflight", "trimmingFirst", "recoveringFirst"}
  PROVE  Spent \subseteq Spent'
<1>1. Cardinality(Prompts) \in Nat
  BY PromptsAssumption, FS_CardinalityType
<1> QED
  BY <1>1 DEF Spent

LEMMA QueueAppend ==
  ASSUME NEW q \in Seq(Users), NEW id, User(id) \in Users
  PROVE  /\ Append(q, User(id)) \in Seq(Users)
         /\ Ids(Append(q, User(id))) = Ids(q) \cup {id}
         /\ Distinct(q) /\ id \notin Ids(q) => Distinct(Append(q, User(id)))
         /\ \A d : Just(d, q) => Just(Append(d, id), Append(q, User(id)))
         /\ \A d, x : After(x, d, q) => After(x, Append(d, id), Append(q, User(id)))
<1> DEFINE r == Append(q, User(id))
<1>1. /\ r \in Seq(Users) /\ Len(r) = Len(q) + 1 /\ Len(q) \in Nat
      /\ DOMAIN r = 1 .. Len(q) + 1 /\ DOMAIN q = 1 .. Len(q)
      /\ \A i \in 1 .. Len(q) : r[i] = q[i]
      /\ r[Len(q) + 1] = User(id)
  OBVIOUS
<1> HIDE DEF r
<1>2. User(id).id = id
  BY DEF User
<1>3. Ids(r) = Ids(q) \cup {id}
  BY <1>1, <1>2 DEF Ids
<1>4. ASSUME Distinct(q), id \notin Ids(q) PROVE Distinct(r)
  BY <1>1, <1>2, <1>4 DEF Distinct, Ids
<1>5. Waiting(q) \in Seq({u.id : u \in Users}) /\ Waiting(r) \in Seq({u.id : u \in Users})
  BY <1>1 DEF Waiting
<1>6. Waiting(r) = Append(Waiting(q), id)
  BY <1>1, <1>2, <1>5 DEF Waiting
<1>7. \A x : <<x>> \o Append(Waiting(q), id) = Append(<<x>> \o Waiting(q), id)
  BY <1>5
<1> QED
  BY <1>1, <1>3, <1>4, <1>6, <1>7 DEF Just, After, r


LEMMA QueueTake ==
  ASSUME NEW q \in Seq(Users), q # <<>>
  PROVE  /\ Tail(q) \in Seq(Users) /\ <<Head(q)>> \in Seq(Users)
         /\ Ids(q) = Ids(Tail(q)) \cup {Head(q).id} /\ Ids(<<Head(q)>>) = {Head(q).id}
         /\ Distinct(q) => Distinct(Tail(q)) /\ Head(q).id \notin Ids(Tail(q))
         /\ \A d : Just(d, q) => After(Head(q).id, d, Tail(q))
<1> DEFINE r == Tail(q)
<1>1. /\ r \in Seq(Users) /\ Len(r) = Len(q) - 1 /\ Len(q) \in Nat \ {0}
      /\ DOMAIN r = 1 .. Len(q) - 1 /\ DOMAIN q = 1 .. Len(q)
      /\ \A i \in 1 .. Len(q) - 1 : r[i] = q[i + 1]
      /\ Head(q) = q[1] /\ q[1] \in Users
  OBVIOUS
<1> HIDE DEF r
<1>2. Ids(q) = Ids(r) \cup {q[1].id}
  <2>1. \A i \in 1 .. Len(q) : i = 1 \/ (i - 1 \in 1 .. Len(q) - 1 /\ q[i] = r[i - 1])
    BY <1>1
  <2>2. \A i \in 1 .. Len(q) - 1 : i + 1 \in 1 .. Len(q)
    BY <1>1
  <2>3. 1 \in 1 .. Len(q)
    BY <1>1
  <2>4. ASSUME NEW x \in Ids(q) PROVE x \in Ids(r) \cup {q[1].id}
    <3>1. PICK i \in 1 .. Len(q) : x = q[i].id
      BY <1>1, <2>4 DEF Ids
    <3>2. CASE i = 1
      BY <3>1, <3>2
    <3>3. CASE i - 1 \in DOMAIN r /\ q[i] = r[i - 1]
      BY <3>1, <3>3, Zenon DEF Ids
    <3> QED
      BY <1>1, <2>1, <3>2, <3>3
  <2>5. ASSUME NEW x \in Ids(r) \cup {q[1].id} PROVE x \in Ids(q)
    BY <1>1, <2>2, <2>3 DEF Ids
  <2> QED
    BY <2>4, <2>5
<1>3. ASSUME Distinct(q) PROVE Distinct(r) /\ q[1].id \notin Ids(r)
  <2>1. \A i \in 1 .. Len(q) - 1 : i + 1 \in 1 .. Len(q) /\ i + 1 # 1
    BY <1>1
  <2>2. q[1].id \notin Ids(r)
    BY <1>1, <1>3, <2>1 DEF Distinct, Ids
  <2>3. Distinct(r)
    <3>1. ASSUME NEW i \in DOMAIN r, NEW j \in DOMAIN r, r[i].id = r[j].id PROVE i = j
      <4>1. q[i + 1].id = q[j + 1].id /\ i + 1 \in DOMAIN q /\ j + 1 \in DOMAIN q
        BY <1>1, <2>1, <3>1
      <4>2. i + 1 = j + 1
        BY <1>3, <4>1, Zenon DEF Distinct
      <4> QED
        BY <1>1, <4>2
    <3> QED
      BY <3>1 DEF Distinct
  <2> QED
    BY <2>2, <2>3
<1>4. Ids(<<Head(q)>>) = {Head(q).id}
  BY DEF Ids
<1>5. Waiting(q) = <<q[1].id>> \o Waiting(r)
  <2>1. Waiting(q) \in Seq({u.id : u \in Users}) /\ Waiting(r) \in Seq({u.id : u \in Users})
    BY <1>1 DEF Waiting
  <2>2. /\ Len(Waiting(q)) = Len(q) /\ Len(Waiting(r)) = Len(q) - 1
        /\ \A i \in 1 .. Len(q) : Waiting(q)[i] = q[i].id
        /\ \A i \in 1 .. Len(q) - 1 : Waiting(r)[i] = q[i + 1].id
    BY <1>1 DEF Waiting
  <2> QED
    BY <1>1, <2>1, <2>2
<1> QED
  BY <1>1, <1>2, <1>3, <1>4, <1>5 DEF Just, After, r

\* A message that the loop emits leaves the display, wherever it is.
LEMMA DisplayEmits ==
  ASSUME NEW q \in Seq(Users), NEW x, x \notin Ids(q), NEW d
  PROVE  /\ Just(d, q) => Range(d) = Ids(q) /\ x \notin Range(d) /\ Just(RemoveFirst(d, x), q)
         /\ After(x, d, q) => /\ Range(d) = Ids(q) \cup {x} /\ x \in Range(d)
                              /\ Just(RemoveFirst(d, x), q)
<1> DEFINE w == Waiting(q)
           S == {u.id : u \in Users} \cup {x}
<1>1. /\ w \in Seq(S) /\ Len(w) = Len(q) /\ Len(q) \in Nat
      /\ DOMAIN w = 1 .. Len(q) /\ DOMAIN q = 1 .. Len(q)
      /\ \A i \in 1 .. Len(q) : w[i] = q[i].id
  BY DEF Waiting
<1>2. Ids(q) = {w[i] : i \in 1 .. Len(q)}
  BY <1>1 DEF Ids
<1>3. ASSUME Just(d, q) PROVE Range(d) = Ids(q) /\ x \notin Range(d) /\ Just(RemoveFirst(d, x), q)
  <2>1. d = w
    BY <1>3 DEF Just
  <2>2. Range(d) = Ids(q)
    BY <1>1, <1>2, <2>1 DEF Range
  <2>3. ~ \E i \in 1 .. Len(d) : d[i] = x
    BY <1>1, <1>2, <2>1
  <2>4. RemoveFirst(d, x) = d
    BY <2>3, Zenon DEF RemoveFirst
  <2> QED
    BY <1>3, <2>2, <2>4
<1>4. ASSUME After(x, d, q)
      PROVE  /\ Range(d) = Ids(q) \cup {x} /\ x \in Range(d)
             /\ Just(RemoveFirst(d, x), q)
  <2>1. d = <<x>> \o w
    BY <1>4 DEF After
  <2> HIDE DEF w, S
  <2>2. x \in S
    BY DEF S
  <2>3. /\ d \in Seq(S) /\ Len(d) = Len(q) + 1 /\ DOMAIN d = 1 .. Len(q) + 1
        /\ d[1] = x /\ \A i \in 1 .. Len(q) : d[i + 1] = w[i]
    BY <1>1, <2>1, <2>2
  <2>4. Range(d) = Ids(q) \cup {x}
    <3>1. \A i \in 1 .. Len(q) + 1 : i = 1 \/ (i - 1 \in 1 .. Len(q) /\ d[i] = w[i - 1])
      BY <1>1, <2>3
    <3>2. \A i \in 1 .. Len(q) : i + 1 \in 1 .. Len(q) + 1
      BY <1>1
    <3>3. 1 \in 1 .. Len(q) + 1
      BY <1>1
    <3> QED
      BY <1>2, <2>3, <3>1, <3>2, <3>3 DEF Range
  <2>5. SelectInSeq(d, LAMBDA v : v = x) = 1
    <3> DEFINE I == {i \in 1 .. Len(d) : d[i] = x}
    <3>1. 1 \in I /\ \A i \in I : 1 <= i
      BY <1>1, <2>3
    <3>2. SelectInSeq(d, LAMBDA v : v = x) = IF I # {} THEN Min(I) ELSE 0
      BY DEF SelectInSeq
    <3> HIDE DEF I
    <3>3. Min(I) = 1
      <4>1. \E i \in I : \A j \in I : i <= j
        BY <3>1
      <4>2. Min(I) \in I /\ \A j \in I : Min(I) <= j
        BY <4>1, Zenon DEF Min
      <4>3. I \subseteq Nat
        BY DEF I
      <4>4. \A m \in I : (\A j \in I : m <= j) => m = 1
        BY <3>1, <4>3
      <4> QED
        BY <4>2, <4>4, Zenon
    <3> QED
      BY <3>1, <3>2, <3>3
  <2>6. RemoveFirst(d, x) = RemoveAt(d, 1)
    <3>1. \E i \in 1 .. Len(d) : d[i] = x
      BY <1>1, <2>3
    <3> QED
      BY <2>5, <3>1, Zenon DEF RemoveFirst
  <2>7. RemoveAt(d, 1) = w
    <3>1. RemoveAt(d, 1) = SubSeq(d, 1, 0) \o SubSeq(d, 2, Len(d))
      BY DEF RemoveAt
    <3>2. SubSeq(d, 1, 0) = <<>>
      BY <2>3
    <3>3. SubSeq(d, 2, Len(d)) = w
      BY <1>1, <2>3
    <3> QED
      BY <1>1, <3>1, <3>2, <3>3
  <2> QED
    BY <2>3, <2>4, <2>6, <2>7 DEF Just, w
<1> QED
  BY <1>3, <1>4


\* A message is queued and shown.
LEMMA EnqueueFlow ==
  ASSUME TextOK, FlowOK, NEW id, User(id) \in Users, id \notin Spent, id \in Spent',
         Spent \subseteq Spent', Steered(id) \/ Followed(id), UNCHANGED <<pending, emitting, run>>
  PROVE  FlowOK'
<1>1. steeringQueue \in Seq(Users) /\ followUpQueue \in Seq(Users) /\ pending \in Seq(Users)
  BY DEF TextOK
<1>2. /\ id \notin Ids(steeringQueue) \cup Ids(followUpQueue) \cup Ids(pending)
      /\ pending # <<>> => pending[1].id \in Ids(pending)
  BY <1>1 DEF FlowOK, NumbersOK, Ids
<1>3. \/ /\ steeringQueue' = Append(steeringQueue, User(id))
         /\ steeringMessages' = Append(steeringMessages, id)
         /\ UNCHANGED <<followUpMessages, followUpQueue>>
      \/ /\ followUpQueue' = Append(followUpQueue, User(id))
         /\ followUpMessages' = Append(followUpMessages, id)
         /\ UNCHANGED <<steeringMessages, steeringQueue>>
  BY DEF Steered, Followed
<1>4. /\ Distinct(steeringQueue)' /\ Distinct(followUpQueue)'
      /\ Ids(steeringQueue) \subseteq Ids(steeringQueue)'
      /\ Ids(followUpQueue) \subseteq Ids(followUpQueue)'
      /\ Ids(steeringQueue)' \cup Ids(followUpQueue)'
           = Ids(steeringQueue) \cup Ids(followUpQueue) \cup {id}
      /\ Ids(steeringQueue)' \cap Ids(followUpQueue)' = {}
  <2>1. CASE /\ steeringQueue' = Append(steeringQueue, User(id))
             /\ UNCHANGED <<followUpMessages, followUpQueue>>
    BY <1>1, <1>2, <2>1, QueueAppend DEF FlowOK, NumbersOK
  <2>2. CASE /\ followUpQueue' = Append(followUpQueue, User(id))
             /\ UNCHANGED <<steeringMessages, steeringQueue>>
    BY <1>1, <1>2, <2>2, QueueAppend DEF FlowOK, NumbersOK
  <2> QED
    BY <1>3, <2>1, <2>2
<1>5. NumbersOK'
  BY <1>4 DEF FlowOK, NumbersOK
<1>6. TakenOK'
  BY <1>2, <1>4 DEF FlowOK, TakenOK
<1>7. DisplayOK'
  <2>1. /\ \A d : Just(d, steeringQueue) => Just(Append(d, id), Append(steeringQueue, User(id)))
        /\ \A d : Just(d, followUpQueue) => Just(Append(d, id), Append(followUpQueue, User(id)))
        /\ \A d, x : After(x, d, steeringQueue) =>
                       After(x, Append(d, id), Append(steeringQueue, User(id)))
        /\ \A d, x : After(x, d, followUpQueue) =>
                       After(x, Append(d, id), Append(followUpQueue, User(id)))
    BY <1>1, QueueAppend
  <2> QED
    BY <1>3, <2>1 DEF FlowOK, DisplayOK
<1> QED
  BY <1>5, <1>6, <1>7 DEF FlowOK

\* The loop takes the first message of a queue.
LEMMA TakeFlow ==
  ASSUME TextOK, FlowOK, pending = <<>>, emitting' = Nothing, run' \in {"prompts", "inject"},
         Spent \subseteq Spent', UNCHANGED <<steeringMessages, followUpMessages>>,
         \/ /\ steeringQueue # <<>> /\ pending' = <<Head(steeringQueue)>>
            /\ steeringQueue' = Tail(steeringQueue) /\ UNCHANGED followUpQueue
         \/ /\ followUpQueue # <<>> /\ pending' = <<Head(followUpQueue)>>
            /\ followUpQueue' = Tail(followUpQueue) /\ UNCHANGED steeringQueue
  PROVE  FlowOK'
<1>1. steeringQueue \in Seq(Users) /\ followUpQueue \in Seq(Users)
  BY DEF TextOK
<1>2. pending' # <<>> /\ Len(pending') = 1
  OBVIOUS
<1>3. CASE /\ steeringQueue # <<>> /\ pending' = <<Head(steeringQueue)>>
           /\ steeringQueue' = Tail(steeringQueue) /\ UNCHANGED followUpQueue
  <2> DEFINE x == Head(steeringQueue).id
  <2>1. pending'[1].id = x /\ Ids(pending') = {x}
    BY <1>1, <1>3, QueueTake
  <2>2. /\ Ids(steeringQueue) = Ids(steeringQueue') \cup {x}
        /\ Distinct(steeringQueue') /\ x \notin Ids(steeringQueue')
        /\ \A d : Just(d, steeringQueue) => After(x, d, steeringQueue')
    BY <1>1, <1>3, QueueTake DEF FlowOK, NumbersOK
  <2> HIDE DEF x
  <2>3. NumbersOK' /\ x \notin Ids(followUpQueue')
    BY <1>3, <2>1, <2>2 DEF FlowOK, NumbersOK
  <2>4. TakenOK'
    BY <1>2, <2>1, <2>2, <2>3 DEF TakenOK
  <2>5. DisplayOK'
    BY <1>2, <1>3, <2>1, <2>2 DEF FlowOK, DisplayOK
  <2> QED
    BY <2>3, <2>4, <2>5 DEF FlowOK
<1>4. CASE /\ followUpQueue # <<>> /\ pending' = <<Head(followUpQueue)>>
           /\ followUpQueue' = Tail(followUpQueue) /\ UNCHANGED steeringQueue
  <2> DEFINE x == Head(followUpQueue).id
  <2>1. pending'[1].id = x /\ Ids(pending') = {x}
    BY <1>1, <1>4, QueueTake
  <2>2. /\ Ids(followUpQueue) = Ids(followUpQueue') \cup {x}
        /\ Distinct(followUpQueue') /\ x \notin Ids(followUpQueue')
        /\ \A d : Just(d, followUpQueue) => After(x, d, followUpQueue')
    BY <1>1, <1>4, QueueTake DEF FlowOK, NumbersOK
  <2> HIDE DEF x
  <2>3. NumbersOK' /\ x \notin Ids(steeringQueue')
    BY <1>4, <2>1, <2>2 DEF FlowOK, NumbersOK
  <2>4. TakenOK'
    BY <1>2, <2>1, <2>2, <2>3 DEF TakenOK
  <2>5. DisplayOK'
    BY <1>2, <1>4, <2>1, <2>2 DEF FlowOK, DisplayOK
  <2> QED
    BY <2>3, <2>4, <2>5 DEF FlowOK
<1> QED
  BY <1>3, <1>4

\* What is taken first is emitted and leaves the display.
LEMMA EmitFlow ==
  ASSUME TextOK, FlowOK, Spent \subseteq Spent', EmitTaken
  PROVE  FlowOK' /\ pending' = <<>>
<1>1. steeringQueue \in Seq(Users) /\ followUpQueue \in Seq(Users) /\ pending \in Seq(Users)
  BY DEF TextOK
<1>2. /\ pending # <<>> /\ pending' = Tail(pending) /\ UNCHANGED <<steeringQueue, followUpQueue>>
      /\ IF Head(pending).id \in Range(steeringMessages)
           THEN /\ steeringMessages' = RemoveFirst(steeringMessages, Head(pending).id)
                /\ UNCHANGED followUpMessages
           ELSE /\ followUpMessages' = RemoveFirst(followUpMessages, Head(pending).id)
                /\ UNCHANGED steeringMessages
  BY Zenon DEF EmitTaken
<1> DEFINE x == Head(pending).id
<1>3. /\ Len(pending) = 1 /\ pending[1].id = x
      /\ x \notin Ids(steeringQueue) /\ x \notin Ids(followUpQueue)
  BY <1>1, <1>2 DEF FlowOK, TakenOK
<1>4. pending' = <<>>
  BY <1>1, <1>2, <1>3
<1> HIDE DEF x
<1>5. NumbersOK'
  <2>1. Ids(pending') = {}
    BY <1>4 DEF Ids
  <2> QED
    BY <1>2, <2>1 DEF FlowOK, NumbersOK
<1>6. DisplayOK'
  <2>1. IF x \in Range(steeringMessages)
          THEN steeringMessages' = RemoveFirst(steeringMessages, x) /\ UNCHANGED followUpMessages
          ELSE followUpMessages' = RemoveFirst(followUpMessages, x) /\ UNCHANGED steeringMessages
    BY <1>2 DEF x
  <2>2. CASE Just(steeringMessages, steeringQueue) /\ Just(followUpMessages, followUpQueue)
    BY <1>1, <1>2, <1>3, <2>1, <2>2, DisplayEmits DEF DisplayOK
  <2>3. CASE After(x, steeringMessages, steeringQueue) /\ Just(followUpMessages, followUpQueue)
    BY <1>1, <1>2, <1>3, <2>1, <2>3, DisplayEmits DEF DisplayOK
  <2>4. CASE Just(steeringMessages, steeringQueue) /\ After(x, followUpMessages, followUpQueue)
    BY <1>1, <1>2, <1>3, <2>1, <2>4, DisplayEmits DEF DisplayOK
  <2> QED
    BY <1>3, <2>2, <2>3, <2>4 DEF FlowOK, DisplayOK
<1>7. TakenOK'
  BY <1>4 DEF TakenOK
<1> QED
  BY <1>4, <1>5, <1>6, <1>7 DEF FlowOK

\* Nothing is queued or taken.
LEMMA QuietFlow ==
  ASSUME FlowOK, Spent \subseteq Spent', UNCHANGED <<queues, pending>>,
         pending # <<>> => emitting' = Nothing /\ run' \in {"prompts", "inject"}
  PROVE  FlowOK'
<1>1. UNCHANGED <<steeringMessages, followUpMessages, steeringQueue, followUpQueue, pending>>
  BY DEF queues
<1>2. TakenOK' /\ NumbersOK'
  BY <1>1 DEF FlowOK, TakenOK, NumbersOK
<1>3. DisplayOK'
  BY <1>1 DEF FlowOK, DisplayOK
<1> QED
  BY <1>2, <1>3 DEF FlowOK

LEMMA ClearFlow ==
  ASSUME FlowOK, Spent \subseteq Spent', ClearQueue
  PROVE  FlowOK'
<1>1. /\ steeringMessages' = <<>> /\ followUpMessages' = <<>>
      /\ steeringQueue' = <<>> /\ followUpQueue' = <<>> /\ UNCHANGED <<run, emitting, pending>>
  BY DEF ClearQueue, runvars
<1>2. Ids(<<>>) = {} /\ Distinct(<<>>)
  BY DEF Ids, Distinct
<1>3. Just(<<>>, <<>>)
  BY DEF Just, Waiting
<1> QED
  BY <1>1, <1>2, <1>3 DEF FlowOK, TakenOK, NumbersOK, DisplayOK

\* A run begins with its prompt.
LEMMA LaunchFlow ==
  ASSUME FlowOK, NEW p, p \notin Spent, p \in Spent', Spent \subseteq Spent', UNCHANGED queues,
         pending = <<>>, pending' = <<User(p)>>, emitting' = Nothing, run' = "prompts"
  PROVE  FlowOK'
<1>1. UNCHANGED <<steeringMessages, followUpMessages, steeringQueue, followUpQueue>>
  BY DEF queues
<1>2. Ids(pending') = {p} /\ Len(pending') = 1 /\ pending'[1].id = p
  BY DEF Ids, User
<1>3. NumbersOK' /\ TakenOK'
  BY <1>1, <1>2 DEF FlowOK, NumbersOK, TakenOK
<1>4. DisplayOK'
  BY <1>1 DEF FlowOK, DisplayOK
<1> QED
  BY <1>3, <1>4 DEF FlowOK


-----------------------------------------------------------------------------
\* The user's messages of a transcript.
UsersIn(s) == {m \in Range(s) : m.role = "user"}

\* Where a queued message may be.
Reached ==
  Ids(steeringQueue) \cup Ids(followUpQueue) \cup Ids(pending)
    \cup {m.id : m \in UsersIn(messages)} \cup returned

KeptInv == FlowOK /\ SavedOK /\ NothingQueuedIsLost

LEMMA KeptIs ==
  /\ SavedOK <=> UsersIn(messages) \subseteq UsersIn(saved) \cup {emitting}
  /\ NothingQueuedIsLost <=> queued \subseteq Reached
<1>1. SavedOK <=> UsersIn(messages) \subseteq UsersIn(saved) \cup {emitting}
  BY DEF SavedOK, UsersIn
<1>2. NothingQueuedIsLost <=> queued \subseteq Reached
  BY DEF NothingQueuedIsLost, Reached, UsersIn
<1> QED
  BY <1>1, <1>2

LEMMA KeptIsNext ==
  /\ SavedOK' <=> UsersIn(messages') \subseteq UsersIn(saved') \cup {emitting'}
  /\ NothingQueuedIsLost' <=> queued' \subseteq Reached'
<1>1. SavedOK' <=> UsersIn(messages') \subseteq UsersIn(saved') \cup {emitting'}
  BY DEF SavedOK, UsersIn
<1>2. NothingQueuedIsLost' <=> queued' \subseteq Reached'
  BY DEF NothingQueuedIsLost, Reached, UsersIn
<1> QED
  BY <1>1, <1>2

LEMMA UsersAppend ==
  ASSUME NEW s \in Seq(AnyMessage), NEW m \in AnyMessage
  PROVE  UsersIn(Append(s, m)) = UsersIn(s) \cup (IF m.role = "user" THEN {m} ELSE {})
<1>1. /\ DOMAIN Append(s, m) = 1 .. Len(s) + 1 /\ DOMAIN s = 1 .. Len(s) /\ Len(s) \in Nat
      /\ \A i \in 1 .. Len(s) : Append(s, m)[i] = s[i]
      /\ Append(s, m)[Len(s) + 1] = m
  OBVIOUS
<1>2. Range(Append(s, m)) = Range(s) \cup {m}
  BY <1>1 DEF Range
<1> QED
  BY <1>2 DEF UsersIn

LEMMA UsersConcat ==
  ASSUME NEW s \in Seq(AnyMessage), NEW t \in Seq(AnyMessage)
  PROVE  UsersIn(s \o t) = UsersIn(s) \cup UsersIn(t)
<1>1. Range(s \o t) = Range(s) \cup Range(t)
  <2>1. /\ DOMAIN s = 1 .. Len(s) /\ DOMAIN t = 1 .. Len(t) /\ Len(s) \in Nat /\ Len(t) \in Nat
        /\ DOMAIN (s \o t) = 1 .. Len(s) + Len(t)
        /\ \A i \in 1 .. Len(s) + Len(t) : (s \o t)[i] = IF i <= Len(s) THEN s[i] ELSE t[i - Len(s)]
    OBVIOUS
  <2>2. ASSUME NEW m \in Range(s \o t) PROVE m \in Range(s) \cup Range(t)
    BY <2>1 DEF Range
  <2>3. ASSUME NEW m \in Range(s) PROVE m \in Range(s \o t)
    BY <2>1 DEF Range
  <2>4. ASSUME NEW m \in Range(t) PROVE m \in Range(s \o t)
    <3>1. PICK i \in 1 .. Len(t) : m = t[i]
      BY <2>1 DEF Range
    <3>2. i + Len(s) \in 1 .. Len(s) + Len(t) /\ (s \o t)[i + Len(s)] = m
      BY <2>1, <3>1
    <3> QED
      BY <2>1, <3>2 DEF Range
  <2> QED
    BY <2>2, <2>3, <2>4
<1> QED
  BY <1>1 DEF UsersIn

LEMMA UsersFront ==
  ASSUME NEW s \in Seq(AnyMessage), s # <<>>, Last(s).role # "user"
  PROVE  Front(s) \in Seq(AnyMessage) /\ UsersIn(Front(s)) = UsersIn(s)
<1>1. /\ Front(s) \in Seq(AnyMessage) /\ DOMAIN Front(s) = 1 .. Len(s) - 1
      /\ DOMAIN s = 1 .. Len(s) /\ Len(s) \in Nat \ {0}
      /\ \A i \in 1 .. Len(s) - 1 : Front(s)[i] = s[i]
  BY DEF Front
<1>2. \A i \in 1 .. Len(s) : i \in 1 .. Len(s) - 1 \/ s[i].role # "user"
  BY <1>1 DEF Last
<1> QED
  BY <1>1, <1>2 DEF UsersIn, Range

LEMMA DisplayRange ==
  ASSUME TextOK, DisplayOK
  PROVE  Ids(steeringQueue) \cup Ids(followUpQueue)
           \subseteq Range(steeringMessages) \cup Range(followUpMessages)
<1>1. ASSUME NEW q \in Seq(Users), NEW d, Just(d, q) PROVE Ids(q) \subseteq Range(d)
  BY <1>1 DEF Just, Waiting, Ids, Range
<1>2. ASSUME NEW q \in Seq(Users), NEW d, NEW x, After(x, d, q) PROVE Ids(q) \subseteq Range(d)
  <2>1. /\ Len(q) \in Nat /\ DOMAIN q = 1 .. Len(q) /\ d = <<x>> \o Waiting(q)
        /\ Waiting(q) \in Seq({u.id : u \in Users}) /\ Len(Waiting(q)) = Len(q)
        /\ \A i \in 1 .. Len(q) : Waiting(q)[i] = q[i].id
    BY <1>2 DEF After, Waiting
  <2>2. \A i \in 1 .. Len(q) : i + 1 \in DOMAIN d /\ d[i + 1] = q[i].id
    BY <2>1
  <2> QED
    BY <2>1, <2>2 DEF Ids, Range
<1> QED
  BY <1>1, <1>2 DEF TextOK, DisplayOK


\* What the user does.
LEMMA UserKept ==
  ASSUME QInv, KeptInv, UserStep
  PROVE  KeptInv'
<1>1. /\ DOMAIN pc = Prompts /\ TextOK /\ FlowOK /\ events \in Nat
      /\ messages \in Seq(AnyMessage) /\ saved \in Seq(AnyMessage)
  BY DEF QInv, IInv, KeptInv, TextOK, Said
<1>2. UsersIn(messages) \subseteq UsersIn(saved) \cup {emitting} /\ queued \subseteq Reached
  BY KeptIs DEF KeptInv
<1>3. CASE Queue
  <2>1. /\ UNCHANGED <<pc, pending, emitting, run, messages, saved, returned>>
        /\ events' = events + 1 /\ queued' = queued \cup {Text}
        /\ Steered(Text) \/ Followed(Text)
    BY <1>3 DEF Queue, Event, texts, runvars
  <2>2. User(Text) \in Users
    BY <1>1, TextIdent DEF User, Users, Words, AnyMessage
  <2>3. Spent \subseteq Spent'
    BY <1>1, <2>1, SpentGrows
  <2>4. Text \notin Spent /\ Text \in Spent'
    <3>1. Cardinality(Prompts) \in Nat
      BY PromptsAssumption, FS_CardinalityType
    <3> QED
      BY <1>1, <2>1, <3>1, PromptsAssumption DEF Spent, Text
  <2>5. FlowOK'
    BY <1>1, <2>1, <2>2, <2>3, <2>4, EnqueueFlow
  <2>6. /\ Ids(steeringQueue) \subseteq Ids(steeringQueue') /\ Ids(followUpQueue) \subseteq Ids(followUpQueue')
        /\ Text \in Ids(steeringQueue') \cup Ids(followUpQueue')
    <3>1. steeringQueue \in Seq(Users) /\ followUpQueue \in Seq(Users)
      BY <1>1 DEF TextOK
    <3>2. /\ Ids(Append(steeringQueue, User(Text))) = Ids(steeringQueue) \cup {Text}
          /\ Ids(Append(followUpQueue, User(Text))) = Ids(followUpQueue) \cup {Text}
      BY <2>2, <3>1, QueueAppend
    <3> QED
      BY <2>1, <3>2 DEF Steered, Followed
  <2>7. Reached \cup {Text} \subseteq Reached'
    BY <2>1, <2>6 DEF Reached
  <2> QED
    BY <1>2, <2>1, <2>5, <2>7, KeptIsNext DEF KeptInv
<1>4. CASE ClearQueue
  <2>1. UNCHANGED <<pc, pending, events, messages, saved, emitting, queued>>
    BY <1>4 DEF ClearQueue, texts, runvars
  <2>2. FlowOK'
    BY <1>1, <1>4, <2>1, SpentGrows, ClearFlow
  <2>3. returned' = returned \cup Range(steeringMessages) \cup Range(followUpMessages)
    BY <1>4 DEF ClearQueue
  <2>4. Reached \subseteq Reached'
    BY <1>1, <2>1, <2>3, DisplayRange DEF Reached, FlowOK
  <2> QED
    BY <1>2, <2>1, <2>2, <2>4, KeptIsNext DEF KeptInv
<1>5. CASE RecordBash
  <2>1. /\ UNCHANGED <<pc, queues, pending, emitting, run, queued, returned>> /\ events' = events + 1
        /\ \/ UNCHANGED <<messages, saved>>
           \/ messages' = Append(messages, Bash) /\ saved' = Append(saved, Bash)
    BY <1>5 DEF RecordBash, Event, texts, runvars
  <2>2. Bash \in AnyMessage /\ Bash.role # "user"
    BY <1>1 DEF Bash, AnyMessage, Ident
  <2>3. UsersIn(messages') = UsersIn(messages) /\ UsersIn(saved') = UsersIn(saved)
    BY <1>1, <2>1, <2>2, UsersAppend
  <2>4. FlowOK'
    BY <1>1, <2>1, SpentGrows, QuietFlow DEF FlowOK, TakenOK
  <2>5. Reached' = Reached
    BY <2>1, <2>3 DEF Reached, queues
  <2> QED
    BY <1>2, <2>1, <2>3, <2>4, <2>5, KeptIsNext DEF KeptInv
<1>6. CASE Abort
  <2>1. /\ UNCHANGED <<queues, pending, emitting, run, messages, saved, queued, returned>>
        /\ events' = events + 1
    BY <1>6 DEF Abort, Event, texts
  <2>2. \A p \in Prompts :
          pc[p] \notin {"idle", "called", "preflight", "trimmingFirst", "recoveringFirst"} =>
            pc'[p] \notin {"idle", "called", "preflight", "trimmingFirst", "recoveringFirst"}
    BY <1>6 DEF Abort
  <2>3. FlowOK'
    BY <1>1, <2>1, <2>2, SpentGrows, QuietFlow DEF FlowOK, TakenOK
  <2>4. Reached' = Reached
    BY <2>1 DEF Reached, queues
  <2> QED
    BY <1>2, <2>1, <2>3, <2>4, KeptIsNext DEF KeptInv
<1> QED
  BY <1>3, <1>4, <1>5, <1>6 DEF UserStep

\* The steps of the run.
LEMMA RunKept ==
  ASSUME QInv, KeptInv, RunStep
  PROVE  KeptInv'
<1>1. /\ DOMAIN pc = Prompts /\ TextOK /\ FlowOK /\ events \in Nat
      /\ messages \in Seq(AnyMessage) /\ saved \in Seq(AnyMessage)
      /\ steeringQueue \in Seq(Users) /\ followUpQueue \in Seq(Users) /\ pending \in Seq(Users)
  BY DEF QInv, IInv, KeptInv, TextOK, Said
<1>2. UsersIn(messages) \subseteq UsersIn(saved) \cup {emitting} /\ queued \subseteq Reached
  BY KeptIs DEF KeptInv
<1>3. UNCHANGED <<events, queued, returned>>
  BY Zenon DEF RunStep, EmitTaken, Save, PollBeforeAnswer, PollAfterAnswer, PollFollowUp,
               ModelAnswers, ToolEnds, FinishRun, counts
<1>4. Spent \subseteq Spent'
  <2>1. \/ UNCHANGED pc
        \/ run # "none" /\ pc' = [pc EXCEPT ![owner] = "postRun"]
    BY Zenon DEF RunStep, EmitTaken, Save, PollBeforeAnswer, PollAfterAnswer, PollFollowUp,
                 ModelAnswers, ToolEnds, FinishRun
  <2> QED
    BY <1>1, <1>3, <2>1, SpentGrows DEF QInv, IInv, OwnerOK
<1>5. CASE EmitTaken
  <2>1. /\ FlowOK' /\ pending' = <<>>
    BY <1>1, <1>4, <1>5, EmitFlow
  <2>2. /\ pending # <<>> /\ Head(pending) \in Users /\ Head(pending) \in AnyMessage
        /\ Head(pending).role = "user" /\ Len(pending) = 1 /\ emitting = Nothing
    BY <1>1, <1>5 DEF EmitTaken, FlowOK, TakenOK, Users, Words
  <2>3. /\ messages' = Append(messages, Head(pending)) /\ emitting' = Head(pending)
        /\ UNCHANGED <<saved, steeringQueue, followUpQueue>>
    BY <1>5 DEF EmitTaken
  <2>4. UsersIn(messages') = UsersIn(messages) \cup {Head(pending)}
    BY <1>1, <2>2, <2>3, UsersAppend
  <2>5. Ids(pending) = {Head(pending).id}
    BY <1>1, <2>2 DEF Ids
  <2>6. Reached \subseteq Reached'
    BY <1>3, <2>1, <2>3, <2>4, <2>5 DEF Reached
  <2>7. Nothing \notin UsersIn(messages)
    BY DEF UsersIn, Nothing
  <2> QED
    BY <1>2, <1>3, <2>1, <2>2, <2>3, <2>4, <2>6, <2>7, KeptIsNext DEF KeptInv
<1>6. CASE Save
  <2>1. /\ UNCHANGED <<messages, queues, pending>> /\ emitting # Nothing
        /\ saved' = Append(saved, emitting) /\ emitting' = Nothing
    BY <1>6 DEF Save
  <2>2. emitting \in AnyMessage
    BY <1>1, <2>1 DEF TextOK, Words
  <2>3. UsersIn(saved') = UsersIn(saved) \cup (IF emitting.role = "user" THEN {emitting} ELSE {})
    BY <1>1, <2>1, <2>2, UsersAppend
  <2>4. UsersIn(messages') \subseteq UsersIn(saved')
    BY <1>2, <2>1, <2>3 DEF UsersIn
  <2>5. FlowOK'
    BY <1>1, <1>4, <2>1, QuietFlow DEF FlowOK, TakenOK
  <2>6. Reached' = Reached
    BY <1>3, <2>1 DEF Reached, queues
  <2> QED
    BY <1>2, <1>3, <2>4, <2>5, <2>6, KeptIsNext DEF KeptInv
<1>7. CASE PollBeforeAnswer \/ PollAfterAnswer \/ PollFollowUp
  <2>1. /\ UNCHANGED <<messages, saved, emitting, steeringMessages, followUpMessages>>
        /\ emitting = Nothing /\ pending = <<>>
    BY <1>1, <1>7, Zenon DEF PollBeforeAnswer, PollAfterAnswer, PollFollowUp, texts, Idling, FlowOK,
                             TakenOK, QInv, IInv, EmittingOK
  <2>2. \/ UNCHANGED <<queues, pending>>
        \/ /\ run' = "inject"
           /\ \/ /\ steeringQueue # <<>> /\ pending' = <<Head(steeringQueue)>>
                 /\ steeringQueue' = Tail(steeringQueue) /\ UNCHANGED followUpQueue
              \/ /\ followUpQueue # <<>> /\ pending' = <<Head(followUpQueue)>>
                 /\ followUpQueue' = Tail(followUpQueue) /\ UNCHANGED steeringQueue
    BY <1>7, Zenon DEF PollBeforeAnswer, PollAfterAnswer, PollFollowUp, Take, queues
  <2>3. FlowOK'
    BY <1>1, <1>4, <2>1, <2>2, QuietFlow, TakeFlow
  <2>4. Ids(<<>>) = {}
    BY DEF Ids
  <2>5. Reached' = Reached
    <3>1. /\ steeringQueue # <<>> =>
               Ids(steeringQueue) = Ids(Tail(steeringQueue)) \cup Ids(<<Head(steeringQueue)>>)
          /\ followUpQueue # <<>> =>
               Ids(followUpQueue) = Ids(Tail(followUpQueue)) \cup Ids(<<Head(followUpQueue)>>)
      BY <1>1, QueueTake
    <3>2. Ids(steeringQueue') \cup Ids(followUpQueue') \cup Ids(pending')
            = Ids(steeringQueue) \cup Ids(followUpQueue) \cup Ids(pending)
      BY <2>1, <2>2, <2>4, <3>1 DEF queues
    <3> QED
      BY <1>3, <2>1, <3>2 DEF Reached
  <2> QED
    BY <1>2, <1>3, <2>1, <2>3, <2>5, KeptIsNext DEF KeptInv
<1>8. CASE ModelAnswers \/ ToolEnds
  <2>1. PICK m : messages' = Append(messages, m) /\ emitting' = m /\ m \in AnyMessage /\ m.role # "user"
    <3>1. ASSUME NEW stop \in Stops PROVE Answer(stop) \in AnyMessage /\ Answer(stop).role # "user"
      BY <1>1, <3>1 DEF Stops, Answer, AnyMessage, Failures, Ident, TextOK
    <3>2. Result \in AnyMessage /\ Result.role # "user"
      BY <1>1 DEF Result, AnyMessage, Ident, TextOK
    <3> QED
      BY <1>8, <3>1, <3>2 DEF ModelAnswers, ToolEnds, Push
  <2>2. UNCHANGED <<saved, queues, pending>> /\ emitting = Nothing /\ pending = <<>>
    BY <1>1, <1>8 DEF ModelAnswers, ToolEnds, texts, Idling, FlowOK, TakenOK
  <2>3. UsersIn(messages') = UsersIn(messages)
    BY <1>1, <2>1, UsersAppend
  <2>4. FlowOK'
    BY <1>1, <1>4, <2>2, QuietFlow
  <2>5. Reached' = Reached
    BY <1>3, <2>2, <2>3 DEF Reached, queues
  <2>6. Nothing \notin UsersIn(messages)
    BY DEF UsersIn, Nothing
  <2> QED
    BY <1>2, <1>3, <2>2, <2>3, <2>4, <2>5, <2>6, KeptIsNext DEF KeptInv
<1>9. CASE FinishRun
  <2>1. UNCHANGED <<messages, saved, queues, pending, emitting>> /\ pending = <<>>
    BY <1>1, <1>9 DEF FinishRun, texts, FlowOK, TakenOK
  <2>2. FlowOK'
    BY <1>1, <1>4, <2>1, QuietFlow
  <2>3. Reached' = Reached
    BY <1>3, <2>1 DEF Reached, queues
  <2> QED
    BY <1>2, <1>3, <2>1, <2>2, <2>3, KeptIsNext DEF KeptInv
<1> QED
  BY <1>5, <1>6, <1>7, <1>8, <1>9 DEF RunStep


LEMMA UsersWithoutLast ==
  ASSUME NEW s \in Seq(AnyMessage)
  PROVE  UsersIn(WithoutLastAnswer(s)) = UsersIn(s)
  BY UsersFront DEF WithoutLastAnswer

LEMMA UsersRebuilt ==
  ASSUME saved \in Seq(AnyMessage), NEW retry
  PROVE  Rebuilt(retry) \in Seq(AnyMessage) /\ UsersIn(Rebuilt(retry)) = UsersIn(saved)
<1>1. CASE saved # <<>> /\ Failed(Last(saved))
  <2>1. Last(saved) \in AnyMessage
    BY <1>1 DEF Last
  <2>2. Last(saved).role # "user"
    BY <1>1, <2>1 DEF Failed, Failures, AnyMessage
  <2>3. Front(saved) \in Seq(AnyMessage) /\ UsersIn(Front(saved)) = UsersIn(saved)
    BY <1>1, <2>2, UsersFront
  <2> QED
    BY <2>3 DEF Rebuilt
<1>2. CASE ~ (saved # <<>> /\ Failed(Last(saved)))
  BY <1>2 DEF Rebuilt
<1> QED
  BY <1>1, <1>2

\* A call of prompt() before its run, and after it.
LEMMA CallKept ==
  ASSUME QInv, KeptInv, NEW p \in Prompts,
         \/ Prompt(p) \/ PromptWhileStreaming(p) \/ Preflight(p) \/ CompactFirst(p)
         \/ CompactedFirst(p) \/ PromptEndsEarly(p) \/ Launch(p) \/ Settled(p)
  PROVE  KeptInv'
<1>1. /\ DOMAIN pc = Prompts /\ TextOK /\ FlowOK /\ events \in Nat
      /\ messages \in Seq(AnyMessage) /\ saved \in Seq(AnyMessage)
      /\ steeringQueue \in Seq(Users) /\ followUpQueue \in Seq(Users)
      /\ pendingBash \in Seq(AnyMessage)
  BY DEF QInv, IInv, KeptInv, TextOK, Said, Words
<1>2. UsersIn(messages) \subseteq UsersIn(saved) \cup {emitting} /\ queued \subseteq Reached
  BY KeptIs DEF KeptInv
<1>3. p \in Nat /\ p <= Cardinality(Prompts) /\ Cardinality(Prompts) \in Nat
  BY PromptsAssumption, FS_CardinalityType
<1>4. User(p) \in Users
  BY DEF User, Users, Words, AnyMessage, Ident
<1>5. CASE Prompt(p) \/ PromptEndsEarly(p) \/ Settled(p)
  <2>1. /\ UNCHANGED <<queues, pending, emitting, run, messages, saved, queued, returned, events>>
        /\ \/ pc[p] = "idle" /\ pc' = [pc EXCEPT ![p] = "called"]
           \/ pc' = [pc EXCEPT ![p] = "done"]
    BY <1>5 DEF Prompt, PromptEndsEarly, Settled, texts, runvars, counts
  <2>2. Spent \subseteq Spent'
    BY <1>1, <2>1, SpentGrows
  <2>3. FlowOK'
    BY <1>1, <2>1, <2>2, QuietFlow DEF FlowOK, TakenOK
  <2>4. Reached' = Reached
    BY <2>1 DEF Reached, queues
  <2> QED
    BY <1>2, <2>1, <2>3, <2>4, KeptIsNext DEF KeptInv
<1>6. CASE PromptWhileStreaming(p)
  <2>1. /\ UNCHANGED <<pending, emitting, run, messages, saved, returned, events>>
        /\ pc[p] = "called" /\ pc' = [pc EXCEPT ![p] = "done"]
        /\ \/ (Steered(p) \/ Followed(p)) /\ queued' = queued \cup {p}
           \/ UNCHANGED <<queues, queued>>
    BY <1>6 DEF PromptWhileStreaming, texts, runvars
  <2>2. Spent \subseteq Spent' /\ p \notin Spent /\ p \in Spent'
    <3>1. Spent \subseteq Spent'
      BY <1>1, <2>1, SpentGrows
    <3> QED
      BY <1>1, <1>3, <2>1, <3>1 DEF Spent
  <2>3. CASE UNCHANGED <<queues, queued>>
    <3>1. FlowOK'
      BY <1>1, <2>1, <2>2, <2>3, QuietFlow DEF FlowOK, TakenOK
    <3>2. Reached' = Reached
      BY <2>1, <2>3 DEF Reached, queues
    <3> QED
      BY <1>2, <2>1, <2>3, <3>1, <3>2, KeptIsNext DEF KeptInv
  <2>4. CASE (Steered(p) \/ Followed(p)) /\ queued' = queued \cup {p}
    <3>1. FlowOK'
      BY <1>1, <1>4, <2>1, <2>2, <2>4, EnqueueFlow
    <3>2. /\ Ids(Append(steeringQueue, User(p))) = Ids(steeringQueue) \cup {p}
          /\ Ids(Append(followUpQueue, User(p))) = Ids(followUpQueue) \cup {p}
      BY <1>1, <1>4, QueueAppend
    <3>3. Reached \cup {p} \subseteq Reached'
      BY <2>1, <2>4, <3>2 DEF Reached, Steered, Followed
    <3> QED
      BY <1>2, <2>1, <2>4, <3>1, <3>3, KeptIsNext DEF KeptInv
  <2> QED
    BY <2>1, <2>3, <2>4
<1>7. CASE Preflight(p)
  <2>1. /\ UNCHANGED <<queues, pending, emitting, run, queued, returned, events>>
        /\ messages' = messages \o pendingBash /\ saved' = saved \o pendingBash
        /\ pc' = [pc EXCEPT ![p] = "preflight"] /\ pc[p] = "called"
    BY <1>7 DEF Preflight, FlushPendingBash, runvars, counts
  <2>2. /\ UsersIn(messages') = UsersIn(messages) \cup UsersIn(pendingBash)
        /\ UsersIn(saved') = UsersIn(saved) \cup UsersIn(pendingBash)
    BY <1>1, <2>1, UsersConcat
  <2>3. FlowOK'
    BY <1>1, <2>1, SpentGrows, QuietFlow DEF FlowOK, TakenOK
  <2>4. Reached \subseteq Reached'
    BY <2>1, <2>2 DEF Reached, queues
  <2> QED
    BY <1>2, <2>1, <2>2, <2>3, <2>4, KeptIsNext DEF KeptInv
<1>8. CASE CompactFirst(p)
  <2>1. /\ UNCHANGED <<queues, pending, emitting, run, queued, returned, events>>
        /\ \/ messages' = messages \o pendingBash
           \/ messages' = WithoutLastAnswer(messages \o pendingBash)
        /\ saved' = saved \o pendingBash /\ pc[p] = "called"
        /\ pc' = [pc EXCEPT ![p] = "recoveringFirst"] \/ pc' = [pc EXCEPT ![p] = "trimmingFirst"]
    BY <1>8 DEF CompactFirst, runvars, counts
  <2>2. /\ UsersIn(messages \o pendingBash) = UsersIn(messages) \cup UsersIn(pendingBash)
        /\ UsersIn(saved') = UsersIn(saved) \cup UsersIn(pendingBash)
        /\ messages \o pendingBash \in Seq(AnyMessage)
    BY <1>1, <2>1, UsersConcat
  <2>3. UsersIn(messages') = UsersIn(messages) \cup UsersIn(pendingBash)
    BY <2>1, <2>2, UsersWithoutLast
  <2>4. FlowOK'
    BY <1>1, <2>1, SpentGrows, QuietFlow DEF FlowOK, TakenOK
  <2>5. Reached \subseteq Reached'
    BY <2>1, <2>3 DEF Reached, queues
  <2> QED
    BY <1>2, <2>1, <2>2, <2>3, <2>4, <2>5, KeptIsNext DEF KeptInv
<1>9. CASE CompactedFirst(p)
  <2>1. /\ UNCHANGED <<queues, pending, emitting, run, saved, queued, returned, events>>
        /\ messages' = messages \/ \E retry : messages' = Rebuilt(retry)
        /\ CompactingFirst(p) /\ pc' = [pc EXCEPT ![p] = "preflight"]
    BY <1>9 DEF CompactedFirst, runvars, counts
  <2>2. run = "none" /\ emitting = Nothing
    BY <2>1 DEF QInv, IInv, TurnsOK, OwnerOK, EmittingOK, Works
  <2>3. UsersIn(messages) \subseteq UsersIn(messages') /\ UsersIn(messages') \subseteq UsersIn(saved)
    <3>1. UsersIn(messages) \subseteq UsersIn(saved)
      BY <1>2, <2>2 DEF UsersIn, Nothing
    <3>2. \A retry : UsersIn(Rebuilt(retry)) = UsersIn(saved)
      BY <1>1, UsersRebuilt
    <3> QED
      BY <2>1, <3>1, <3>2
  <2>4. FlowOK'
    BY <1>1, <2>1, SpentGrows, QuietFlow DEF FlowOK, TakenOK, CompactingFirst
  <2>5. Reached \subseteq Reached'
    BY <2>1, <2>3 DEF Reached, queues
  <2> QED
    BY <1>2, <2>1, <2>3, <2>4, <2>5, KeptIsNext DEF KeptInv
<1>10. CASE Launch(p)
  <2>1. /\ pc[p] = "preflight" /\ ~isAgentRunActive /\ run = "none" /\ emitting = Nothing
    BY <1>10 DEF Launch, QInv, IInv, TurnsOK, OwnerOK, EmittingOK, Works
  <2>2. /\ run' = "prompts" /\ pending' = <<User(p)>> /\ pc' = [pc EXCEPT ![p] = "running"]
        /\ UNCHANGED <<emitting, messages, saved, queues, queued, returned, events>>
    BY <1>10, <2>1 DEF Launch, Begin, counts, texts
  <2>3. pending = <<>>
    BY <1>1, <2>1 DEF FlowOK, TakenOK
  <2>4. Spent \subseteq Spent' /\ p \notin Spent /\ p \in Spent'
    <3>1. Spent \subseteq Spent'
      BY <1>1, <2>1, <2>2, SpentGrows
    <3> QED
      BY <1>1, <1>3, <2>1, <2>2, <3>1 DEF Spent
  <2>5. FlowOK'
    BY <1>1, <2>1, <2>2, <2>3, <2>4, LaunchFlow
  <2>6. Ids(<<>>) = {}
    BY DEF Ids
  <2>7. Reached \subseteq Reached'
    BY <2>2, <2>3, <2>6 DEF Reached, queues
  <2> QED
    BY <1>2, <2>2, <2>5, <2>7, KeptIsNext DEF KeptInv
<1> QED
  BY <1>5, <1>6, <1>7, <1>8, <1>9, <1>10

\* What a retry takes out of the transcript is an answer.
LEMMA RetryKept ==
  ASSUME QInv, KeptInv, NEW p \in Prompts, Retry(p) \/ Recover(p) \/ Trim(p)
  PROVE  KeptInv'
<1>1. /\ DOMAIN pc = Prompts /\ TextOK /\ FlowOK /\ events \in Nat
      /\ messages \in Seq(AnyMessage)
  BY DEF QInv, IInv, KeptInv, TextOK, Said
<1>2. UsersIn(messages) \subseteq UsersIn(saved) \cup {emitting} /\ queued \subseteq Reached
  BY KeptIs DEF KeptInv
<1>3. /\ messages' = WithoutLastAnswer(messages) \/ messages' = messages
      /\ pc[p] = "postRun"
      /\ UNCHANGED <<queues, saved, events, run, pending, emitting, queued, returned>>
      /\ \E next \in {"backoff", "compacting", "trimming"} : pc' = [pc EXCEPT ![p] = next]
  BY DEF Retry, Recover, Trim, runvars, counts, texts
<1>4. UsersIn(messages') = UsersIn(messages)
  BY <1>1, <1>3, UsersWithoutLast
<1>5. FlowOK'
  BY <1>1, <1>3, SpentGrows, QuietFlow DEF FlowOK, TakenOK
<1>6. Reached' = Reached
  BY <1>3, <1>4 DEF Reached, queues
<1> QED
  BY <1>2, <1>3, <1>4, <1>5, <1>6, KeptIsNext DEF KeptInv

LEMMA SettleKept ==
  ASSUME QInv, KeptInv, NEW p \in Prompts, Works(p), pc[p] # "running",
         NEW transcript \in Seq(AnyMessage), UsersIn(messages) \subseteq UsersIn(transcript),
         UsersIn(transcript) \subseteq UsersIn(saved),
         Settle(p, transcript), UNCHANGED <<queues, runvars, counts>>
  PROVE  KeptInv'
<1>1. /\ DOMAIN pc = Prompts /\ FlowOK /\ events \in Nat
      /\ saved \in Seq(AnyMessage) /\ pendingBash \in Seq(AnyMessage)
  BY DEF QInv, IInv, KeptInv, TextOK, Said, Words
<1>2. queued \subseteq Reached
  BY KeptIs DEF KeptInv
<1>3. /\ messages' = transcript \o pendingBash /\ saved' = saved \o pendingBash
      /\ UNCHANGED <<queues, events, run, pending, emitting, queued, returned>>
      /\ pc' = [pc EXCEPT ![p] = "settling"]
  BY DEF Settle, FlushPendingBash, runvars, counts
<1>4. /\ UsersIn(messages') = UsersIn(transcript) \cup UsersIn(pendingBash)
      /\ UsersIn(saved') = UsersIn(saved) \cup UsersIn(pendingBash)
  BY <1>1, <1>3, UsersConcat
<1>5. FlowOK'
  BY <1>1, <1>3, SpentGrows, QuietFlow DEF FlowOK, TakenOK
<1>6. Reached \subseteq Reached'
  BY <1>3, <1>4 DEF Reached, queues
<1> QED
  BY <1>2, <1>3, <1>4, <1>5, <1>6, KeptIsNext DEF KeptInv

LEMMA ContinueKept ==
  ASSUME QInv, KeptInv, NEW p \in Prompts, Works(p), pc[p] # "running",
         NEW transcript \in Seq(AnyMessage), UsersIn(messages) \subseteq UsersIn(transcript),
         UsersIn(transcript) \subseteq UsersIn(saved),
         Continue(p, transcript), UNCHANGED counts
  PROVE  KeptInv'
<1>1. /\ DOMAIN pc = Prompts /\ TextOK /\ FlowOK /\ events \in Nat
      /\ steeringQueue \in Seq(Users) /\ followUpQueue \in Seq(Users)
  BY DEF QInv, IInv, KeptInv, TextOK
<1>2. queued \subseteq Reached
  BY KeptIs DEF KeptInv
<1>3. run = "none" /\ emitting = Nothing
  BY NoRunAfterRun DEF QInv
<1>4. pending = <<>>
  BY <1>1, <1>3 DEF FlowOK, TakenOK
<1>5. CASE Settle(p, transcript) /\ UNCHANGED <<queues, runvars>>
  BY <1>5, SettleKept
<1>6. CASE /\ messages' = transcript
           /\ UNCHANGED <<saved, pendingBash, isAgentRunActive, steeringMessages, followUpMessages>>
           /\ \/ Begin(p, "poll", <<>>) /\ UNCHANGED <<steeringQueue, followUpQueue>>
              \/ /\ steeringQueue # <<>>
                 /\ Begin(p, "inject", <<Head(steeringQueue)>>)
                 /\ steeringQueue' = Tail(steeringQueue) /\ UNCHANGED followUpQueue
              \/ /\ followUpQueue # <<>>
                 /\ Begin(p, "prompts", <<Head(followUpQueue)>>)
                 /\ followUpQueue' = Tail(followUpQueue) /\ UNCHANGED steeringQueue
  <2>1. /\ messages' = transcript
        /\ UNCHANGED <<saved, steeringMessages, followUpMessages, events, queued, returned>>
        /\ emitting' = Nothing /\ pc' = [pc EXCEPT ![p] = "running"]
    BY <1>3, <1>6 DEF Begin, counts
  <2>2. \/ UNCHANGED <<queues, pending>>
        \/ /\ run' \in {"inject", "prompts"}
           /\ \/ /\ steeringQueue # <<>> /\ pending' = <<Head(steeringQueue)>>
                 /\ steeringQueue' = Tail(steeringQueue) /\ UNCHANGED followUpQueue
              \/ /\ followUpQueue # <<>> /\ pending' = <<Head(followUpQueue)>>
                 /\ followUpQueue' = Tail(followUpQueue) /\ UNCHANGED steeringQueue
    BY <1>4, <1>6, Zenon DEF Begin, queues
  <2>3. Spent \subseteq Spent'
    BY <1>1, <2>1, SpentGrows
  <2>4. FlowOK'
    BY <1>1, <1>4, <2>1, <2>2, <2>3, QuietFlow, TakeFlow
  <2>5. Reached \subseteq Reached'
    <3>1. /\ steeringQueue # <<>> =>
               Ids(steeringQueue) = Ids(Tail(steeringQueue)) \cup Ids(<<Head(steeringQueue)>>)
          /\ followUpQueue # <<>> =>
               Ids(followUpQueue) = Ids(Tail(followUpQueue)) \cup Ids(<<Head(followUpQueue)>>)
      BY <1>1, QueueTake
    <3>2. Ids(<<>>) = {}
      BY DEF Ids
    <3>3. Ids(steeringQueue') \cup Ids(followUpQueue') \cup Ids(pending')
            = Ids(steeringQueue) \cup Ids(followUpQueue) \cup Ids(pending)
      BY <1>4, <2>1, <2>2, <3>1, <3>2 DEF queues
    <3> QED
      BY <2>1, <3>3 DEF Reached
  <2> QED
    BY <1>2, <2>1, <2>4, <2>5, KeptIsNext DEF KeptInv
<1> QED
  BY <1>5, <1>6, Zenon DEF Continue

\* Where the session looks at what is queued.
LEMMA AfterRunKept ==
  ASSUME QInv, KeptInv, NEW p \in Prompts,
         Conclude(p) \/ BackoffEnds(p) \/ RetryCancelled(p) \/ CompactionEnds(p)
  PROVE  KeptInv'
<1>1. Works(p) /\ pc[p] # "running" /\ UNCHANGED counts
  BY DEF Conclude, BackoffEnds, RetryCancelled, CompactionEnds, Works
<1>2. /\ messages \in Seq(AnyMessage) /\ saved \in Seq(AnyMessage) /\ saved # <<>>
  BY <1>1 DEF QInv, TextOK, Said, BegunOK
<1>3. UsersIn(messages) \subseteq UsersIn(saved)
  <2>1. emitting = Nothing
    BY <1>1, NoRunAfterRun DEF QInv
  <2>2. UsersIn(messages) \subseteq UsersIn(saved) \cup {Nothing}
    BY <2>1, KeptIs DEF KeptInv
  <2> QED
    BY <2>2 DEF UsersIn, Nothing
<1>4. ASSUME NEW transcript \in Seq(AnyMessage), UsersIn(messages) \subseteq UsersIn(transcript),
             UsersIn(transcript) \subseteq UsersIn(saved), Continue(p, transcript)
      PROVE  KeptInv'
  BY <1>1, <1>4, ContinueKept
<1>5. ASSUME NEW transcript \in Seq(AnyMessage), UsersIn(messages) \subseteq UsersIn(transcript),
             UsersIn(transcript) \subseteq UsersIn(saved), GoOn(p, transcript)
      PROVE  KeptInv'
  <2>1. CASE Settle(p, transcript) /\ UNCHANGED <<queues, runvars>>
    BY <1>1, <1>5, <2>1, SettleKept
  <2>2. CASE Continue(p, transcript)
    BY <1>4, <1>5, <2>2
  <2> QED
    BY <1>5, <2>1, <2>2, Zenon DEF GoOn
<1>6. CASE Conclude(p)
  <2>1. CASE Settle(p, messages) /\ UNCHANGED <<queues, runvars>>
    BY <1>1, <1>2, <1>3, <2>1, SettleKept
  <2> QED
    BY <1>2, <1>3, <1>5, <1>6, <2>1, Zenon DEF Conclude
<1>7. CASE BackoffEnds(p) \/ RetryCancelled(p)
  BY <1>2, <1>3, <1>4, <1>5, <1>7, Zenon DEF BackoffEnds, RetryCancelled
<1>8. CASE CompactionEnds(p)
  <2>1. PICK transcript \in {messages, Rebuilt(TRUE), Rebuilt(FALSE)} :
          Continue(p, transcript) \/ GoOn(p, transcript)
    BY <1>8 DEF CompactionEnds
  <2>2. transcript \in Seq(AnyMessage) /\ UsersIn(messages) \subseteq UsersIn(transcript)
    BY <1>2, <1>3, UsersRebuilt
  <2>3. UsersIn(transcript) \subseteq UsersIn(saved)
    BY <1>2, <1>3, UsersRebuilt
  <2> QED
    BY <1>4, <1>5, <2>1, <2>2, <2>3
<1> QED
  BY <1>6, <1>7, <1>8


LEMMA NextKeptInv ==
  ASSUME QInv, KeptInv, [Next]_vars PROVE KeptInv'
<1>1. CASE UNCHANGED vars
  <2>1. UNCHANGED <<pc, queues, pending, emitting, run, messages, saved, queued, returned, events>>
    BY <1>1 DEF vars, texts, runvars, counts
  <2>2. DOMAIN pc = Prompts /\ events \in Nat /\ FlowOK
    BY DEF QInv, IInv, TextOK, KeptInv
  <2>3. FlowOK'
    BY <2>1, <2>2, SpentGrows, QuietFlow DEF FlowOK, TakenOK
  <2>4. SavedOK' /\ NothingQueuedIsLost'
    BY <2>1 DEF KeptInv, SavedOK, NothingQueuedIsLost, queues
  <2> QED
    BY <2>3, <2>4 DEF KeptInv
<1>2. CASE UserStep
  BY <1>2, UserKept
<1>3. CASE RunStep
  BY <1>3, RunKept
<1>4. ASSUME NEW p \in Prompts, Prompt(p) \/ PromptStep(p) PROVE KeptInv'
  BY <1>4, CallKept, RetryKept, AfterRunKept DEF PromptStep
<1> QED
  BY <1>1, <1>2, <1>3, <1>4 DEF Next

LEMMA InitKeptInv == Init => KeptInv
<1> SUFFICES ASSUME Init PROVE KeptInv
  OBVIOUS
<1>1. Ids(<<>>) = {} /\ Distinct(<<>>) /\ Just(<<>>, <<>>)
  BY DEF Ids, Distinct, Just, Waiting
<1>2. FlowOK
  BY <1>1 DEF Init, FlowOK, TakenOK, NumbersOK, DisplayOK
<1>3. SavedOK /\ NothingQueuedIsLost
  BY DEF Init, SavedOK, NothingQueuedIsLost, Range
<1> QED
  BY <1>2, <1>3 DEF KeptInv

LEMMA TailIsSuffix ==
  ASSUME NEW S, NEW w \in Seq(S), NEW x \in S
  PROVE  IsSuffix(w, <<x>> \o w)
<1> DEFINE d == <<x>> \o w
<1>1. /\ d \in Seq(S) /\ Len(d) = Len(w) + 1 /\ Len(w) \in Nat
      /\ \A i \in 1 .. Len(w) : d[i + 1] = w[i]
  OBVIOUS
<1>2. /\ Reverse(w) \in Seq(S) /\ Len(Reverse(w)) = Len(w)
      /\ \A i \in 1 .. Len(w) : Reverse(w)[i] = w[Len(w) - i + 1]
  BY <1>1 DEF Reverse
<1> HIDE DEF d
<1>3. /\ Reverse(d) \in Seq(S) /\ Len(Reverse(d)) = Len(w) + 1
      /\ \A i \in 1 .. Len(w) + 1 : Reverse(d)[i] = d[Len(w) + 1 - i + 1]
  BY <1>1 DEF Reverse
<1>4. \A i \in 1 .. Len(w) : Reverse(d)[i] = Reverse(w)[i]
  <2> SUFFICES ASSUME NEW i \in 1 .. Len(w) PROVE Reverse(d)[i] = Reverse(w)[i]
    OBVIOUS
  <2>1. Len(w) - i + 1 \in 1 .. Len(w) /\ Len(w) + 1 - i + 1 = (Len(w) - i + 1) + 1
    BY <1>1
  <2>2. d[(Len(w) - i + 1) + 1] = w[Len(w) - i + 1]
    BY <1>1, <2>1
  <2>3. i \in 1 .. Len(w) + 1
    BY <1>1
  <2> QED
    BY <1>2, <1>3, <2>1, <2>2, <2>3
<1>5. SubSeq(Reverse(d), 1, Len(w)) = SubSeq(Reverse(w), 1, Len(w))
  BY <1>1, <1>2, <1>3, <1>4
<1>6. IsSuffix(w, d)
  BY <1>1, <1>2, <1>3, <1>5 DEF IsSuffix, IsPrefix
<1> QED
  BY <1>6 DEF d

LEMMA OwnSuffix ==
  ASSUME NEW S, NEW w \in Seq(S)
  PROVE  IsSuffix(w, w)
<1>1. Len(Reverse(w)) = Len(w) /\ Len(w) \in Nat
  BY DEF Reverse
<1> QED
  BY <1>1 DEF IsSuffix, IsPrefix

\* What the user is shown as queued is what waits in the agent's queues, in its
\* order, after the message that the loop has taken and not yet emitted; and no
\* message given to steer, followUp or prompt during a run is lost: it waits, was
\* sent or went back to the editor.  For any number of prompts, retries and
\* events, provided that prompt() is not called while another call of it
\* prepares its run.
THEOREM QueueKept ==
  ASSUME ~Overlap
  PROVE  Spec => []QueueIsKept
<1>1. QInv /\ KeptInv /\ [Next]_vars => QInv' /\ KeptInv'
  BY NextQInv, NextKeptInv
<1>2. ASSUME QInv, KeptInv PROVE QueueIsKept
  <2>1. /\ steeringQueue \in Seq(Users) /\ followUpQueue \in Seq(Users) /\ pending \in Seq(Users)
    BY <1>2 DEF QInv, TextOK
  <2> DEFINE S == {u.id : u \in Users}
  <2>2. \A q \in Seq(Users) : Waiting(q) \in Seq(S) /\ Range(Waiting(q)) = Ids(q)
    BY DEF Waiting, Range, Ids
  <2>3. pending # <<>> => pending[1].id \in S /\ pending[1].id \in Ids(pending)
    BY <2>1 DEF Ids
  <2> HIDE DEF S
  <2>4. ASSUME NEW q \in Seq(Users), NEW d, Just(d, q)
        PROVE  IsSuffix(Waiting(q), d) /\ Range(d) = Ids(q)
    <3>1. Waiting(q) \in Seq(S) /\ d = Waiting(q) /\ Range(d) = Ids(q)
      BY <2>2, <2>4 DEF Just
    <3>2. IsSuffix(Waiting(q), Waiting(q))
      BY <3>1, OwnSuffix
    <3> QED
      BY <3>1, <3>2
  <2>5. ASSUME NEW q \in Seq(Users), NEW x \in S, NEW d, After(x, d, q)
        PROVE  IsSuffix(Waiting(q), d) /\ Range(d) \subseteq Ids(q) \cup {x}
    <3>1. Waiting(q) \in Seq(S) /\ d = <<x>> \o Waiting(q)
      BY <2>2, <2>5 DEF After
    <3>2. IsSuffix(Waiting(q), d)
      BY <3>1, TailIsSuffix
    <3>3. Range(d) \subseteq Range(Waiting(q)) \cup {x}
      <4> DEFINE w == Waiting(q)
      <4>1. w \in Seq(S) /\ d = <<x>> \o w
        BY <3>1
      <4> HIDE DEF w
      <4>2. /\ DOMAIN d = 1 .. Len(w) + 1 /\ DOMAIN w = 1 .. Len(w) /\ Len(w) \in Nat
            /\ \A i \in 1 .. Len(w) + 1 : i = 1 \/ i - 1 \in 1 .. Len(w)
            /\ d[1] = x /\ \A i \in 1 .. Len(w) + 1 : i - 1 \in 1 .. Len(w) => d[i] = w[i - 1]
        BY <4>1
      <4>3. ASSUME NEW y \in Range(d) PROVE y \in Range(w) \cup {x}
        BY <4>2 DEF Range
      <4> QED
        BY <4>3 DEF w
    <3> QED
      BY <2>2, <3>2, <3>3
  <2>6. /\ IsSuffix(Waiting(steeringQueue), steeringMessages)
        /\ IsSuffix(Waiting(followUpQueue), followUpMessages)
        /\ Range(steeringMessages) \cup Range(followUpMessages)
             \subseteq Ids(steeringQueue) \cup Ids(followUpQueue) \cup Ids(pending)
    BY <1>2, <2>1, <2>3, <2>4, <2>5 DEF KeptInv, FlowOK, DisplayOK
  <2> QED
    BY <1>2, <2>6 DEF QueueIsKept, QueueIsShown, Waiting, KeptInv
<1> QED
  BY InitQInv, InitKeptInv, <1>1, <1>2, PTL DEF Spec


-----------------------------------------------------------------------------
(* Answers that fail.                                                      *)

OverflowsIn(s, i, j) == {k \in i .. j : s[k].stop = "overflow"}

\* Of the answers that s ends with and that all failed, so many are overflows, and
\* so many are retryable errors if all are.
LastFailed(s, overflows, errors) ==
  \A i \in 1 .. Len(s) + 1 :
    /\ (\A k \in i .. Len(s) : Failed(s[k])) =>
         Cardinality(OverflowsIn(s, i, Len(s))) <= overflows
    /\ (\A k \in i .. Len(s) : s[k].stop = "error") => Len(s) + 1 - i <= errors

\* The same wherever they are in s.
EverFailed(s, errors) ==
  \A i, j \in DOMAIN s :
    (\A k \in i .. j : Failed(s[k])) =>
      /\ Cardinality(OverflowsIn(s, i, j)) <= 2
      /\ (\A k \in i .. j : s[k].stop = "error") => j - i < errors

LEMMA OverflowsAre ==
  ASSUME NEW s, NEW i \in Nat, NEW j \in Nat
  PROVE  /\ IsFiniteSet(OverflowsIn(s, i, j)) /\ Cardinality(OverflowsIn(s, i, j)) \in Nat
         /\ i > j => Cardinality(OverflowsIn(s, i, j)) = 0
<1>1. IsFiniteSet(i .. j)
  BY FS_Interval
<1>2. OverflowsIn(s, i, j) \subseteq i .. j
  BY DEF OverflowsIn
<1>3. IsFiniteSet(OverflowsIn(s, i, j))
  BY <1>1, <1>2, FS_Subset
<1>4. i > j => OverflowsIn(s, i, j) = {}
  BY DEF OverflowsIn
<1> QED
  BY <1>3, <1>4, FS_CardinalityType, FS_EmptySet

LEMMA LastFailedMore ==
  ASSUME NEW s \in Seq(AnyMessage), NEW a \in Nat, NEW b \in Nat, NEW c \in Nat, NEW d \in Nat,
         a <= c, b <= d, LastFailed(s, a, b)
  PROVE  LastFailed(s, c, d)
<1>1. Len(s) \in Nat
  OBVIOUS
<1>2. \A i \in 1 .. Len(s) + 1 : Cardinality(OverflowsIn(s, i, Len(s))) \in Nat
  BY <1>1, OverflowsAre
<1> QED
  BY <1>1, <1>2 DEF LastFailed

LEMMA LastFailedNot ==
  ASSUME NEW s \in Seq(AnyMessage), s # <<>>, ~Failed(Last(s)), NEW a \in Nat, NEW b \in Nat
  PROVE  LastFailed(s, a, b)
<1>1. Len(s) \in Nat \ {0}
  OBVIOUS
<1>2. ASSUME NEW i \in 1 .. Len(s) + 1,
             (\A k \in i .. Len(s) : Failed(s[k])) \/ (\A k \in i .. Len(s) : s[k].stop = "error")
      PROVE  i = Len(s) + 1
  <2>1. i <= Len(s) => Len(s) \in i .. Len(s)
    BY <1>1
  <2>2. ~Failed(s[Len(s)]) /\ s[Len(s)].stop # "error"
    BY DEF Last, Failed, Failures
  <2> QED
    BY <1>1, <1>2, <2>1, <2>2
<1>3. Cardinality(OverflowsIn(s, Len(s) + 1, Len(s))) = 0
  BY <1>1, OverflowsAre
<1> QED
  BY <1>1, <1>2, <1>3 DEF LastFailed

LEMMA OverflowsAppend ==
  ASSUME NEW s \in Seq(AnyMessage), NEW m \in AnyMessage, NEW i \in 1 .. Len(s) + 1
  PROVE  Cardinality(OverflowsIn(Append(s, m), i, Len(s) + 1))
           = Cardinality(OverflowsIn(s, i, Len(s))) + (IF m.stop = "overflow" THEN 1 ELSE 0)
<1>1. /\ Len(s) \in Nat /\ i \in Nat /\ \A k \in 1 .. Len(s) : Append(s, m)[k] = s[k]
      /\ Append(s, m)[Len(s) + 1] = m
  OBVIOUS
<1> DEFINE over == OverflowsIn(s, i, Len(s))
<1>2. OverflowsIn(Append(s, m), i, Len(s) + 1)
        = IF m.stop = "overflow" THEN over \cup {Len(s) + 1} ELSE over
  <2>1. \A k \in i .. Len(s) + 1 : k = Len(s) + 1 \/ k \in i .. Len(s)
    BY <1>1
  <2>2. \A k \in i .. Len(s) : k \in i .. Len(s) + 1 /\ k \in 1 .. Len(s)
    BY <1>1
  <2>3. Len(s) + 1 \in i .. Len(s) + 1
    BY <1>1
  <2> QED
    BY <1>1, <2>1, <2>2, <2>3 DEF OverflowsIn
<1>3. Len(s) + 1 \notin over
  BY <1>1 DEF OverflowsIn
<1>4. IsFiniteSet(over) /\ Cardinality(over) \in Nat
  BY <1>1, OverflowsAre
<1> HIDE DEF over
<1>5. Cardinality(over \cup {Len(s) + 1}) = Cardinality(over) + 1
  BY <1>3, <1>4, FS_AddElement
<1> QED
  BY <1>2, <1>4, <1>5 DEF over

\* An answer that fails makes one more.
LEMMA LastFailedAppend ==
  ASSUME NEW s \in Seq(AnyMessage), NEW m \in AnyMessage, NEW a \in Nat, NEW b \in Nat,
         LastFailed(s, a, b)
  PROVE  LastFailed(Append(s, m), IF m.stop = "overflow" THEN a + 1 ELSE a,
                                  IF m.stop = "error" THEN b + 1 ELSE 0)
<1> DEFINE t == Append(s, m)
<1>1. /\ Len(s) \in Nat /\ Len(t) = Len(s) + 1
      /\ \A k \in 1 .. Len(s) : t[k] = s[k]
      /\ t[Len(s) + 1] = m
  OBVIOUS
<1>2. ASSUME NEW i \in 1 .. Len(s) + 1
      PROVE  Cardinality(OverflowsIn(t, i, Len(t)))
               = Cardinality(OverflowsIn(s, i, Len(s))) + (IF m.stop = "overflow" THEN 1 ELSE 0)
             /\ Cardinality(OverflowsIn(s, i, Len(s))) \in Nat
  BY <1>1, <1>2, OverflowsAppend, OverflowsAre
<1>3. Cardinality(OverflowsIn(t, Len(t) + 1, Len(t))) = 0
  BY <1>1, OverflowsAre
<1> HIDE DEF t
<1>4. ASSUME NEW i \in 1 .. Len(t) + 1, \A k \in i .. Len(t) : Failed(t[k])
      PROVE  Cardinality(OverflowsIn(t, i, Len(t))) <= IF m.stop = "overflow" THEN a + 1 ELSE a
  <2>1. CASE i = Len(t) + 1
    BY <1>3, <2>1
  <2>2. CASE i \in 1 .. Len(s) + 1
    <3>1. \A k \in i .. Len(s) : k \in i .. Len(t) /\ k \in 1 .. Len(s)
      BY <1>1, <2>2
    <3>2. \A k \in i .. Len(s) : Failed(s[k])
      BY <1>1, <1>4, <3>1
    <3>3. Cardinality(OverflowsIn(s, i, Len(s))) <= a
      BY <2>2, <3>2 DEF LastFailed
    <3> QED
      BY <1>2, <2>2, <3>3
  <2> QED
    BY <1>1, <2>1, <2>2
<1>5. ASSUME NEW i \in 1 .. Len(t) + 1, \A k \in i .. Len(t) : t[k].stop = "error"
      PROVE  Len(t) + 1 - i <= IF m.stop = "error" THEN b + 1 ELSE 0
  <2>1. CASE i = Len(t) + 1
    BY <1>1, <2>1
  <2>2. CASE i \in 1 .. Len(s) + 1
    <3>1. \A k \in i .. Len(s) : k \in i .. Len(t) /\ k \in 1 .. Len(s)
      BY <1>1, <2>2
    <3>2. (\A k \in i .. Len(s) : s[k].stop = "error") /\ m.stop = "error"
      BY <1>1, <1>5, <2>2, <3>1
    <3>3. Len(s) + 1 - i <= b
      BY <2>2, <3>2 DEF LastFailed
    <3> QED
      BY <1>1, <2>2, <3>2, <3>3
  <2> QED
    BY <1>1, <2>1, <2>2
<1> QED
  BY <1>4, <1>5 DEF LastFailed, t


LEMMA LastFailedConcat ==
  ASSUME NEW s \in Seq(AnyMessage), NEW t \in Seq(Words), NEW a \in Nat, NEW b \in Nat,
         LastFailed(s, a, b)
  PROVE  LastFailed(s \o t, a, b)
<1>1. t \in Seq(AnyMessage)
  BY DEF Words
<1>2. CASE t = <<>>
  <2>1. s \o t = s
    BY <1>2
  <2> QED
    BY <2>1
<1>3. CASE t # <<>>
  <2>1. s \o t \in Seq(AnyMessage) /\ s \o t # <<>> /\ Last(s \o t) = t[Len(t)] /\ Len(t) \in DOMAIN t
    BY <1>1, <1>3 DEF Last
  <2>2. ~Failed(Last(s \o t))
    BY <2>1 DEF Words, Failed, Failures
  <2> QED
    BY <2>1, <2>2, LastFailedNot
<1> QED
  BY <1>2, <1>3

LEMMA EverFailedMore ==
  ASSUME NEW s \in Seq(AnyMessage), NEW b \in Nat, NEW d \in Nat, b <= d, EverFailed(s, b)
  PROVE  EverFailed(s, d)
<1>1. DOMAIN s \subseteq Nat
  OBVIOUS
<1> QED
  BY <1>1 DEF EverFailed

\* It is enough to look at the last ones whenever a message is added.
LEMMA EverFailedAppend ==
  ASSUME NEW s \in Seq(AnyMessage), NEW m \in AnyMessage, NEW b \in Nat,
         EverFailed(s, b), LastFailed(Append(s, m), 2, b)
  PROVE  EverFailed(Append(s, m), b)
<1> DEFINE t == Append(s, m)
<1>1. /\ Len(s) \in Nat /\ Len(t) = Len(s) + 1 /\ DOMAIN s = 1 .. Len(s)
      /\ DOMAIN t = 1 .. Len(s) + 1 /\ \A k \in 1 .. Len(s) : t[k] = s[k]
  OBVIOUS
<1> HIDE DEF t
<1> SUFFICES ASSUME NEW i \in DOMAIN t, NEW j \in DOMAIN t, \A k \in i .. j : Failed(t[k])
             PROVE  /\ Cardinality(OverflowsIn(t, i, j)) <= 2
                    /\ (\A k \in i .. j : t[k].stop = "error") => j - i < b
  BY DEF EverFailed, t
<1>2. CASE i > j
  BY <1>1, <1>2, OverflowsAre
<1>3. CASE i <= j /\ j = Len(t)
  <2>1. LastFailed(t, 2, b)
    BY DEF t
  <2>2. i \in 1 .. Len(t) + 1
    BY <1>1
  <2>3. /\ (\A k \in i .. Len(t) : Failed(t[k])) => Cardinality(OverflowsIn(t, i, Len(t))) <= 2
        /\ (\A k \in i .. Len(t) : t[k].stop = "error") => Len(t) + 1 - i <= b
    BY <2>1, <2>2 DEF LastFailed
  <2> QED
    BY <1>1, <1>3, <2>3
<1>4. CASE i <= j /\ j # Len(t)
  <2>1. i \in DOMAIN s /\ j \in DOMAIN s
    BY <1>1, <1>4
  <2>2. \A k \in i .. j : t[k] = s[k]
    BY <1>1, <2>1
  <2>3. OverflowsIn(t, i, j) = OverflowsIn(s, i, j)
    BY <2>2 DEF OverflowsIn
  <2>4. \A k \in i .. j : Failed(s[k])
    BY <2>2
  <2> QED
    BY <2>1, <2>2, <2>3, <2>4 DEF EverFailed
<1> QED
  BY <1>1, <1>2, <1>3, <1>4

LEMMA EverFailedConcat ==
  ASSUME NEW s \in Seq(AnyMessage), NEW t \in Seq(Words), NEW b \in Nat, EverFailed(s, b)
  PROVE  EverFailed(s \o t, b)
<1> DEFINE u == s \o t
<1>1. /\ Len(s) \in Nat /\ Len(t) \in Nat /\ DOMAIN s = 1 .. Len(s)
      /\ DOMAIN u = 1 .. Len(s) + Len(t)
      /\ \A k \in 1 .. Len(s) : u[k] = s[k]
      /\ \A k \in 1 .. Len(s) + Len(t) : k > Len(s) => u[k] \in Words
  OBVIOUS
<1>2. \A m \in Words : ~Failed(m)
  BY DEF Words, Failed, Failures
<1> HIDE DEF u
<1> SUFFICES ASSUME NEW i \in DOMAIN u, NEW j \in DOMAIN u, \A k \in i .. j : Failed(u[k])
             PROVE  /\ Cardinality(OverflowsIn(u, i, j)) <= 2
                    /\ (\A k \in i .. j : u[k].stop = "error") => j - i < b
  BY DEF EverFailed, u
<1>3. CASE i > j
  BY <1>1, <1>3, OverflowsAre
<1>4. CASE i <= j
  <2>1. j \in i .. j /\ j \in 1 .. Len(s)
    BY <1>1, <1>2, <1>4
  <2>2. i \in DOMAIN s /\ j \in DOMAIN s
    BY <1>1, <1>4, <2>1
  <2>3. \A k \in i .. j : u[k] = s[k]
    BY <1>1, <2>2
  <2>4. OverflowsIn(u, i, j) = OverflowsIn(s, i, j) /\ \A k \in i .. j : Failed(s[k])
    BY <2>3 DEF OverflowsIn
  <2> QED
    BY <2>2, <2>3, <2>4 DEF EverFailed
<1> QED
  BY <1>1, <1>3, <1>4


LastIsAnswer == messages # <<>> /\ Last(messages).role = "assistant"

\* The message that is being emitted is the last of the transcript, and so is the
\* answer that a run has ended with, until the session goes on.
AnswerOK ==
  /\ emitting # Nothing => messages # <<>> /\ Last(messages) = emitting
  /\ run \in {"pollSteering", "pollFollowUp"} => lastAssistant = "stop"
  /\ \/ run \in {"pollSteering", "pollFollowUp", "end"}
     \/ \E p \in Prompts : pc[p] \in {"postRun", "trimming"}
     => LastIsAnswer
  /\ (run = "end" \/ \E p \in Prompts : pc[p] = "postRun") /\ lastAssistant \in Failures =>
       Last(messages).stop = lastAssistant

LEMMA LastOfAppend ==
  ASSUME NEW s \in Seq(AnyMessage), NEW m \in AnyMessage
  PROVE  Append(s, m) \in Seq(AnyMessage) /\ Append(s, m) # <<>> /\ Last(Append(s, m)) = m
  BY DEF Last

\* Steps that neither touch the transcript nor come to the end of a run.
LEMMA QuietAnswer ==
  ASSUME AnswerOK, UNCHANGED <<messages, emitting, lastAssistant>>,
         run' \in {"pollSteering", "pollFollowUp", "end"} => run' = run,
         \A q \in Prompts : pc'[q] \in {"postRun", "trimming"} => pc'[q] = pc[q]
  PROVE  AnswerOK'
  BY DEF AnswerOK, LastIsAnswer

\* Steps outside a run, which leave none to look at.
LEMMA OutsideAnswer ==
  ASSUME emitting' = Nothing, run' \notin {"pollSteering", "pollFollowUp", "end"},
         \A q \in Prompts : pc'[q] \notin {"postRun", "trimming"}
  PROVE  AnswerOK'
  BY DEF AnswerOK, LastIsAnswer

LEMMA UserAnswer ==
  ASSUME QInv, AnswerOK, UserStep
  PROVE  AnswerOK'
<1>1. CASE Queue \/ ClearQueue \/ Abort
  <2>1. UNCHANGED <<messages, emitting, lastAssistant, run>>
    BY <1>1 DEF Queue, ClearQueue, Abort, texts, retryvars, runvars
  <2>2. \A q \in Prompts : pc'[q] = pc[q] \/ pc'[q] = "cancelled"
    BY <1>1 DEF Queue, ClearQueue, Abort
  <2> QED
    BY <2>1, <2>2, QuietAnswer
<1>2. CASE RecordBash
  <2>1. UNCHANGED <<pc, emitting, lastAssistant, run>>
    BY <1>2 DEF RecordBash, retryvars, runvars
  <2>2. CASE isAgentRunActive
    <3>1. UNCHANGED messages
      BY <1>2, <2>2 DEF RecordBash, texts
    <3> QED
      BY <2>1, <3>1, QuietAnswer
  <2>3. CASE ~isAgentRunActive
    <3>1. run = "none" /\ \A q \in Prompts : ~Works(q)
      BY <2>3, ActiveDuringRun DEF QInv, IInv, TurnsOK
    <3>2. emitting = Nothing
      BY <3>1 DEF QInv, IInv, EmittingOK
    <3> QED
      BY <2>1, <3>1, <3>2, OutsideAnswer DEF Works
  <2> QED
    BY <2>2, <2>3
<1> QED
  BY <1>1, <1>2 DEF UserStep

LEMMA RunAnswer ==
  ASSUME QInv, AnswerOK, RunStep
  PROVE  AnswerOK'
<1>1. run # "none" /\ \A q \in Prompts : pc[q] \notin {"postRun", "trimming"}
  <2>1. run # "none"
    BY DEF RunStep, EmitTaken, Save, PollBeforeAnswer, PollAfterAnswer, PollFollowUp,
           ModelAnswers, ToolEnds, FinishRun, QInv, IInv, EmittingOK
  <2> QED
    BY <2>1, ActiveDuringRun DEF QInv, Works
<1>2. messages \in Seq(AnyMessage) /\ answers \in Nat
  BY DEF QInv, TextOK, Said
<1>3. CASE EmitTaken
  <2>1. /\ UNCHANGED <<pc, run>> /\ run \in {"prompts", "inject"}
        /\ pending # <<>> /\ messages' = Append(messages, Head(pending)) /\ emitting' = Head(pending)
    BY <1>3 DEF EmitTaken
  <2>2. Head(pending) \in AnyMessage
    BY <2>1 DEF QInv, TextOK, Users, Words
  <2> QED
    BY <1>1, <1>2, <2>1, <2>2, LastOfAppend DEF AnswerOK, LastIsAnswer
<1>4. CASE Save
  <2>1. UNCHANGED <<pc, messages>> /\ emitting # Nothing /\ emitting' = Nothing
    BY <1>4 DEF Save
  <2>2. \/ emitting.role = "assistant" /\ lastAssistant' = emitting.stop
        \/ emitting.role \in {"user", "toolResult"} /\ emitting.stop = "none"
    <3>1. emitting.role = "assistant" \/ (emitting \in Words /\ emitting.role # "bash")
      BY <2>1 DEF QInv, TextOK
    <3>2. emitting \in Words => emitting.role \in {"user", "toolResult", "bash"} /\ emitting.stop = "none"
      BY DEF Words
    <3>3. emitting.role = "assistant" => lastAssistant' = emitting.stop
      BY <1>4 DEF Save
    <3> QED
      BY <3>1, <3>2, <3>3
  <2>3. run' = AfterEmitting(emitting) /\ run \in {"prompts", "inject", "answered", "tools"}
    BY <1>4 DEF Save, QInv, IInv, EmittingOK
  <2>4. CASE emitting.role = "assistant"
    <3>1. run' = "pollSteering" => lastAssistant' = "stop"
      BY <2>2, <2>3, <2>4 DEF AfterEmitting
    <3>2. run' # "pollFollowUp"
      BY <2>3, <2>4 DEF AfterEmitting
    <3> QED
      BY <1>1, <2>1, <2>2, <2>4, <3>1, <3>2 DEF AnswerOK, LastIsAnswer
  <2>5. CASE emitting.role # "assistant"
    <3>1. run' \in {"prompts", "inject", "answered", "tools", "poll"}
      BY <2>2, <2>3, <2>5 DEF AfterEmitting
    <3> QED
      BY <1>1, <2>1, <3>1, OutsideAnswer
  <2> QED
    BY <2>4, <2>5
<1>5. CASE PollBeforeAnswer \/ PollAfterAnswer \/ PollFollowUp
  <2>1. UNCHANGED <<pc, messages, emitting, lastAssistant>>
    BY <1>5 DEF PollBeforeAnswer, PollAfterAnswer, PollFollowUp, texts, retryvars
  <2>2. \/ run' = "inject"
        \/ run = "pollSteering" /\ run' = "pollFollowUp"
        \/ run = "pollFollowUp" /\ run' = "end"
    BY <1>5 DEF PollBeforeAnswer, PollAfterAnswer, PollFollowUp, Take
  <2>3. emitting = Nothing
    BY <2>2, <1>5 DEF QInv, IInv, EmittingOK, PollBeforeAnswer, Idling, PollAfterAnswer, PollFollowUp
  <2> QED
    BY <1>1, <2>1, <2>2, <2>3 DEF AnswerOK, LastIsAnswer, Failures
<1>6. CASE ModelAnswers \/ ToolEnds
  <2>1. UNCHANGED pc /\ run' \in {"answered", "tools"}
    BY <1>6 DEF ModelAnswers, ToolEnds
  <2>2. PICK m \in AnyMessage : messages' = Append(messages, m) /\ emitting' = m
    <3>1. CASE ToolEnds
      <4>1. Result \in AnyMessage
        BY <1>2 DEF Result, AnyMessage, Ident
      <4> QED
        BY <3>1, <4>1 DEF ToolEnds, Push
    <3>2. CASE ModelAnswers
      <4>1. PICK stop \in Stops : Push(Answer(stop))
        BY <3>2 DEF ModelAnswers
      <4>2. Answer(stop) \in AnyMessage
        BY <1>2 DEF Answer, AnyMessage, Stops, Ident, Failures
      <4> QED
        BY <4>1, <4>2 DEF Push
    <3> QED
      BY <1>6, <3>1, <3>2
  <2>3. messages' # <<>> /\ Last(messages') = emitting'
    BY <1>2, <2>2, LastOfAppend
  <2> QED
    BY <1>1, <2>1, <2>3 DEF AnswerOK, LastIsAnswer
<1>7. CASE FinishRun
  <2>1. UNCHANGED <<messages, emitting, lastAssistant>> /\ run = "end" /\ run' = "none"
    BY <1>7 DEF FinishRun, texts, retryvars
  <2> QED
    BY <2>1 DEF AnswerOK, LastIsAnswer
<1> QED
  BY <1>3, <1>4, <1>5, <1>6, <1>7 DEF RunStep

\* A call that begins disturbs no run.
LEMMA CallAnswer ==
  ASSUME QInv, AnswerOK, NEW p \in Prompts,
         \/ Prompt(p) \/ PromptWhileStreaming(p) \/ Preflight(p) \/ CompactFirst(p)
         \/ CompactedFirst(p) \/ PromptEndsEarly(p) \/ Launch(p) \/ Settled(p)
  PROVE  AnswerOK'
<1>1. \A q \in Prompts : pc'[q] \in {"postRun", "trimming"} => pc'[q] = pc[q]
  BY DEF QInv, IInv, Prompt, PromptWhileStreaming, Preflight, CompactFirst, CompactedFirst,
         PromptEndsEarly, Launch, Settled, Begin, Settle
<1>2. CASE Prompt(p) \/ PromptWhileStreaming(p) \/ PromptEndsEarly(p) \/ Settled(p)
  <2>1. UNCHANGED <<messages, emitting, lastAssistant, run>>
    BY <1>2 DEF Prompt, PromptWhileStreaming, PromptEndsEarly, Settled, texts, runvars, retryvars
  <2> QED
    BY <1>1, <2>1, QuietAnswer
<1>3. CASE Preflight(p) \/ CompactFirst(p) \/ CompactedFirst(p) \/ Launch(p)
  <2>1. ~isAgentRunActive
    BY <1>3 DEF Preflight, CompactFirst, CompactedFirst, Launch, QInv, IInv, TurnsOK
  <2>2. run = "none" /\ \A q \in Prompts : ~Works(q)
    BY <2>1, ActiveDuringRun DEF QInv, IInv, TurnsOK
  <2>3. emitting = Nothing
    BY <2>2 DEF QInv, IInv, EmittingOK
  <2>4. emitting' = Nothing /\ run' \in {"none", "prompts"}
    BY <1>3, <2>2, <2>3 DEF Preflight, CompactFirst, CompactedFirst, Launch, Begin, runvars
  <2> QED
    BY <1>1, <2>2, <2>4, OutsideAnswer DEF Works
<1> QED
  BY <1>2, <1>3

\* A compaction after a run keeps the answer it ended with until it ends.
LEMMA TrimAnswer ==
  ASSUME QInv, AnswerOK, NEW p \in Prompts, Trim(p)
  PROVE  AnswerOK'
<1>1. /\ UNCHANGED <<messages, emitting, run>> /\ lastAssistant' = "none"
      /\ pc[p] = "postRun" /\ pc' = [pc EXCEPT ![p] = "trimming"]
  BY DEF Trim, runvars, texts
<1>2. run = "none"
  BY <1>1, NoRunAfterRun DEF QInv, Works
<1> QED
  BY <1>1, <1>2 DEF AnswerOK, LastIsAnswer, Failures, QInv, IInv

LEMMA AfterRunAnswer ==
  ASSUME QInv, NEW p \in Prompts,
         \/ Retry(p) \/ Recover(p) \/ Conclude(p)
         \/ BackoffEnds(p) \/ RetryCancelled(p) \/ CompactionEnds(p)
  PROVE  AnswerOK'
<1>1. Works(p) /\ pc[p] # "running"
  BY DEF Retry, Recover, Conclude, BackoffEnds, RetryCancelled, CompactionEnds, Works
<1>2. run = "none" /\ emitting = Nothing /\ \A q \in Prompts : Works(q) => q = p
  BY <1>1, NoRunAfterRun DEF QInv
<1>3. \/ pc' = [pc EXCEPT ![p] = "backoff"] /\ UNCHANGED <<run, emitting>>
      \/ pc' = [pc EXCEPT ![p] = "compacting"] /\ UNCHANGED <<run, emitting>>
      \/ pc' = [pc EXCEPT ![p] = "settling"] /\ UNCHANGED <<run, emitting>>
      \/ pc' = [pc EXCEPT ![p] = "running"] /\ emitting' = emitting
         /\ run' \in {"poll", "inject", "prompts"}
  <2>1. ASSUME NEW transcript, Continue(p, transcript)
        PROVE  \/ pc' = [pc EXCEPT ![p] = "settling"] /\ UNCHANGED <<run, emitting>>
               \/ pc' = [pc EXCEPT ![p] = "running"] /\ emitting' = emitting
                  /\ run' \in {"poll", "inject", "prompts"}
    BY <2>1 DEF Continue, Settle, Begin, runvars
  <2>2. ASSUME NEW transcript, GoOn(p, transcript)
        PROVE  \/ pc' = [pc EXCEPT ![p] = "settling"] /\ UNCHANGED <<run, emitting>>
               \/ pc' = [pc EXCEPT ![p] = "running"] /\ emitting' = emitting
                  /\ run' \in {"poll", "inject", "prompts"}
    BY <2>1, <2>2 DEF GoOn, Settle, runvars
  <2>3. CASE Retry(p) \/ Recover(p)
    BY <2>3 DEF Retry, Recover, runvars
  <2>4. CASE Conclude(p)
    BY <2>2, <2>4 DEF Conclude, Settle, runvars
  <2>5. CASE BackoffEnds(p)
    BY <2>1, <2>5 DEF BackoffEnds
  <2>6. CASE RetryCancelled(p)
    BY <2>2, <2>6 DEF RetryCancelled
  <2>7. CASE CompactionEnds(p)
    BY <2>1, <2>2, <2>7 DEF CompactionEnds
  <2> QED
    BY <2>3, <2>4, <2>5, <2>6, <2>7
<1>4. \A q \in Prompts : pc'[q] \notin {"postRun", "trimming"}
  BY <1>2, <1>3 DEF QInv, IInv, Works
<1> QED
  BY <1>2, <1>3, <1>4, OutsideAnswer


-----------------------------------------------------------------------------
\* How often the events allow it to fail.
Budget == (MaxRetries + 1) * events

\* One overflow is allowed for between two of the user's messages.
Once == IF recovered THEN 1 ELSE 0

\* What the session may have ended with when the model is asked,
Asking == LastFailed(saved, Once, Budget + retryAttempt)

\* and when the session looks at its answer.
Noted ==
  /\ lastAssistant = "error" => LastFailed(saved, Once, Budget + retryAttempt + 1)
  /\ lastAssistant = "overflow" => LastFailed(saved, Once + 1, 0)
  /\ lastAssistant \notin Failures \cup {"none"} => LastFailed(saved, 0, 0)

\* The phases in which the model is asked, or will be.
Asks ==
  \/ run \in {"poll", "tools", "pollSteering", "pollFollowUp", "answered"}
  \/ run \in {"prompts", "inject"} /\ Idling
  \/ \E p \in Prompts : pc[p] \in {"backoff", "compacting"}

\* The phases between an answer and the session's look at it.
Notes == run \in {"pollSteering", "pollFollowUp", "end"} \/ \E p \in Prompts : pc[p] = "postRun"

Cancels == \E p \in Prompts : pc[p] = "cancelled"

BoundOK ==
  /\ retryAttempt \in 0 .. MaxRetries
  /\ Asks => Asking
  /\ Notes => Noted
  /\ Cancels => LastFailed(saved, Once, Budget)

BoundInv == AnswerOK /\ BoundOK /\ RetriesAreBounded

LEMMA BoundIs ==
  /\ RetriesAreBounded <=> EverFailed(saved, (MaxRetries + 1) * (events + 1))
  /\ RetriesAreBounded' <=> EverFailed(saved', (MaxRetries + 1) * (events' + 1))
  BY DEF RetriesAreBounded, EverFailed, OverflowsIn

LEMMA BudgetIs ==
  ASSUME events \in Nat
  PROVE  /\ Budget \in Nat /\ MaxRetries \in Nat
         /\ (MaxRetries + 1) * (events + 1) = Budget + MaxRetries + 1
  BY BoundsAssumption DEF Budget

LEMMA BudgetGrows ==
  ASSUME events \in Nat, events' \in {events, events + 1}
  PROVE  /\ events' \in Nat /\ Budget' \in Nat
         /\ events' = events => Budget' = Budget
         /\ events' = events + 1 => Budget' = Budget + MaxRetries + 1
         /\ (MaxRetries + 1) * (events' + 1) = Budget' + MaxRetries + 1
<1>1. Budget' = (MaxRetries + 1) * events' /\ MaxRetries \in Nat
  BY BoundsAssumption DEF Budget
<1>2. CASE events' = events
  BY <1>1, <1>2, BudgetIs DEF Budget
<1>3. CASE events' = events + 1
  <2>1. Budget' = Budget + MaxRetries + 1
    BY <1>1, <1>3 DEF Budget
  <2>2. (MaxRetries + 1) * (events' + 1) = (MaxRetries + 1) * events' + MaxRetries + 1
    BY <1>1, <1>3
  <2> QED
    BY <1>1, <1>3, <2>1, <2>2, BudgetIs
<1> QED
  BY <1>2, <1>3

LEMMA Budgets ==
  ASSUME TextOK, events' \in {events, events + 1}
  PROVE  /\ saved \in Seq(AnyMessage) /\ events \in Nat
         /\ Budget \in Nat /\ Budget' \in Nat /\ Budget <= Budget' /\ MaxRetries \in Nat
<1>1. saved \in Seq(AnyMessage) /\ events \in Nat
  BY DEF TextOK, Said
<1>2. Budget \in Nat /\ MaxRetries \in Nat
  BY <1>1, BudgetIs
<1>3. Budget' \in Nat /\ (Budget' = Budget \/ Budget' = Budget + MaxRetries + 1)
  BY <1>1, BudgetGrows
<1> QED
  BY <1>1, <1>2, <1>3

\* A step that saves nothing, in a phase that is no further.
LEMMA QuietBound ==
  ASSUME TextOK, BoundOK, RetriesAreBounded, events' \in {events, events + 1},
         UNCHANGED <<saved, lastAssistant, retryAttempt>>,
         Asks' \/ Notes' \/ Cancels' => recovered' = recovered,
         Asks' => Asks, Notes' => Notes, Cancels' => Cancels
  PROVE  BoundOK' /\ RetriesAreBounded'
<1>1. /\ saved \in Seq(AnyMessage) /\ events \in Nat /\ retryAttempt \in Nat
      /\ Once \in Nat /\ Budget \in Nat /\ Budget' \in Nat /\ Budget <= Budget'
      /\ MaxRetries \in Nat
  <2>1. Once \in Nat /\ retryAttempt \in 0 .. MaxRetries
    BY DEF BoundOK, Once
  <2> QED
    BY <2>1, Budgets
<1>2. Asks' \/ Notes' \/ Cancels' => Once' = Once
  BY DEF Once
<1>3. Asks' => Asking'
  <2>1. SUFFICES ASSUME Asks' PROVE LastFailed(saved, Once, Budget' + retryAttempt)
    BY <1>2 DEF Asking
  <2>2. LastFailed(saved, Once, Budget + retryAttempt)
    BY <2>1 DEF BoundOK, Asking
  <2> QED
    BY <1>1, <2>2, LastFailedMore
<1>4. Notes' => Noted'
  <2>1. SUFFICES ASSUME Notes', lastAssistant = "error"
                 PROVE  LastFailed(saved, Once, Budget' + retryAttempt + 1)
    BY <1>2 DEF Noted, BoundOK
  <2>2. LastFailed(saved, Once, Budget + retryAttempt + 1)
    BY <2>1 DEF BoundOK, Noted
  <2> QED
    BY <1>1, <2>2, LastFailedMore
<1>5. Cancels' => LastFailed(saved, Once, Budget)'
  <2>1. SUFFICES ASSUME Cancels' PROVE LastFailed(saved, Once, Budget')
    BY <1>2
  <2>2. LastFailed(saved, Once, Budget)
    BY <2>1 DEF BoundOK
  <2> QED
    BY <1>1, <2>2, LastFailedMore
<1>6. RetriesAreBounded'
  <2>1. EverFailed(saved, Budget + MaxRetries + 1)
    BY <1>1, BoundIs, BudgetIs
  <2>2. (MaxRetries + 1) * (events' + 1) = Budget' + MaxRetries + 1 /\ events' \in Nat
    BY <1>1, BudgetGrows
  <2>3. EverFailed(saved, Budget' + MaxRetries + 1)
    BY <1>1, <2>1, EverFailedMore
  <2> QED
    BY <2>2, <2>3, BoundIs
<1> QED
  BY <1>3, <1>4, <1>5, <1>6 DEF BoundOK

\* Outside a run, and with nothing to look at, only what was said counts.
LEMMA OutsideBound ==
  ASSUME TextOK, BoundOK, RetriesAreBounded, events' \in {events, events + 1},
         retryAttempt' \in 0 .. MaxRetries, ~Asks', ~Notes', ~Cancels',
         \E t \in Seq(Words) : saved' = saved \o t
  PROVE  BoundOK' /\ RetriesAreBounded'
<1>1. /\ saved \in Seq(AnyMessage) /\ events \in Nat
      /\ Budget \in Nat /\ Budget' \in Nat /\ Budget <= Budget' /\ MaxRetries \in Nat
  BY Budgets
<1>2. EverFailed(saved, Budget + MaxRetries + 1)
  BY <1>1, BoundIs, BudgetIs
<1>3. (MaxRetries + 1) * (events' + 1) = Budget' + MaxRetries + 1 /\ events' \in Nat
  BY <1>1, BudgetGrows
<1>4. EverFailed(saved, Budget' + MaxRetries + 1)
  BY <1>1, <1>2, EverFailedMore
<1>5. EverFailed(saved', Budget' + MaxRetries + 1)
  BY <1>1, <1>4, EverFailedConcat
<1> QED
  BY <1>3, <1>5, BoundIs DEF BoundOK


-----------------------------------------------------------------------------
LEMMA UserBound ==
  ASSUME QInv, BoundOK, RetriesAreBounded, UserStep
  PROVE  BoundOK' /\ RetriesAreBounded'
<1>1. TextOK /\ IInv
  BY DEF QInv
<1>2. /\ UNCHANGED <<run, pending, emitting, lastAssistant, retryAttempt, recovered>>
      /\ events' \in {events, events + 1}
  BY DEF UserStep, Queue, ClearQueue, RecordBash, Abort, retryvars, runvars, Event
<1>3. CASE Queue \/ ClearQueue
  <2>1. UNCHANGED <<pc, saved>>
    BY <1>3 DEF Queue, ClearQueue, texts
  <2>2. (Asks' <=> Asks) /\ (Notes' <=> Notes) /\ (Cancels' <=> Cancels)
    BY <1>2, <2>1 DEF Asks, Notes, Cancels, Idling
  <2> QED
    BY <1>1, <1>2, <2>1, <2>2, QuietBound
<1>4. CASE RecordBash
  <2>1. UNCHANGED pc
    BY <1>4 DEF RecordBash
  <2>2. (Asks' <=> Asks) /\ (Notes' <=> Notes) /\ (Cancels' <=> Cancels)
    BY <1>2, <2>1 DEF Asks, Notes, Cancels, Idling
  <2>3. CASE isAgentRunActive
    <3>1. UNCHANGED saved
      BY <1>4, <2>3 DEF RecordBash, texts
    <3> QED
      BY <1>1, <1>2, <2>2, <3>1, QuietBound
  <2>4. CASE ~isAgentRunActive
    <3>1. run = "none" /\ \A q \in Prompts : ~Works(q)
      BY <1>1, <2>4, ActiveDuringRun DEF IInv, TurnsOK
    <3>2. ~Asks' /\ ~Notes' /\ ~Cancels'
      BY <2>2, <3>1 DEF Asks, Notes, Cancels, Works
    <3>3. Bash \in Words /\ saved \in Seq(AnyMessage)
      BY <1>1 DEF Bash, TextOK, Words, AnyMessage, Ident, Said
    <3>4. saved' = Append(saved, Bash)
      BY <1>4, <2>4 DEF RecordBash
    <3>5. <<Bash>> \in Seq(Words) /\ Append(saved, Bash) = saved \o <<Bash>>
      BY <3>3
    <3> QED
      BY <1>1, <1>2, <3>2, <3>4, <3>5, OutsideBound DEF BoundOK
  <2> QED
    BY <2>3, <2>4
<1>5. CASE Abort
  <2>1. /\ UNCHANGED saved /\ events' = events + 1
        /\ pc' = [p \in Prompts |-> IF p = retryAbort /\ pc[p] = "backoff" THEN "cancelled" ELSE pc[p]]
    BY <1>5 DEF Abort, texts, Event
  <2>2. (Asks' => Asks) /\ (Notes' => Notes)
    BY <1>2, <2>1 DEF Asks, Notes, Idling
  <2>3. CASE Cancels' => Cancels
    BY <1>1, <1>2, <2>1, <2>2, <2>3, QuietBound
  <2>4. CASE Cancels' /\ ~Cancels
    \* One is cancelled that waited for its turn to ask.
    <3>1. PICK p \in Prompts : pc[p] = "backoff" /\ pc'[p] = "cancelled"
      BY <2>1, <2>4 DEF Cancels
    <3>2. run = "none" /\ \A q \in Prompts : Works(q) => q = p
      BY <1>1, <3>1, NoRunAfterRun DEF Works
    <3>3. ~Asks' /\ ~Notes'
      BY <1>2, <2>1, <3>1, <3>2 DEF Asks, Notes, Works
    <3>4. Asking /\ Once' = Once
      BY <1>2, <3>1 DEF BoundOK, Asks, Once
    <3>5. /\ saved \in Seq(AnyMessage) /\ Once \in Nat /\ Budget + retryAttempt \in Nat
          /\ Budget' \in Nat /\ Budget + retryAttempt <= Budget'
      <4>1. Once \in Nat /\ retryAttempt \in 0 .. MaxRetries
        BY <1>1 DEF BoundOK, Once
      <4>2. /\ saved \in Seq(AnyMessage) /\ Budget \in Nat /\ MaxRetries \in Nat
            /\ Budget' = Budget + MaxRetries + 1
        <5>1. events \in Nat /\ saved \in Seq(AnyMessage)
          BY <1>1 DEF TextOK, Said
        <5> QED
          BY <2>1, <5>1, BudgetIs, BudgetGrows
      <4> QED
        BY <4>1, <4>2
    <3>6. LastFailed(saved, Once, Budget')
      BY <3>4, <3>5, LastFailedMore DEF Asking
    <3>7. RetriesAreBounded'
      <4>1. EverFailed(saved, Budget + MaxRetries + 1)
        BY <1>1, BoundIs, BudgetIs DEF TextOK
      <4>2. /\ (MaxRetries + 1) * (events' + 1) = Budget' + MaxRetries + 1
            /\ Budget' = Budget + MaxRetries + 1 /\ Budget \in Nat /\ MaxRetries \in Nat
        BY <1>1, <2>1, BudgetIs, BudgetGrows DEF TextOK
      <4>3. EverFailed(saved, Budget' + MaxRetries + 1)
        BY <3>5, <4>1, <4>2, EverFailedMore
      <4> QED
        BY <2>1, <4>2, <4>3, BoundIs
    <3> QED
      BY <1>2, <2>1, <3>3, <3>4, <3>6, <3>7 DEF BoundOK
  <2> QED
    BY <2>3, <2>4
<1> QED
  BY <1>3, <1>4, <1>5 DEF UserStep

\* An answer is saved: here the session learns how it ended.
LEMMA SaveBound ==
  ASSUME QInv, BoundOK, RetriesAreBounded, Save
  PROVE  BoundOK' /\ RetriesAreBounded'
<1>1. TextOK /\ IInv
  BY DEF QInv
<1>2. /\ saved' = Append(saved, emitting) /\ run' = AfterEmitting(emitting)
      /\ UNCHANGED <<pc, events, pending>> /\ emitting # Nothing
  BY DEF Save, counts
<1>3. /\ emitting \in AnyMessage /\ saved \in Seq(AnyMessage)
      /\ \/ emitting \in Words /\ emitting.role \in {"user", "toolResult"} /\ emitting.stop = "none"
         \/ emitting.role = "assistant" /\ run = "answered"
  BY <1>1, <1>2 DEF TextOK, Words, Said
<1>4. /\ Budget' = Budget /\ Budget \in Nat /\ MaxRetries \in Nat
      /\ (MaxRetries + 1) * (events + 1) = Budget + MaxRetries + 1
      /\ retryAttempt \in 0 .. MaxRetries
  BY <1>1, <1>2, BudgetIs, BudgetGrows DEF TextOK, BoundOK
<1>5. \A q \in Prompts : pc'[q] \notin {"postRun", "backoff", "compacting", "cancelled"}
  <2>1. run # "none"
    BY <1>1, <1>2 DEF IInv, EmittingOK
  <2> QED
    BY <1>1, <1>2, <2>1, ActiveDuringRun DEF Works
<1>6. EverFailed(saved, Budget + MaxRetries + 1)
  BY <1>4, BoundIs
<1>7. EverFailed(saved', Budget + MaxRetries + 1) => RetriesAreBounded'
  BY <1>2, <1>4, BoundIs
<1>8. CASE ~Failed(emitting)
  <2>1. \A a, b \in Nat : LastFailed(saved', a, b)
    BY <1>2, <1>3, <1>8, LastOfAppend, LastFailedNot
  <2>2. retryAttempt' \in 0 .. MaxRetries /\ Once' \in Nat
    BY <1>4, <1>8 DEF Save, Once
  <2>3. Asking' /\ Noted' /\ LastFailed(saved, Once, Budget)'
    BY <1>4, <2>1, <2>2 DEF Asking, Noted
  <2>4. EverFailed(saved', Budget + MaxRetries + 1)
    BY <1>2, <1>3, <1>4, <1>6, <2>1, EverFailedAppend
  <2> QED
    BY <1>7, <2>2, <2>3, <2>4 DEF BoundOK
<1>9. CASE Failed(emitting)
  <2>1. emitting.role = "assistant" /\ run = "answered"
    BY <1>3, <1>9 DEF Failed, Failures
  <2>2. lastAssistant' = emitting.stop /\ retryAttempt' = retryAttempt /\ Once' = Once
    <3>1. /\ lastAssistant' = emitting.stop /\ recovered' = (recovered /\ Failed(emitting))
          /\ retryAttempt' = retryAttempt
      BY <1>9, <2>1 DEF Save
    <3>2. recovered' <=> recovered
      BY <1>9, <3>1, Zenon
    <3> QED
      BY <3>1, <3>2 DEF Once
  <2>3. LastFailed(saved, Once, Budget + retryAttempt) /\ Once \in {0, 1}
    BY <2>1 DEF BoundOK, Asks, Asking, Once
  <2>4. LastFailed(saved', IF emitting.stop = "overflow" THEN Once + 1 ELSE Once,
                   IF emitting.stop = "error" THEN Budget + retryAttempt + 1 ELSE 0)
    BY <1>2, <1>3, <1>4, <2>3, LastFailedAppend
  <2>5. run' = "end" /\ emitting.stop \in Failures
    BY <1>2, <1>9, <2>1 DEF AfterEmitting, Failed, Failures
  <2>6. ~Asks' /\ ~Cancels' /\ Noted'
    BY <1>4, <1>5, <2>2, <2>4, <2>5 DEF Asks, Cancels, Noted, Failures
  <2>7. LastFailed(saved', 2, Budget + MaxRetries + 1)
    <3>1. saved' \in Seq(AnyMessage)
      BY <1>2, <1>3
    <3> DEFINE a == IF emitting.stop = "overflow" THEN Once + 1 ELSE Once
    <3> DEFINE b == IF emitting.stop = "error" THEN Budget + retryAttempt + 1 ELSE 0
    <3>2. a \in Nat /\ b \in Nat /\ a <= 2 /\ b <= Budget + MaxRetries + 1
      BY <1>4, <2>3
    <3>3. LastFailed(saved', a, b)
      BY <2>4
    <3> HIDE DEF a, b
    <3> QED
      BY <1>4, <3>1, <3>2, <3>3, LastFailedMore
  <2>8. EverFailed(saved', Budget + MaxRetries + 1)
    BY <1>2, <1>3, <1>4, <1>6, <2>7, EverFailedAppend
  <2> QED
    BY <1>4, <1>7, <2>2, <2>6, <2>8 DEF BoundOK
<1> QED
  BY <1>8, <1>9


\* The other steps of a run save nothing.
LEMMA RunBound ==
  ASSUME QInv, BoundOK, RetriesAreBounded, RunStep
  PROVE  BoundOK' /\ RetriesAreBounded'
<1>1. TextOK /\ IInv
  BY DEF QInv
<1>2. CASE EmitTaken
  <2>1. /\ UNCHANGED <<saved, pc, run, events, lastAssistant, retryAttempt>>
        /\ run \in {"prompts", "inject"} /\ pending # <<>> /\ emitting' = Head(pending)
    BY <1>2 DEF EmitTaken, counts
  <2>2. emitting' # Nothing
    <3>1. Head(pending) \in Users
      BY <1>1, <2>1 DEF TextOK
    <3> QED
      BY <2>1, <3>1 DEF Users, Nothing
  <2>3. \A q \in Prompts : pc[q] \notin {"postRun", "backoff", "compacting", "cancelled"}
    BY <1>1, <2>1, ActiveDuringRun DEF Works
  <2>4. ~Asks' /\ ~Notes' /\ ~Cancels'
    BY <2>1, <2>2, <2>3 DEF Asks, Notes, Cancels, Idling
  <2> QED
    BY <1>1, <2>1, <2>4, QuietBound
<1>3. CASE Save
  BY <1>3, SaveBound
<1>4. CASE PollBeforeAnswer \/ PollAfterAnswer \/ PollFollowUp \/ ModelAnswers \/ ToolEnds
  <2>1. UNCHANGED <<pc, saved, events, lastAssistant, retryAttempt, recovered>>
    BY <1>4 DEF PollBeforeAnswer, PollAfterAnswer, PollFollowUp, ModelAnswers, ToolEnds,
                texts, counts, retryvars
  <2>2. Asks /\ (Notes' => Notes)
    BY <1>4, <2>1 DEF PollBeforeAnswer, PollAfterAnswer, PollFollowUp, ModelAnswers, ToolEnds,
                      Asks, Notes, Take
  <2>3. Cancels' <=> Cancels
    BY <2>1 DEF Cancels
  <2> QED
    BY <1>1, <2>1, <2>2, <2>3, QuietBound
<1>5. CASE FinishRun
  <2>1. /\ UNCHANGED <<saved, events, lastAssistant, retryAttempt, recovered>>
        /\ run = "end" /\ run' = "none" /\ pc' = [pc EXCEPT ![owner] = "postRun"]
    BY <1>5 DEF FinishRun, texts, counts, retryvars
  <2>2. Notes
    BY <2>1 DEF Notes
  <2>3. (Asks' => Asks) /\ (Cancels' => Cancels)
    BY <1>1, <2>1 DEF Asks, Cancels, IInv
  <2> QED
    BY <1>1, <2>1, <2>2, <2>3, QuietBound
<1> QED
  BY <1>2, <1>3, <1>4, <1>5 DEF RunStep

LEMMA CallBound ==
  ASSUME QInv, BoundOK, RetriesAreBounded, NEW p \in Prompts,
         \/ Prompt(p) \/ PromptWhileStreaming(p) \/ Preflight(p) \/ CompactFirst(p)
         \/ CompactedFirst(p) \/ PromptEndsEarly(p) \/ Launch(p) \/ Settled(p)
  PROVE  BoundOK' /\ RetriesAreBounded'
<1>1. TextOK /\ IInv
  BY DEF QInv
<1>2. /\ UNCHANGED <<events, lastAssistant, retryAttempt>>
      /\ retryAttempt \in 0 .. MaxRetries
  BY DEF Prompt, PromptWhileStreaming, Preflight, CompactFirst, CompactedFirst, PromptEndsEarly,
         Launch, Settled, counts, retryvars, BoundOK
<1>3. \A q \in Prompts : pc'[q] \in {"postRun", "backoff", "compacting", "cancelled"} => pc'[q] = pc[q]
  BY <1>1 DEF IInv, Prompt, PromptWhileStreaming, Preflight, CompactFirst, CompactedFirst,
              PromptEndsEarly, Launch, Settled, Begin, Settle
<1>4. CASE Prompt(p) \/ PromptWhileStreaming(p) \/ PromptEndsEarly(p) \/ Settled(p)
  <2>1. UNCHANGED <<saved, run, pending, emitting, recovered>>
    BY <1>4 DEF Prompt, PromptWhileStreaming, PromptEndsEarly, Settled, texts, runvars, retryvars
  <2>2. (Asks' => Asks) /\ (Notes' => Notes) /\ (Cancels' => Cancels)
    BY <1>3, <2>1 DEF Asks, Notes, Cancels, Idling
  <2> QED
    BY <1>1, <1>2, <2>1, <2>2, QuietBound
<1>5. CASE Preflight(p) \/ CompactFirst(p) \/ CompactedFirst(p) \/ Launch(p)
  <2>1. ~isAgentRunActive
    BY <1>1, <1>5 DEF Preflight, CompactFirst, CompactedFirst, Launch, IInv, TurnsOK
  <2>2. run = "none" /\ \A q \in Prompts : ~Works(q)
    BY <1>1, <2>1, ActiveDuringRun DEF IInv, TurnsOK
  <2>3. run' = "none" \/ (run' = "prompts" /\ pending' = <<User(p)>>)
    BY <1>5, <2>2 DEF Preflight, CompactFirst, CompactedFirst, Launch, Begin, runvars
  <2>4. ~Asks' /\ ~Notes' /\ ~Cancels'
    BY <1>3, <2>2, <2>3 DEF Asks, Notes, Cancels, Idling, Works
  <2>5. pendingBash \in Seq(Words) /\ saved \in Seq(AnyMessage)
    BY <1>1 DEF TextOK, Said
  <2>6. saved' = saved \o pendingBash \/ saved' = saved \o <<>>
    BY <1>5, <2>2, <2>5 DEF Preflight, CompactFirst, CompactedFirst, Launch, FlushPendingBash, texts
  <2>7. <<>> \in Seq(Words)
    OBVIOUS
  <2> QED
    BY <1>1, <1>2, <2>4, <2>5, <2>6, <2>7, OutsideBound
<1> QED
  BY <1>4, <1>5

\* A compaction after a run asks nothing yet.
LEMMA TrimBound ==
  ASSUME QInv, BoundOK, RetriesAreBounded, NEW p \in Prompts, Trim(p)
  PROVE  BoundOK' /\ RetriesAreBounded'
<1>1. TextOK /\ IInv
  BY DEF QInv
<1>2. /\ pc[p] = "postRun" /\ pc' = [pc EXCEPT ![p] = "trimming"]
      /\ UNCHANGED <<events, saved, run>> /\ retryAttempt' \in {0, retryAttempt}
  BY DEF Trim, counts, runvars, texts
<1>3. run = "none" /\ \A q \in Prompts : Works(q) => q = p
  BY <1>1, <1>2, NoRunAfterRun DEF Works
<1>4. ~Asks' /\ ~Notes' /\ ~Cancels'
  BY <1>1, <1>2, <1>3 DEF Asks, Notes, Cancels, Works, IInv
<1>5. saved' = saved \o <<>> /\ <<>> \in Seq(Words)
  BY <1>1, <1>2 DEF TextOK, Said
<1>6. retryAttempt' \in 0 .. MaxRetries
  BY <1>2, BoundsAssumption DEF BoundOK
<1> QED
  BY <1>1, <1>2, <1>4, <1>5, <1>6, OutsideBound

\* A retry, or a recovery, asks once more.
LEMMA RetryBound ==
  ASSUME QInv, BoundOK, RetriesAreBounded, NEW p \in Prompts, Retry(p) \/ Recover(p)
  PROVE  BoundOK' /\ RetriesAreBounded'
<1>1. TextOK /\ IInv /\ Noted
  BY DEF QInv, Retry, Recover, BoundOK, Notes
<1>2. UNCHANGED <<events, saved, run, pending, emitting>> /\ pc[p] = "postRun"
  BY DEF Retry, Recover, counts, runvars
<1>3. run = "none" /\ \A q \in Prompts : Works(q) => q = p
  BY <1>1, <1>2, NoRunAfterRun DEF Works
<1>4. /\ Budget' = Budget /\ Budget \in Nat /\ MaxRetries \in Nat
      /\ saved \in Seq(AnyMessage) /\ retryAttempt \in 0 .. MaxRetries
  BY <1>1, <1>2, BudgetIs, BudgetGrows DEF TextOK, Said, BoundOK
<1>5. RetriesAreBounded'
  BY <1>2, BoundIs
<1>6. \A q \in Prompts \ {p} : pc'[q] = pc[q]
  BY <1>1 DEF Retry, Recover, IInv
<1>7. pc'[p] \in {"backoff", "compacting"}
  BY <1>1 DEF Retry, Recover, IInv
<1>8. ~Notes' /\ ~Cancels'
  BY <1>2, <1>3, <1>6, <1>7 DEF Notes, Cancels, Works
<1>9. CASE Retry(p)
  <2>1. /\ lastAssistant = "error" /\ retryAttempt < MaxRetries /\ retryAttempt' = retryAttempt + 1
        /\ recovered' = recovered
    BY <1>9 DEF Retry
  <2>2. LastFailed(saved, Once, Budget + retryAttempt + 1) /\ Once' = Once
    BY <1>1, <2>1 DEF Noted, Once
  <2>3. retryAttempt' \in 0 .. MaxRetries /\ Budget + (retryAttempt + 1) = Budget + retryAttempt + 1
    BY <1>4, <2>1
  <2>4. Asking'
    BY <1>2, <1>4, <2>1, <2>2, <2>3 DEF Asking
  <2> QED
    BY <1>5, <1>8, <2>3, <2>4 DEF BoundOK
<1>10. CASE Recover(p)
  <2>1. lastAssistant = "overflow" /\ ~recovered /\ retryAttempt' = 0 /\ recovered' = TRUE
    BY <1>10 DEF Recover
  <2>2. LastFailed(saved, 1, 0) /\ Once' = 1
    BY <1>1, <2>1 DEF Noted, Once
  <2>3. LastFailed(saved, 1, Budget + 0)
    BY <1>4, <2>2, LastFailedMore
  <2>4. Asking'
    BY <1>2, <1>4, <2>1, <2>2, <2>3 DEF Asking
  <2> QED
    BY <1>4, <1>5, <1>8, <2>1, <2>4 DEF BoundOK
<1> QED
  BY <1>9, <1>10

\* What follows a run, a backoff or a compaction ends, or asks on a transcript
\* that the last failed answer is not in.
LEMMA SettleBound ==
  ASSUME QInv, BoundOK, RetriesAreBounded, NEW p \in Prompts, NEW transcript,
         Works(p), pc[p] # "running", retryAttempt' \in 0 .. MaxRetries, UNCHANGED events,
         Settle(p, transcript) /\ UNCHANGED runvars
  PROVE  BoundOK' /\ RetriesAreBounded'
<1>1. TextOK /\ IInv
  BY DEF QInv
<1>2. run = "none" /\ \A q \in Prompts : Works(q) => q = p
  BY <1>1, NoRunAfterRun
<1>3. run' = "none" /\ pc' = [pc EXCEPT ![p] = "settling"] /\ saved' = saved \o pendingBash
  BY <1>2 DEF Settle, FlushPendingBash, runvars
<1>4. ~Asks' /\ ~Notes' /\ ~Cancels'
  BY <1>1, <1>2, <1>3 DEF Asks, Notes, Cancels, Works, IInv
<1>5. pendingBash \in Seq(Words)
  BY <1>1 DEF TextOK
<1> QED
  BY <1>1, <1>3, <1>4, <1>5, OutsideBound

LEMMA ContinueBound ==
  ASSUME QInv, BoundOK, RetriesAreBounded, NEW p \in Prompts, NEW transcript,
         Works(p), pc[p] # "running", retryAttempt' \in 0 .. MaxRetries, UNCHANGED events,
         Continue(p, transcript),
         ~(transcript # <<>> /\ Last(transcript).role = "assistant") =>
            LastFailed(saved, Once', Budget + retryAttempt')
  PROVE  BoundOK' /\ RetriesAreBounded'
<1>1. TextOK /\ IInv
  BY DEF QInv
<1>2. run = "none" /\ \A q \in Prompts : Works(q) => q = p
  BY <1>1, NoRunAfterRun
<1>3. CASE Settle(p, transcript) /\ UNCHANGED runvars
  BY <1>3, SettleBound
<1>4. CASE ~(Settle(p, transcript) /\ UNCHANGED runvars)
  <2> DEFINE answered == transcript # <<>> /\ Last(transcript).role = "assistant"
  <2>1. /\ saved' = saved
        /\ \/ ~answered /\ Begin(p, "poll", <<>>)
           \/ Begin(p, "inject", <<Head(steeringQueue)>>)
           \/ Begin(p, "prompts", <<Head(followUpQueue)>>)
    BY <1>4 DEF Continue
  <2>2. /\ pc' = [pc EXCEPT ![p] = "running"]
        /\ \/ ~answered /\ run' = "poll"
           \/ run' \in {"inject", "prompts"} /\ pending' # <<>>
    BY <2>1 DEF Begin
  <2>3. ~Notes' /\ ~Cancels' /\ (Asks' => ~answered)
    BY <1>1, <1>2, <2>2 DEF Asks, Notes, Cancels, Idling, Works, IInv
  <2>4. Budget' = Budget
    BY <1>1, BudgetGrows DEF TextOK
  <2>5. Asks' => Asking'
    BY <2>1, <2>3, <2>4 DEF Asking
  <2>6. RetriesAreBounded'
    BY <2>1, BoundIs
  <2> QED
    BY <2>3, <2>5, <2>6 DEF BoundOK
<1> QED
  BY <1>3, <1>4

LEMMA GoOnBound ==
  ASSUME QInv, BoundOK, RetriesAreBounded, NEW p \in Prompts, NEW transcript,
         Works(p), pc[p] # "running", retryAttempt' \in 0 .. MaxRetries, UNCHANGED events,
         GoOn(p, transcript),
         ~(transcript # <<>> /\ Last(transcript).role = "assistant") =>
            LastFailed(saved, Once', Budget + retryAttempt')
  PROVE  BoundOK' /\ RetriesAreBounded'
<1>1. CASE Continue(p, transcript)
  BY <1>1, ContinueBound
<1>2. CASE Settle(p, transcript) /\ UNCHANGED runvars
  BY <1>2, SettleBound
<1> QED
  BY <1>1, <1>2 DEF GoOn

LEMMA AfterRunBound ==
  ASSUME QInv, AnswerOK, BoundOK, RetriesAreBounded, NEW p \in Prompts,
         Conclude(p) \/ BackoffEnds(p) \/ RetryCancelled(p) \/ CompactionEnds(p)
  PROVE  BoundOK' /\ RetriesAreBounded'
<1>1. /\ Works(p) /\ pc[p] # "running" /\ UNCHANGED events /\ UNCHANGED recovered
      /\ (Once' = Once) /\ Once \in Nat
  <2>1. UNCHANGED <<events, recovered>>
    BY Zenon DEF Conclude, BackoffEnds, RetryCancelled, CompactionEnds, counts, retryvars
  <2>2. pc[p] \in {"postRun", "backoff", "cancelled", "compacting", "trimming"}
    BY DEF Conclude, BackoffEnds, RetryCancelled, CompactionEnds
  <2> QED
    BY <2>1, <2>2 DEF Works, Once
<1>2. /\ retryAttempt \in 0 .. MaxRetries /\ 0 \in 0 .. MaxRetries
      /\ Budget \in Nat /\ saved \in Seq(AnyMessage)
  BY BoundsAssumption, BudgetIs DEF BoundOK, QInv, TextOK, Said
<1>3. CASE Conclude(p)
  <2>1. /\ pc[p] = "postRun" /\ Noted /\ lastAssistant # "none"
        /\ retryAttempt' = IF lastAssistant \in Failures THEN 0 ELSE retryAttempt
        /\ GoOn(p, messages)
    BY <1>3 DEF Conclude, BoundOK, Notes, QInv, NotedOK
  <2>2. CASE lastAssistant \in Failures
    <3>1. messages # <<>> /\ Last(messages).role = "assistant"
      BY <2>1, <2>2 DEF AnswerOK, LastIsAnswer
    <3> QED
      BY <1>1, <1>2, <2>1, <2>2, <3>1, GoOnBound
  <2>3. CASE lastAssistant \notin Failures
    <3>1. LastFailed(saved, 0, 0) /\ retryAttempt' = retryAttempt
      BY <2>1, <2>3 DEF Noted
    <3>2. LastFailed(saved, Once, Budget + retryAttempt)
      BY <1>1, <1>2, <3>1, LastFailedMore
    <3> QED
      BY <1>1, <1>2, <2>1, <3>1, <3>2, GoOnBound
  <2> QED
    BY <2>2, <2>3
<1>4. CASE BackoffEnds(p)
  <2>1. Asking /\ retryAttempt' = retryAttempt /\ Continue(p, messages)
    BY <1>4 DEF BackoffEnds, BoundOK, Asks
  <2> QED
    BY <1>1, <1>2, <2>1, ContinueBound DEF Asking
<1>5. CASE RetryCancelled(p)
  <2>1. LastFailed(saved, Once, Budget + 0) /\ retryAttempt' = 0 /\ GoOn(p, messages)
    BY <1>2, <1>5 DEF RetryCancelled, BoundOK, Cancels
  <2> QED
    BY <1>1, <1>2, <2>1, GoOnBound
<1>6. CASE CompactionEnds(p)
  <2>1. UNCHANGED retryAttempt
    BY <1>6 DEF CompactionEnds, retryvars
  <2>2. CASE pc[p] = "compacting"
    <3>1. Asking
      BY <2>2 DEF BoundOK, Asks
    <3>2. \E transcript : Continue(p, transcript) \/ GoOn(p, transcript)
      BY <1>6 DEF CompactionEnds
    <3> QED
      BY <1>1, <1>2, <2>1, <3>1, <3>2, ContinueBound, GoOnBound DEF Asking
  <2>3. CASE pc[p] = "trimming"
    <3>1. GoOn(p, saved) \/ GoOn(p, messages)
      BY <1>6, <2>3 DEF CompactionEnds, Rebuilt
    <3>2. messages # <<>> /\ Last(messages).role = "assistant"
      BY <2>3 DEF AnswerOK, LastIsAnswer
    <3>3. ASSUME ~(saved # <<>> /\ Last(saved).role = "assistant")
          PROVE  LastFailed(saved, Once', Budget + retryAttempt')
      <4>1. saved # <<>> /\ Last(saved) \in AnyMessage
        BY <1>1, <1>2 DEF QInv, BegunOK, Last
      <4>2. ~Failed(Last(saved))
        BY <3>3, <4>1 DEF Failed, Failures, AnyMessage
      <4> QED
        BY <1>1, <1>2, <2>1, <4>1, <4>2, LastFailedNot
    <3> QED
      BY <1>1, <1>2, <2>1, <3>1, <3>2, <3>3, GoOnBound
  <2> QED
    BY <1>6, <2>2, <2>3 DEF CompactionEnds
<1> QED
  BY <1>3, <1>4, <1>5, <1>6


LEMMA NextBound ==
  ASSUME QInv, BoundInv, [Next]_vars PROVE BoundInv'
<1>1. AnswerOK /\ BoundOK /\ RetriesAreBounded /\ TextOK
  BY DEF BoundInv, QInv
<1>2. CASE UNCHANGED vars
  <2>1. /\ UNCHANGED <<pc, messages, emitting, lastAssistant, run, pending, saved, retryAttempt,
                      recovered>>
        /\ events' = events
    BY <1>2 DEF vars, texts, runvars, counts, retryvars
  <2>2. AnswerOK'
    BY <1>1, <2>1, QuietAnswer
  <2>3. (Asks' <=> Asks) /\ (Notes' <=> Notes) /\ (Cancels' <=> Cancels)
    BY <2>1 DEF Asks, Notes, Cancels, Idling
  <2>4. BoundOK' /\ RetriesAreBounded'
    BY <1>1, <2>1, <2>3, QuietBound
  <2> QED
    BY <2>2, <2>4 DEF BoundInv
<1>3. CASE UserStep
  BY <1>1, <1>3, UserAnswer, UserBound DEF BoundInv
<1>4. CASE RunStep
  BY <1>1, <1>4, RunAnswer, RunBound DEF BoundInv
<1>5. ASSUME NEW p \in Prompts, Prompt(p) \/ PromptStep(p) PROVE BoundInv'
  <2>1. CASE \/ Prompt(p) \/ PromptWhileStreaming(p) \/ Preflight(p) \/ CompactFirst(p)
             \/ CompactedFirst(p) \/ PromptEndsEarly(p) \/ Launch(p) \/ Settled(p)
    BY <1>1, <2>1, CallAnswer, CallBound DEF BoundInv
  <2>2. CASE Retry(p) \/ Recover(p)
    BY <1>1, <2>2, AfterRunAnswer, RetryBound DEF BoundInv
  <2>3. CASE Conclude(p) \/ BackoffEnds(p) \/ RetryCancelled(p) \/ CompactionEnds(p)
    BY <1>1, <2>3, AfterRunAnswer, AfterRunBound DEF BoundInv
  <2>4. CASE Trim(p)
    BY <1>1, <2>4, TrimAnswer, TrimBound DEF BoundInv
  <2> QED
    BY <1>5, <2>1, <2>2, <2>3, <2>4 DEF PromptStep
<1> QED
  BY <1>2, <1>3, <1>4, <1>5 DEF Next

LEMMA FirstFailures == EverFailed(<<>>, 1) /\ EverFailed(Opened, 1)
<1>1. DOMAIN Opened = {1, 2} /\ Opened[1].stop = "none" /\ Opened[2].stop = "overflow"
  BY DEF Opened, User
<1>2. ASSUME NEW i \in {1, 2}, NEW j \in {1, 2}
      PROVE  Cardinality(OverflowsIn(Opened, i, j)) <= 2
  <2>1. OverflowsIn(Opened, i, j) \subseteq {2}
    BY <1>1 DEF OverflowsIn
  <2>2. IsFiniteSet({2}) /\ Cardinality({2}) = 1
    BY FS_Singleton
  <2> QED
    BY <2>1, <2>2, FS_Subset, FS_CardinalityType
<1>3. ASSUME NEW i \in {1, 2}, NEW j \in {1, 2}, \A k \in i .. j : Opened[k].stop = "error"
      PROVE  j - i < 1
  <2>1. i > j
    BY <1>1, <1>3
  <2> QED
    BY <2>1
<1> QED
  BY <1>1, <1>2, <1>3 DEF EverFailed

LEMMA InitBound == Init => BoundInv
<1> SUFFICES ASSUME Init PROVE BoundInv
  OBVIOUS
<1>1. AnswerOK
  BY DEF Init, AnswerOK
<1>2. BoundOK
  BY BoundsAssumption DEF Init, BoundOK, Asks, Notes, Cancels
<1>3. RetriesAreBounded
  <2>1. EverFailed(saved, 1) /\ events = 0
    BY FirstFailures DEF Init
  <2>2. /\ saved \in Seq(AnyMessage) /\ (MaxRetries + 1) * (events + 1) \in Nat
        /\ 1 <= (MaxRetries + 1) * (events + 1)
    BY <2>1, InitQInv, BoundsAssumption DEF QInv, TextOK, Said
  <2>3. EverFailed(saved, (MaxRetries + 1) * (events + 1))
    BY <2>1, <2>2, EverFailedMore
  <2> QED
    BY <2>3, BoundIs
<1> QED
  BY <1>1, <1>2, <1>3 DEF BoundInv

\* A provider that goes on failing is not asked for ever: of the answers that fail
\* in a row at most two are overflows, and at most MaxRetries + 1 are retryable
\* errors in a row, counted anew when a retry is cancelled, for any number of
\* prompts, steps of the user and failures, provided that prompt() is not called
\* while another call of it prepares its run.
THEOREM RetriesEnd ==
  ASSUME ~Overlap
  PROVE  Spec => []RetriesAreBounded
<1>1. QInv /\ [Next]_vars => QInv'
  BY NextQInv
<1>2. QInv /\ BoundInv /\ [Next]_vars => BoundInv'
  BY NextBound
<1>3. BoundInv => RetriesAreBounded
  BY DEF BoundInv
<1> QED
  BY InitQInv, InitBound, <1>1, <1>2, <1>3, PTL DEF Spec


-----------------------------------------------------------------------------
(* What the provider is sent.                                              *)

\* The messages of s that did not fail, each with its place among them.
KeptUpTo(s, i) == {k \in 1 .. i : ~Failed(s[k])}
Place(s, i) == Cardinality(KeptUpTo(s, i))
KeptOf(s) == {<<Place(s, i), s[i]>> : i \in {j \in DOMAIN s : ~Failed(s[j])}}

\* Two transcripts that differ in failed answers only.
Same(s, t) == KeptOf(s) = KeptOf(t) /\ Place(s, Len(s)) = Place(t, Len(t))

LEMMA PlaceIs ==
  ASSUME NEW s, NEW i \in Nat
  PROVE  IsFiniteSet(KeptUpTo(s, i)) /\ Place(s, i) \in Nat
<1>1. IsFiniteSet(1 .. i)
  BY FS_Interval
<1>2. KeptUpTo(s, i) \subseteq 1 .. i
  BY DEF KeptUpTo
<1> QED
  BY <1>1, <1>2, FS_Subset, FS_CardinalityType DEF Place

LEMMA PlaceGrows ==
  ASSUME NEW s, NEW i \in Nat
  PROVE  Place(s, i + 1) = IF Failed(s[i + 1]) THEN Place(s, i) ELSE Place(s, i) + 1
<1>1. KeptUpTo(s, i + 1) = IF Failed(s[i + 1]) THEN KeptUpTo(s, i) ELSE KeptUpTo(s, i) \cup {i + 1}
  <2>1. 1 .. i + 1 = (1 .. i) \cup {i + 1}
    OBVIOUS
  <2> QED
    BY <2>1 DEF KeptUpTo
<1>2. i + 1 \notin KeptUpTo(s, i) /\ IsFiniteSet(KeptUpTo(s, i))
  BY PlaceIs DEF KeptUpTo
<1>3. Cardinality(KeptUpTo(s, i) \cup {i + 1}) = Cardinality(KeptUpTo(s, i)) + 1
  BY <1>2, FS_AddElement
<1> QED
  BY <1>1, <1>3 DEF Place

\* A message added at the end comes after all that is kept.
LEMMA KeptAppend ==
  ASSUME NEW s \in Seq(AnyMessage), NEW m \in AnyMessage
  PROVE  LET t == Append(s, m)
         IN  /\ Place(t, Len(t)) = IF Failed(m) THEN Place(s, Len(s)) ELSE Place(s, Len(s)) + 1
             /\ KeptOf(t) = IF Failed(m) THEN KeptOf(s)
                            ELSE KeptOf(s) \cup {<<Place(s, Len(s)) + 1, m>>}
<1> DEFINE t == Append(s, m)
<1>1. /\ Len(s) \in Nat /\ Len(t) = Len(s) + 1 /\ DOMAIN s = 1 .. Len(s)
      /\ DOMAIN t = 1 .. Len(s) + 1 /\ \A k \in 1 .. Len(s) : t[k] = s[k]
      /\ t[Len(s) + 1] = m
  OBVIOUS
<1> HIDE DEF t
<1>2. ASSUME NEW i \in 0 .. Len(s) PROVE Place(t, i) = Place(s, i)
  <2>1. KeptUpTo(t, i) = KeptUpTo(s, i)
    BY <1>1 DEF KeptUpTo
  <2> QED
    BY <2>1 DEF Place
<1>3. Place(t, Len(s) + 1) = IF Failed(m) THEN Place(s, Len(s)) ELSE Place(s, Len(s)) + 1
  <2>1. Place(t, Len(s)) = Place(s, Len(s))
    BY <1>1, <1>2
  <2> QED
    BY <1>1, <2>1, PlaceGrows
<1> DEFINE here == {j \in DOMAIN s : ~Failed(s[j])}
<1>4. {j \in DOMAIN t : ~Failed(t[j])} = IF Failed(m) THEN here ELSE here \cup {Len(s) + 1}
  <2>1. DOMAIN t = DOMAIN s \cup {Len(s) + 1}
    BY <1>1
  <2> QED
    BY <1>1, <2>1
<1>5. \A i \in here : <<Place(t, i), t[i]>> = <<Place(s, i), s[i]>>
  BY <1>1, <1>2
<1>6. KeptOf(t) = IF Failed(m) THEN KeptOf(s) ELSE KeptOf(s) \cup {<<Place(t, Len(s) + 1), m>>}
  <2>1. KeptOf(s) = {<<Place(s, i), s[i]>> : i \in here}
    BY DEF KeptOf
  <2>2. KeptOf(s) = {<<Place(t, i), t[i]>> : i \in here}
    BY <1>5, <2>1
  <2>3. KeptOf(t) = {<<Place(t, i), t[i]>> : i \in {j \in DOMAIN t : ~Failed(t[j])}}
    BY DEF KeptOf
  <2> HIDE DEF here
  <2> QED
    BY <1>1, <1>4, <2>2, <2>3
<1>7. Failed(m) \/ KeptOf(s) \cup {<<Place(t, Len(s) + 1), m>>} = KeptOf(s) \cup {<<Place(s, Len(s)) + 1, m>>}
  BY <1>3
<1> QED
  BY <1>1, <1>3, <1>6, <1>7 DEF t

LEMMA SameAppend ==
  ASSUME NEW s \in Seq(AnyMessage), NEW t \in Seq(AnyMessage), Same(s, t), NEW m \in AnyMessage
  PROVE  Same(Append(s, m), Append(t, m))
BY KeptAppend DEF Same

\* A failed answer may be taken out.
LEMMA SameFront ==
  ASSUME NEW s \in Seq(AnyMessage), s # <<>>, Failed(Last(s))
  PROVE  Same(Front(s), s)
<1>1. /\ Front(s) \in Seq(AnyMessage) /\ Last(s) \in AnyMessage
      /\ s = Append(Front(s), Last(s))
  <2>1. Len(s) \in Nat \ {0} /\ DOMAIN s = 1 .. Len(s)
    OBVIOUS
  <2>2. Front(s) \in Seq(AnyMessage) /\ Len(Front(s)) = Len(s) - 1
        /\ \A i \in 1 .. Len(s) - 1 : Front(s)[i] = s[i]
    BY <2>1 DEF Front
  <2>3. Last(s) = s[Len(s)] /\ Last(s) \in AnyMessage
    BY <2>1 DEF Last
  <2> DEFINE t == Append(Front(s), Last(s))
  <2>4. /\ t \in Seq(AnyMessage) /\ Len(t) = Len(Front(s)) + 1
        /\ \A i \in 1 .. Len(Front(s)) : t[i] = Front(s)[i]
        /\ t[Len(Front(s)) + 1] = Last(s)
    BY <2>2, <2>3
  <2>5. /\ Len(s) \in Nat /\ Len(Front(s)) + 1 = Len(s)
        /\ \A i \in 1 .. Len(s) : i \in 1 .. Len(s) - 1 \/ i = Len(s)
    <3>1. \A n \in Nat : \A i \in 1 .. n : i \in 1 .. n - 1 \/ i = n
      OBVIOUS
    <3>2. Len(s) \in Nat /\ Len(Front(s)) + 1 = Len(s)
      BY <2>1, <2>2
    <3> QED
      BY <3>1, <3>2
  <2>6. Len(t) = Len(s) /\ \A i \in 1 .. Len(s) : t[i] = s[i]
    BY <2>2, <2>3, <2>4, <2>5
  <2> HIDE DEF t
  <2>7. t = s
    BY <2>4, <2>6, SeqEqual
  <2> QED
    BY <2>2, <2>3, <2>7 DEF t
<1>2. Same(Front(s), Append(Front(s), Last(s)))
  BY <1>1, KeptAppend DEF Same
<1> QED
  BY <1>1, <1>2

\* Messages that are no answers are added one by one.
LEMMA SameConcat ==
  ASSUME NEW s \in Seq(AnyMessage), NEW t \in Seq(AnyMessage), Same(s, t), NEW w \in Seq(Words)
  PROVE  Same(s \o w, t \o w)
<1>1. \A m \in Words : ~Failed(m)
  BY DEF Words, Failed, Failures
<1>2. ASSUME NEW u \in Seq(AnyMessage)
      PROVE  /\ Place(u \o w, Len(u \o w)) = Place(u, Len(u)) + Len(w)
             /\ KeptOf(u \o w) = KeptOf(u) \cup {<<Place(u, Len(u)) + i, w[i]>> : i \in DOMAIN w}
  <2> DEFINE v == u \o w
  <2>1. /\ Len(u) \in Nat /\ Len(w) \in Nat /\ Len(v) = Len(u) + Len(w)
        /\ DOMAIN u = 1 .. Len(u) /\ DOMAIN w = 1 .. Len(w) /\ DOMAIN v = 1 .. Len(u) + Len(w)
        /\ \A k \in 1 .. Len(u) : v[k] = u[k]
        /\ \A k \in 1 .. Len(w) : v[Len(u) + k] = w[k] /\ ~Failed(w[k])
    BY <1>1
  <2> HIDE DEF v
  <2>2. ASSUME NEW i \in 0 .. Len(u) PROVE Place(v, i) = Place(u, i)
    <3>1. KeptUpTo(v, i) = KeptUpTo(u, i)
      BY <2>1 DEF KeptUpTo
    <3> QED
      BY <3>1 DEF Place
  <2>3. ASSUME NEW i \in 0 .. Len(w) PROVE Place(v, Len(u) + i) = Place(u, Len(u)) + i
    <3>1. KeptUpTo(v, Len(u) + i) = KeptUpTo(u, Len(u)) \cup (Len(u) + 1 .. Len(u) + i)
      <4>1. ASSUME NEW k \in Len(u) + 1 .. Len(u) + i PROVE ~Failed(v[k])
        <5>1. k - Len(u) \in 1 .. Len(w) /\ Len(u) + (k - Len(u)) = k
          BY <2>1
        <5> QED
          BY <2>1, <5>1
      <4>2. 1 .. Len(u) + i = (1 .. Len(u)) \cup (Len(u) + 1 .. Len(u) + i)
        BY <2>1
      <4> QED
        BY <2>1, <4>1, <4>2 DEF KeptUpTo
    <3>2. /\ IsFiniteSet(KeptUpTo(u, Len(u))) /\ IsFiniteSet(Len(u) + 1 .. Len(u) + i)
          /\ Cardinality(Len(u) + 1 .. Len(u) + i) = i
      <4>1. Len(u) + 1 \in Int /\ Len(u) + i \in Int
        BY <2>1
      <4>2. Cardinality(Len(u) + 1 .. Len(u) + i)
              = IF Len(u) + 1 > Len(u) + i THEN 0 ELSE (Len(u) + i) - (Len(u) + 1) + 1
        BY <4>1, FS_Interval
      <4>3. (Len(u) + 1 > Len(u) + i => i = 0) /\ (Len(u) + i) - (Len(u) + 1) + 1 = i
        BY <2>1
      <4> QED
        BY <2>1, <4>1, <4>2, <4>3, PlaceIs, FS_Interval
    <3>3. KeptUpTo(u, Len(u)) \cap (Len(u) + 1 .. Len(u) + i) = {}
      BY <2>1 DEF KeptUpTo
    <3>4. Cardinality(KeptUpTo(u, Len(u)) \cup (Len(u) + 1 .. Len(u) + i))
            = Cardinality(KeptUpTo(u, Len(u))) + Cardinality(Len(u) + 1 .. Len(u) + i)
      <4> DEFINE A == KeptUpTo(u, Len(u))
      <4> DEFINE B == Len(u) + 1 .. Len(u) + i
      <4>1. /\ IsFiniteSet(A) /\ IsFiniteSet(B) /\ A \cap B = {}
            /\ Cardinality(A) \in Nat /\ Cardinality(B) \in Nat
        BY <3>2, <3>3, FS_CardinalityType
      <4> HIDE DEF A, B
      <4>2. Cardinality(A \cup B) = Cardinality(A) + Cardinality(B) - Cardinality(A \cap B)
        BY <4>1, FS_Union
      <4>3. Cardinality(A \cap B) = 0
        BY <4>1, FS_EmptySet
      <4>4. Cardinality(A \cup B) = Cardinality(A) + Cardinality(B)
        BY <4>1, <4>2, <4>3
      <4> QED
        BY <4>4 DEF A, B
    <3> QED
      BY <3>1, <3>2, <3>4 DEF Place
  <2> DEFINE here == {j \in DOMAIN u : ~Failed(u[j])}
  <2>4. KeptOf(u) = {<<Place(v, i), v[i]>> : i \in here}
    <3>1. \A i \in here : <<Place(v, i), v[i]>> = <<Place(u, i), u[i]>>
      BY <2>1, <2>2
    <3> QED
      BY <3>1 DEF KeptOf
  <2>5. {<<Place(u, Len(u)) + i, w[i]>> : i \in DOMAIN w}
          = {<<Place(v, i), v[i]>> : i \in Len(u) + 1 .. Len(u) + Len(w)}
    <3>1. ASSUME NEW i \in DOMAIN w
          PROVE  <<Place(u, Len(u)) + i, w[i]>>
                   \in {<<Place(v, k), v[k]>> : k \in Len(u) + 1 .. Len(u) + Len(w)}
      <4>1. Len(u) + i \in Len(u) + 1 .. Len(u) + Len(w) /\ i \in 0 .. Len(w)
        BY <2>1
      <4>2. <<Place(u, Len(u)) + i, w[i]>> = <<Place(v, Len(u) + i), v[Len(u) + i]>>
        BY <2>1, <2>3, <4>1
      <4> QED
        BY <4>1, <4>2
    <3>2. ASSUME NEW k \in Len(u) + 1 .. Len(u) + Len(w)
          PROVE  <<Place(v, k), v[k]>> \in {<<Place(u, Len(u)) + i, w[i]>> : i \in DOMAIN w}
      <4>1. k - Len(u) \in DOMAIN w /\ k - Len(u) \in 0 .. Len(w) /\ Len(u) + (k - Len(u)) = k
        BY <2>1
      <4>2. <<Place(v, k), v[k]>> = <<Place(u, Len(u)) + (k - Len(u)), w[k - Len(u)]>>
        BY <2>1, <2>3, <4>1
      <4> QED
        BY <4>1, <4>2
    <3> QED
      BY <3>1, <3>2
  <2>6. {j \in DOMAIN v : ~Failed(v[j])} = here \cup (Len(u) + 1 .. Len(u) + Len(w))
    <3>1. ASSUME NEW k \in Len(u) + 1 .. Len(u) + Len(w) PROVE ~Failed(v[k])
      <4>1. k - Len(u) \in 1 .. Len(w) /\ Len(u) + (k - Len(u)) = k
        BY <2>1
      <4> QED
        BY <2>1, <4>1
    <3>2. DOMAIN v = DOMAIN u \cup (Len(u) + 1 .. Len(u) + Len(w))
      BY <2>1
    <3> QED
      BY <2>1, <3>1, <3>2
  <2>7. KeptOf(v) = {<<Place(v, i), v[i]>> : i \in here \cup (Len(u) + 1 .. Len(u) + Len(w))}
    BY <2>6 DEF KeptOf
  <2> HIDE DEF here
  <2>8. KeptOf(v) = KeptOf(u) \cup {<<Place(u, Len(u)) + i, w[i]>> : i \in DOMAIN w}
    BY <2>4, <2>5, <2>7
  <2>9. Place(v, Len(v)) = Place(u, Len(u)) + Len(w)
    BY <2>1, <2>3
  <2> QED
    BY <2>8, <2>9 DEF v
<1> QED
  BY <1>2 DEF Same


InOrder(s) == \A i \in DOMAIN s : s[i].role = "toolResult" => i > 1 /\ s[i - 1].stop = "calls"

\* What the session holds or is about to.
Shown == IF emitting = Nothing THEN saved ELSE Append(saved, emitting)

\* A tool's result is emitted where its call is the last message of both, and what
\* waits to be added is the user's own commands.
CallsOK ==
  /\ \A i \in DOMAIN pendingBash : pendingBash[i].role = "bash"
  /\ emitting # Nothing => (emitting.role = "toolResult" <=> run = "tools")
  /\ run = "tools" => saved # <<>> /\ Last(saved).stop = "calls"
  /\ run = "tools" /\ emitting = Nothing => messages # <<>> /\ Last(messages).stop = "calls"

OrderInv == CallsOK /\ Same(messages, Shown) /\ InOrder(messages) /\ InOrder(saved)

LEMMA InOrderAppend ==
  ASSUME NEW s \in Seq(AnyMessage), NEW m \in AnyMessage, InOrder(s),
         m.role # "toolResult" \/ (s # <<>> /\ Last(s).stop = "calls")
  PROVE  InOrder(Append(s, m))
<1> DEFINE t == Append(s, m)
<1>1. /\ Len(s) \in Nat /\ DOMAIN s = 1 .. Len(s) /\ DOMAIN t = 1 .. Len(s) + 1
      /\ \A k \in 1 .. Len(s) : t[k] = s[k]
      /\ t[Len(s) + 1] = m /\ (s # <<>> => Len(s) > 0 /\ Last(s) = s[Len(s)])
  BY DEF Last
<1> HIDE DEF t
<1>2. ASSUME NEW i \in DOMAIN t, t[i].role = "toolResult" PROVE i > 1 /\ t[i - 1].stop = "calls"
  <2>1. CASE i \in 1 .. Len(s)
    <3>1. i > 1 /\ s[i - 1].stop = "calls"
      BY <1>1, <1>2, <2>1 DEF InOrder
    <3>2. i - 1 \in 1 .. Len(s)
      BY <1>1, <2>1, <3>1
    <3> QED
      BY <1>1, <3>1, <3>2
  <2>2. CASE i = Len(s) + 1
    <3>1. Len(s) > 0 /\ s[Len(s)].stop = "calls"
      BY <1>1, <1>2, <2>2
    <3>2. i - 1 = Len(s) /\ Len(s) \in 1 .. Len(s)
      BY <1>1, <2>2, <3>1
    <3> QED
      BY <1>1, <2>2, <3>1, <3>2
  <2> QED
    BY <1>1, <2>1, <2>2
<1> QED
  BY <1>2 DEF InOrder, t

LEMMA InOrderConcat ==
  ASSUME NEW s \in Seq(AnyMessage), NEW w \in Seq(Words), InOrder(s),
         \A i \in DOMAIN w : w[i].role = "bash"
  PROVE  InOrder(s \o w)
<1> DEFINE t == s \o w
<1>1. /\ Len(s) \in Nat /\ Len(w) \in Nat /\ DOMAIN s = 1 .. Len(s) /\ DOMAIN w = 1 .. Len(w)
      /\ DOMAIN t = 1 .. Len(s) + Len(w)
      /\ \A k \in 1 .. Len(s) : t[k] = s[k]
      /\ \A k \in 1 .. Len(s) + Len(w) : k > Len(s) => t[k] = w[k - Len(s)]
  OBVIOUS
<1> HIDE DEF t
<1>2. ASSUME NEW i \in DOMAIN t, t[i].role = "toolResult" PROVE i > 1 /\ t[i - 1].stop = "calls"
  <2>1. i \in 1 .. Len(s)
    <3>1. ASSUME i > Len(s) PROVE FALSE
      <4>1. i - Len(s) \in DOMAIN w /\ t[i] = w[i - Len(s)]
        BY <1>1, <3>1
      <4> QED
        BY <1>2, <4>1
    <3> QED
      BY <1>1, <3>1
  <2>2. i > 1 /\ s[i - 1].stop = "calls"
    BY <1>1, <1>2, <2>1 DEF InOrder
  <2>3. i - 1 \in 1 .. Len(s)
    BY <1>1, <2>1, <2>2
  <2> QED
    BY <1>1, <2>2, <2>3
<1> QED
  BY <1>2 DEF InOrder, t

LEMMA InOrderFront ==
  ASSUME NEW s \in Seq(AnyMessage), s # <<>>, InOrder(s)
  PROVE  Front(s) \in Seq(AnyMessage) /\ InOrder(Front(s))
<1>1. /\ Front(s) \in Seq(AnyMessage) /\ DOMAIN Front(s) = 1 .. Len(s) - 1
      /\ DOMAIN s = 1 .. Len(s) /\ Len(s) \in Nat
      /\ \A k \in 1 .. Len(s) - 1 : Front(s)[k] = s[k]
  BY DEF Front
<1>2. ASSUME NEW i \in DOMAIN Front(s), Front(s)[i].role = "toolResult"
      PROVE  i > 1 /\ Front(s)[i - 1].stop = "calls"
  <2>1. i \in DOMAIN s /\ s[i].role = "toolResult"
    BY <1>1, <1>2
  <2>2. i > 1 /\ s[i - 1].stop = "calls"
    BY <2>1 DEF InOrder
  <2>3. i - 1 \in 1 .. Len(s) - 1
    BY <1>1, <1>2, <2>2
  <2> QED
    BY <1>1, <2>2, <2>3
<1> QED
  BY <1>1, <1>2 DEF InOrder

\* Steps that leave what was said alone.
LEMMA QuietOrder ==
  ASSUME OrderInv, UNCHANGED <<messages, saved, emitting, pendingBash>>,
         run' = run \/ (emitting = Nothing /\ run' # "tools")
  PROVE  OrderInv'
<1>1. CallsOK'
  BY DEF OrderInv, CallsOK
<1>2. Same(messages, Shown)' /\ InOrder(messages)' /\ InOrder(saved)'
  BY DEF OrderInv, Shown
<1> QED
  BY <1>1, <1>2 DEF OrderInv

\* Steps between two runs, with a transcript that the session agrees with, and the
\* user's own commands after it or not.
LEMMA BetweenOrder ==
  ASSUME TextOK, OrderInv, NEW transcript \in Seq(AnyMessage), Same(transcript, saved),
         InOrder(transcript), emitting = Nothing, emitting' = Nothing, run' # "tools",
         \/ FlushPendingBash(transcript)
         \/ messages' = transcript /\ UNCHANGED <<saved, pendingBash>>
  PROVE  OrderInv'
<1>1. pendingBash \in Seq(Words) /\ saved \in Seq(AnyMessage)
  BY DEF TextOK, Said
<1>2. Shown' = saved'
  BY DEF Shown
<1>3. CASE messages' = transcript /\ UNCHANGED <<saved, pendingBash>>
  <2>1. CallsOK'
    BY <1>3 DEF OrderInv, CallsOK
  <2> QED
    BY <1>2, <1>3, <2>1 DEF OrderInv
<1>4. CASE FlushPendingBash(transcript)
  <2>1. messages' = transcript \o pendingBash /\ saved' = saved \o pendingBash /\ pendingBash' = <<>>
    BY <1>4 DEF FlushPendingBash
  <2>2. CallsOK'
    BY <2>1 DEF CallsOK
  <2>3. Same(transcript \o pendingBash, saved \o pendingBash)
    BY <1>1, SameConcat
  <2>4. InOrder(transcript \o pendingBash) /\ InOrder(saved \o pendingBash)
    BY <1>1, InOrderConcat DEF OrderInv, CallsOK
  <2> QED
    BY <1>2, <2>1, <2>2, <2>3, <2>4 DEF OrderInv
<1> QED
  BY <1>3, <1>4


LEMMA UserOrder ==
  ASSUME QInv, OrderInv, UserStep
  PROVE  OrderInv'
<1>1. TextOK /\ IInv /\ UNCHANGED <<run, emitting>>
  BY DEF QInv, UserStep, Queue, ClearQueue, RecordBash, Abort, runvars
<1>2. CASE Queue \/ ClearQueue \/ Abort
  <2>1. UNCHANGED <<messages, saved, pendingBash>>
    BY <1>2 DEF Queue, ClearQueue, Abort, texts
  <2> QED
    BY <1>1, <2>1, QuietOrder
<1>3. CASE RecordBash
  <2>1. Bash \in Words /\ Bash \in AnyMessage /\ Bash.role = "bash"
    BY <1>1 DEF Bash, TextOK, Words, AnyMessage, Ident
  <2>2. CASE isAgentRunActive
    <3>1. UNCHANGED <<messages, saved>> /\ pendingBash' = Append(pendingBash, Bash)
      BY <1>3, <2>2 DEF RecordBash, texts
    <3>2. \A i \in DOMAIN pendingBash' : pendingBash'[i].role = "bash"
      <4>1. /\ DOMAIN pendingBash' = 1 .. Len(pendingBash) + 1 /\ Len(pendingBash) \in Nat
            /\ DOMAIN pendingBash = 1 .. Len(pendingBash)
            /\ \A i \in 1 .. Len(pendingBash) : pendingBash'[i] = pendingBash[i]
            /\ pendingBash'[Len(pendingBash) + 1] = Bash
        BY <1>1, <2>1, <3>1 DEF TextOK
      <4> QED
        BY <2>1, <4>1 DEF OrderInv, CallsOK
    <3>3. CallsOK'
      BY <1>1, <3>1, <3>2 DEF OrderInv, CallsOK
    <3>4. Shown' = Shown
      BY <1>1, <3>1 DEF Shown
    <3> QED
      BY <3>1, <3>3, <3>4 DEF OrderInv
  <2>3. CASE ~isAgentRunActive
    <3>1. run = "none"
      BY <1>1, <2>3, ActiveDuringRun
    <3>2. emitting = Nothing
      BY <1>1, <3>1 DEF IInv, EmittingOK
    <3>3. /\ messages' = Append(messages, Bash) /\ saved' = Append(saved, Bash)
          /\ UNCHANGED pendingBash
      BY <1>3, <2>3 DEF RecordBash
    <3>4. /\ messages \in Seq(AnyMessage) /\ saved \in Seq(AnyMessage)
          /\ Same(messages, saved) /\ InOrder(messages) /\ InOrder(saved)
      BY <1>1, <3>2 DEF TextOK, Said, OrderInv, Shown
    <3>5. /\ Same(messages', saved') /\ InOrder(messages') /\ InOrder(saved')
      BY <2>1, <3>3, <3>4, SameAppend, InOrderAppend
    <3>6. CallsOK' /\ Shown' = saved'
      BY <1>1, <3>1, <3>2, <3>3 DEF OrderInv, CallsOK, Shown
    <3> QED
      BY <3>5, <3>6 DEF OrderInv
  <2> QED
    BY <2>2, <2>3
<1> QED
  BY <1>2, <1>3 DEF UserStep

\* A message is emitted: the transcript has it, and the session is about to.
LEMMA EmissionOrder ==
  ASSUME TextOK, OrderInv, emitting = Nothing, emitting' # Nothing, NEW m \in AnyMessage,
         messages' = Append(messages, m), emitting' = m, UNCHANGED <<saved, pendingBash>>,
         m.role = "toolResult" <=> run' = "tools", run' = "tools" => run = "tools"
  PROVE  OrderInv'
<1>1. /\ messages \in Seq(AnyMessage) /\ saved \in Seq(AnyMessage)
      /\ Same(messages, saved) /\ InOrder(messages) /\ InOrder(saved)
  BY DEF TextOK, Said, OrderInv, Shown
<1>2. CallsOK'
  BY DEF OrderInv, CallsOK
<1>3. Same(Append(messages, m), Append(saved, m))
  BY <1>1, SameAppend
<1>4. InOrder(Append(messages, m))
  BY <1>1, InOrderAppend DEF OrderInv, CallsOK
<1>5. Shown' = Append(saved, m)
  BY DEF Shown
<1> QED
  BY <1>1, <1>2, <1>3, <1>4, <1>5 DEF OrderInv

LEMMA RunOrder ==
  ASSUME QInv, AnswerOK, OrderInv, RunStep
  PROVE  OrderInv'
<1>1. TextOK /\ IInv /\ answers \in Nat
  BY DEF QInv, TextOK
<1>2. CASE EmitTaken
  <2>1. /\ emitting = Nothing /\ emitting' = Head(pending) /\ messages' = Append(messages, Head(pending))
        /\ run' = run /\ run \in {"prompts", "inject"} /\ pending # <<>>
        /\ UNCHANGED <<saved, pendingBash>>
    BY <1>2 DEF EmitTaken
  <2>2. Head(pending) \in Users
    BY <1>1, <2>1 DEF TextOK
  <2>3. Head(pending) \in AnyMessage /\ Head(pending).role = "user" /\ Head(pending) # Nothing
    BY <2>2 DEF Users, Words, Nothing
  <2> QED
    BY <1>1, <2>1, <2>3, EmissionOrder
<1>3. CASE ModelAnswers
  <2>1. PICK stop \in Stops : Push(Answer(stop))
    BY <1>3 DEF ModelAnswers
  <2>2. Answer(stop) \in AnyMessage /\ Answer(stop).role = "assistant" /\ Answer(stop) # Nothing
    BY <1>1 DEF Answer, AnyMessage, Stops, Ident, Failures, Nothing
  <2>3. /\ emitting = Nothing /\ emitting' = Answer(stop) /\ messages' = Append(messages, Answer(stop))
        /\ run' = "answered" /\ UNCHANGED <<saved, pendingBash>>
    BY <1>3, <2>1 DEF ModelAnswers, Push, Idling
  <2> QED
    BY <1>1, <2>2, <2>3, EmissionOrder
<1>4. CASE ToolEnds
  <2>1. Result \in AnyMessage /\ Result.role = "toolResult" /\ Result # Nothing
    BY <1>1 DEF Result, AnyMessage, Ident, Nothing
  <2>2. /\ emitting = Nothing /\ emitting' = Result /\ messages' = Append(messages, Result)
        /\ run' = run /\ run = "tools" /\ UNCHANGED <<saved, pendingBash>>
    BY <1>4 DEF ToolEnds, Push
  <2> QED
    BY <1>1, <2>1, <2>2, EmissionOrder
<1>5. CASE Save
  <2>1. /\ emitting # Nothing /\ emitting' = Nothing /\ saved' = Append(saved, emitting)
        /\ run' = AfterEmitting(emitting) /\ UNCHANGED <<messages, pendingBash>>
    BY <1>5 DEF Save
  <2>2. emitting \in AnyMessage /\ saved \in Seq(AnyMessage)
    BY <1>1, <2>1 DEF TextOK, Words, Said
  <2>3. run \in {"prompts", "inject", "answered", "tools"}
    BY <1>1, <2>1 DEF IInv, EmittingOK
  <2>4. Shown' = Shown
    BY <2>1 DEF Shown
  <2>5. InOrder(saved')
    BY <2>1, <2>2, InOrderAppend DEF OrderInv, CallsOK
  <2>6. run' = "tools" => emitting.stop = "calls"
    BY <2>1, <2>3 DEF AfterEmitting, OrderInv, CallsOK
  <2>7. saved' # <<>> /\ Last(saved') = emitting
    BY <2>1, <2>2, LastOfAppend
  <2>8. messages # <<>> /\ Last(messages) = emitting
    BY <2>1 DEF AnswerOK
  <2>9. CallsOK'
    BY <2>1, <2>6, <2>7, <2>8 DEF OrderInv, CallsOK
  <2> QED
    BY <2>1, <2>4, <2>5, <2>9 DEF OrderInv
<1>6. CASE PollBeforeAnswer \/ PollAfterAnswer \/ PollFollowUp \/ FinishRun
  <2>1. UNCHANGED <<messages, saved, emitting, pendingBash>>
    BY <1>6 DEF PollBeforeAnswer, PollAfterAnswer, PollFollowUp, FinishRun, texts
  <2>2. run' \in {"inject", "pollFollowUp", "end", "none"}
    BY <1>6 DEF PollBeforeAnswer, PollAfterAnswer, PollFollowUp, FinishRun, Take
  <2>3. emitting = Nothing
    BY <1>1, <1>6 DEF IInv, EmittingOK, PollBeforeAnswer, Idling, PollAfterAnswer, PollFollowUp, FinishRun
  <2> QED
    BY <2>1, <2>2, <2>3, QuietOrder
<1> QED
  BY <1>2, <1>3, <1>4, <1>5, <1>6 DEF RunStep

\* A compaction leaves what did not fail, in its order.
LEMMA RebuiltOrder ==
  ASSUME TextOK, OrderInv, NEW retry
  PROVE  /\ Rebuilt(retry) \in Seq(AnyMessage) /\ InOrder(Rebuilt(retry))
         /\ Same(Rebuilt(retry), saved)
<1>1. saved \in Seq(AnyMessage) /\ InOrder(saved) /\ Same(saved, saved)
  BY DEF TextOK, Said, OrderInv, Same
<1> QED
  BY <1>1, SameFront, InOrderFront DEF Rebuilt

\* What a compaction before a run takes out is a failed answer.
LEMMA FlushedFirst ==
  ASSUME TextOK, NEW p \in Prompts, CompactFirst(p)
  PROVE  \/ FlushPendingBash(messages)
         \/ /\ messages' = Front(messages) /\ UNCHANGED <<saved, pendingBash>>
            /\ messages # <<>> /\ Failed(Last(messages))
<1> DEFINE transcript == messages \o pendingBash
<1>1. /\ messages \in Seq(AnyMessage) /\ saved \in Seq(AnyMessage) /\ pendingBash \in Seq(Words)
      /\ Words \subseteq AnyMessage
  BY DEF TextOK, Said, Words
<1>2. /\ saved' = saved \o pendingBash /\ pendingBash' = <<>>
      /\ \/ LastAnswerIs("overflow", messages) /\ messages' = WithoutLastAnswer(transcript)
         \/ messages' = transcript
  BY DEF CompactFirst
<1>3. CASE messages' = transcript
  BY <1>2, <1>3 DEF FlushPendingBash
<1>4. CASE LastAnswerIs("overflow", messages) /\ messages' = WithoutLastAnswer(transcript)
  <2>1. CASE pendingBash = <<>>
    <3>1. transcript = messages /\ saved \o pendingBash = saved /\ messages # <<>>
      BY <1>1, <1>4, <2>1 DEF LastAnswerIs
    <3>2. CASE Last(messages).role = "assistant"
      <4>1. PICK i \in 1 .. Len(messages) :
              messages[i].stop = "overflow" /\ \A j \in i + 1 .. Len(messages) : messages[j].role # "assistant"
        BY <1>1, <1>4 DEF LastAnswerIs
      <4>2. i = Len(messages)
        BY <1>1, <3>2, <4>1 DEF Last
      <4> QED
        BY <1>2, <1>4, <2>1, <3>1, <3>2, <4>1, <4>2 DEF WithoutLastAnswer, Last, Failed, Failures
    <3>3. CASE Last(messages).role # "assistant"
      BY <1>2, <1>4, <3>1, <3>3 DEF WithoutLastAnswer, FlushPendingBash
    <3> QED
      BY <3>2, <3>3
  <2>2. CASE pendingBash # <<>>
    <3>1. Len(pendingBash) \in DOMAIN pendingBash /\ Last(transcript) = pendingBash[Len(pendingBash)]
      BY <1>1, <2>2 DEF Last
    <3>2. Last(transcript).role # "assistant"
      BY <1>1, <3>1 DEF Words
    <3>3. messages' = transcript
      BY <1>4, <3>2 DEF WithoutLastAnswer
    <3> QED
      BY <1>3, <3>3
  <2> QED
    BY <2>1, <2>2
<1> QED
  BY <1>2, <1>3, <1>4

LEMMA CallOrder ==
  ASSUME QInv, OrderInv, NEW p \in Prompts,
         \/ Prompt(p) \/ PromptWhileStreaming(p) \/ Preflight(p) \/ CompactFirst(p)
         \/ CompactedFirst(p) \/ PromptEndsEarly(p) \/ Launch(p) \/ Settled(p)
  PROVE  OrderInv'
<1>1. TextOK /\ IInv
  BY DEF QInv
<1>2. CASE Prompt(p) \/ PromptWhileStreaming(p) \/ PromptEndsEarly(p) \/ Settled(p)
  <2>1. UNCHANGED <<messages, saved, emitting, pendingBash, run>>
    BY <1>2 DEF Prompt, PromptWhileStreaming, PromptEndsEarly, Settled, texts, runvars
  <2> QED
    BY <2>1, QuietOrder
<1>3. CASE Preflight(p) \/ CompactFirst(p) \/ CompactedFirst(p) \/ Launch(p)
  <2>1. ~isAgentRunActive
    BY <1>1, <1>3 DEF Preflight, CompactFirst, CompactedFirst, Launch, IInv, TurnsOK
  <2>2. run = "none"
    BY <1>1, <2>1, ActiveDuringRun
  <2>3. emitting = Nothing
    BY <1>1, <2>2 DEF IInv, EmittingOK
  <2>4. emitting' = Nothing /\ run' \in {"none", "prompts"}
    BY <1>3, <2>2, <2>3 DEF Preflight, CompactFirst, CompactedFirst, Launch, Begin, runvars
  <2>5. messages \in Seq(AnyMessage) /\ Same(messages, saved) /\ InOrder(messages)
    BY <1>1, <2>3 DEF TextOK, Said, OrderInv, Shown
  <2>6. CASE Preflight(p) \/ Launch(p)
    <3>1. \/ FlushPendingBash(messages)
          \/ messages' = messages /\ UNCHANGED <<saved, pendingBash>>
      BY <2>2, <2>6 DEF Preflight, Launch, texts
    <3> QED
      BY <1>1, <2>3, <2>4, <2>5, <3>1, BetweenOrder
  <2>7. CASE CompactFirst(p)
    <3>1. \/ FlushPendingBash(messages)
          \/ /\ messages' = Front(messages) /\ UNCHANGED <<saved, pendingBash>>
             /\ messages # <<>> /\ Failed(Last(messages))
      BY <1>1, <2>7, FlushedFirst
    <3>2. CASE FlushPendingBash(messages)
      BY <1>1, <2>3, <2>4, <2>5, <3>2, BetweenOrder
    <3>3. CASE /\ messages' = Front(messages) /\ UNCHANGED <<saved, pendingBash>>
               /\ messages # <<>> /\ Failed(Last(messages))
      <4>1. Front(messages) \in Seq(AnyMessage) /\ InOrder(Front(messages))
            /\ Same(Front(messages), saved)
        <5>1. Same(Front(messages), messages)
          BY <2>5, <3>3, SameFront
        <5> QED
          BY <2>5, <3>3, <5>1, InOrderFront DEF Same
      <4> QED
        BY <1>1, <2>3, <2>4, <3>3, <4>1, BetweenOrder
    <3> QED
      BY <3>1, <3>2, <3>3
  <2>8. CASE CompactedFirst(p)
    <3>1. /\ UNCHANGED <<saved, pendingBash>>
          /\ messages' = messages \/ \E retry : messages' = Rebuilt(retry)
      BY <2>8 DEF CompactedFirst
    <3>2. messages' \in Seq(AnyMessage) /\ InOrder(messages') /\ Same(messages', saved)
      BY <1>1, <2>5, <3>1, RebuiltOrder
    <3> QED
      BY <1>1, <2>3, <2>4, <3>1, <3>2, BetweenOrder
  <2> QED
    BY <1>3, <2>6, <2>7, <2>8
<1> QED
  BY <1>2, <1>3

LEMMA ContinueOrder ==
  ASSUME TextOK, OrderInv, NEW p \in Prompts, NEW transcript \in Seq(AnyMessage),
         Same(transcript, saved), InOrder(transcript), run = "none", emitting = Nothing,
         Continue(p, transcript) \/ (Settle(p, transcript) /\ UNCHANGED runvars)
  PROVE  OrderInv'
<1>1. CASE Settle(p, transcript) /\ UNCHANGED runvars
  <2>1. FlushPendingBash(transcript) /\ emitting' = Nothing /\ run' # "tools"
    BY <1>1 DEF Settle, runvars
  <2> QED
    BY <2>1, BetweenOrder
<1>2. CASE ~(Settle(p, transcript) /\ UNCHANGED runvars)
  <2>1. messages' = transcript /\ UNCHANGED <<saved, pendingBash>>
    BY <1>2 DEF Continue
  <2>2. emitting' = Nothing /\ run' # "tools"
    BY <1>2 DEF Continue, Begin
  <2> QED
    BY <2>1, <2>2, BetweenOrder
<1> QED
  BY <1>1, <1>2

LEMMA GoOnOrder ==
  ASSUME TextOK, OrderInv, NEW p \in Prompts, NEW transcript \in Seq(AnyMessage),
         Same(transcript, saved), InOrder(transcript), run = "none", emitting = Nothing,
         GoOn(p, transcript)
  PROVE  OrderInv'
<1>1. Continue(p, transcript) \/ (Settle(p, transcript) /\ UNCHANGED runvars)
  BY DEF GoOn
<1> QED
  BY <1>1, ContinueOrder

LEMMA AfterRunOrder ==
  ASSUME QInv, AnswerOK, OrderInv, NEW p \in Prompts,
         \/ Retry(p) \/ Recover(p) \/ Trim(p) \/ Conclude(p)
         \/ BackoffEnds(p) \/ RetryCancelled(p) \/ CompactionEnds(p)
  PROVE  OrderInv'
<1>1. Works(p) /\ pc[p] # "running"
  BY DEF Retry, Recover, Trim, Conclude, BackoffEnds, RetryCancelled, CompactionEnds, Works
<1>2. TextOK /\ run = "none" /\ emitting = Nothing
  BY <1>1, NoRunAfterRun DEF QInv
<1>3. /\ messages \in Seq(AnyMessage) /\ Same(messages, saved) /\ InOrder(messages)
      /\ saved \in Seq(AnyMessage) /\ InOrder(saved) /\ Same(saved, saved)
  BY <1>2 DEF TextOK, Said, OrderInv, Shown, Same
<1>4. CASE Retry(p) \/ Recover(p)
  <2>1. /\ messages' = WithoutLastAnswer(messages) /\ UNCHANGED <<saved, pendingBash, run, emitting>>
        /\ pc[p] = "postRun" /\ lastAssistant \in Failures
    BY <1>4 DEF Retry, Recover, runvars, Failures
  <2>2. messages # <<>> /\ Last(messages).role = "assistant" /\ Failed(Last(messages))
    BY <2>1 DEF AnswerOK, LastIsAnswer, Failed
  <2>3. messages' = Front(messages)
    BY <2>1, <2>2 DEF WithoutLastAnswer
  <2>4. Front(messages) \in Seq(AnyMessage) /\ InOrder(Front(messages)) /\ Same(Front(messages), saved)
    <3>1. Same(Front(messages), messages)
      BY <1>3, <2>2, SameFront
    <3> QED
      BY <1>3, <2>2, <3>1, InOrderFront DEF Same
  <2> QED
    BY <1>2, <2>1, <2>3, <2>4, BetweenOrder
<1>5. CASE Conclude(p)
  <2>1. GoOn(p, messages) \/ (Settle(p, messages) /\ UNCHANGED runvars)
    BY <1>5 DEF Conclude
  <2> QED
    BY <1>2, <1>3, <2>1, GoOnOrder, ContinueOrder
<1>6. CASE BackoffEnds(p)
  BY <1>2, <1>3, <1>6, ContinueOrder DEF BackoffEnds
<1>7. CASE RetryCancelled(p)
  BY <1>2, <1>3, <1>7, GoOnOrder DEF RetryCancelled
<1>8. CASE CompactionEnds(p)
  <2>1. PICK transcript \in {messages, Rebuilt(TRUE), Rebuilt(FALSE)} :
          Continue(p, transcript) \/ GoOn(p, transcript)
    BY <1>8 DEF CompactionEnds
  <2>2. transcript \in Seq(AnyMessage) /\ InOrder(transcript) /\ Same(transcript, saved)
    BY <1>2, <1>3, RebuiltOrder
  <2> QED
    BY <1>2, <2>1, <2>2, GoOnOrder, ContinueOrder
<1>9. CASE Trim(p)
  <2>1. UNCHANGED <<messages, saved, pendingBash, run, emitting>>
    BY <1>9 DEF Trim, texts, runvars
  <2> QED
    BY <2>1, QuietOrder
<1> QED
  BY <1>4, <1>5, <1>6, <1>7, <1>8, <1>9

LEMMA NextOrder ==
  ASSUME QInv, AnswerOK, OrderInv, [Next]_vars PROVE OrderInv'
<1>1. CASE UNCHANGED vars
  <2>1. UNCHANGED <<messages, saved, emitting, pendingBash, run>>
    BY <1>1 DEF vars, texts, runvars
  <2> QED
    BY <2>1, QuietOrder
<1>2. CASE UserStep
  BY <1>2, UserOrder
<1>3. CASE RunStep
  BY <1>3, RunOrder
<1>4. ASSUME NEW p \in Prompts, Prompt(p) \/ PromptStep(p) PROVE OrderInv'
  BY <1>4, CallOrder, AfterRunOrder DEF PromptStep
<1> QED
  BY <1>1, <1>2, <1>3, <1>4 DEF Next

LEMMA InitOrder == Init => OrderInv
<1> SUFFICES ASSUME Init PROVE OrderInv
  OBVIOUS
<1>1. CallsOK
  BY DEF Init, CallsOK
<1>2. InOrder(<<>>) /\ InOrder(Opened)
  BY DEF InOrder, Opened, User
<1>3. Same(messages, Shown) /\ InOrder(messages) /\ InOrder(saved)
  BY <1>2 DEF Init, Same, Shown
<1> QED
  BY <1>1, <1>3 DEF OrderInv

LEMMA OrderIs ==
  ASSUME OrderInv PROVE SessionInOrder
<1>1. ResultsFollowCalls
  BY DEF OrderInv, InOrder, ResultsFollowCalls
<1>2. SessionIsTranscript
  <2>1. KeptOf(messages) = KeptOf(Shown)
    BY DEF OrderInv, Same
  <2> QED
    BY <2>1 DEF KeptOf, Shown, Place, KeptUpTo, SessionIsTranscript
<1> QED
  BY <1>1, <1>2 DEF SessionInOrder

\* What the provider is sent, now or after a restart, is in order: a tool result
\* directly follows the answer that called the tool, whatever shell commands ended
\* meanwhile (recordBashResult defers them), and the session holds the transcript in
\* its order, failed answers apart (_handleAgentEvent saves each message, retries and
\* compactions rebuild the transcript).  For any number of prompts, steps of the user
\* and failures, provided that prompt() is not called while another call of it
\* prepares its run.
THEOREM SentInOrder ==
  ASSUME ~Overlap
  PROVE  Spec => []SessionInOrder
<1>1. QInv /\ [Next]_vars => QInv'
  BY NextQInv
<1>2. QInv /\ BoundInv /\ [Next]_vars => BoundInv'
  BY NextBound
<1>3. QInv /\ BoundInv /\ OrderInv /\ [Next]_vars => OrderInv'
  BY NextOrder DEF BoundInv
<1>4. OrderInv => SessionInOrder
  BY OrderIs
<1> QED
  BY InitQInv, InitBound, InitOrder, <1>1, <1>2, <1>3, <1>4, PTL DEF Spec
=============================================================================
