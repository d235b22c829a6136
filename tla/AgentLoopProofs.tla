--------------------------- MODULE AgentLoopProofs ---------------------------
(***************************************************************************)
(* The loop keeps its own copy of the conversation and fills it at other   *)
(* moments than the agent fills its transcript.  The two are equal         *)
(* whenever the model is asked, because at every moment between they       *)
(* differ by what the invariant below names: prompts that are not emitted  *)
(* yet, or the results of the running batch that are emitted already.      *)
(*                                                                         *)
(* On this rests that calls and results stay together: the batch executes  *)
(* the calls of the last message of the context, and a run that is not     *)
(* aborted leaves no call without a result.                                *)
(*                                                                         *)
(* The messages of the queues are followed in the last part: each is in    *)
(* one place of the four sequences it goes through, and those of a queue   *)
(* stand there in their order, because draining only moves the border      *)
(* between a queue and what was taken from it.                             *)
(***************************************************************************)
EXTENDS AgentLoop, SequenceTheorems, FiniteSetTheorems, TLAPS

Call == Nat \X Nat

Roles == {"prompt", "steer", "followUp", "continuation", "toolResult", "assistant"}
Stops == {"none", "stop", "toolUse", "length", "error", "aborted"}
Message == [role : Roles, run : Nat, id : Nat \X Nat, calls : Seq(Call), stop : Stops]

Statuses == {"todo", "preparing", "prepared", "executing", "ended"}

LoopTypeOK ==
  /\ steeringQueue \in Seq(Message) /\ followUpQueue \in Seq(Message)
  /\ transcript \in Seq(Message) /\ context \in Seq(Message)
  /\ pendingMessages \in Seq(Message)
  /\ calls \in Seq(Call)
  /\ status \in [1..Count -> Statuses]
  /\ mode \in {"parallel", "sequential"}
  /\ at \in Nat
  /\ run \in Nat /\ queued \in Nat /\ answers \in Nat /\ failures \in Nat

\* Where a batch of tool calls is executed, and where none is.
InBatch == {"truncated", "tool", "prepare", "prepared", "settling", "batchEnd"}
Preparing == {"tool", "prepare", "prepared"}
OneByOne == pc \in Preparing \/ (pc = "settling" /\ mode = "sequential")

\* What the execution of the calls has reached.
Passed(i) == status[i] = "ended" \/ (mode = "parallel" /\ status[i] = "prepared")

BatchOK ==
  /\ pc \notin InBatch => \A i \in 1..Count : status[i] = "ended"
  /\ pc = "truncated" =>
       /\ at \in 1..Count
       /\ \A i \in 1..Count : status[i] = IF i < at THEN "ended" ELSE "todo"
  /\ OneByOne =>
       /\ at \in 1..Count
       /\ \A i \in 1..Count : (i < at => Passed(i)) /\ (i > at => status[i] = "todo")
       /\ pc = "tool" => status[at] = "todo"
       /\ pc = "prepare" => status[at] = "preparing"
       /\ pc = "prepared" => Passed(at)
       /\ pc = "settling" => status[at] = "executing"
  /\ pc = "settling" /\ mode = "parallel" =>
       \E k \in 1..Count :
         /\ at \in 1..(k + 1)
         /\ at > 1 => Executing = {}
         /\ \A i \in 1..Count :
              IF i <= k THEN status[i] \in {"executing", "ended"} ELSE status[i] = "todo"
  /\ pc = "batchEnd" =>
       \E k \in 0..Count :
         \A i \in 1..Count : status[i] = IF i <= k THEN "ended" ELSE "todo"

\* The first n results of the batch, and how many are in the transcript.
Results(n) == [i \in 1..n |-> Result(calls[i])]
Emitted ==
  IF pc = "batchEnd" THEN Cardinality(Ended)
  ELSE IF pc \in Preparing /\ mode = "parallel" THEN 0
  ELSE IF pc = "prepared" THEN at ELSE at - 1

\* How the two copies differ.
CopiesOK ==
  /\ pc = "prompts" => context = transcript \o pendingMessages
  /\ pc \in {"initialPoll", "turn", "request", "streaming", "turnEnd", "poll", "followUp"} =>
       context = transcript
  /\ pc \in InBatch => transcript = context \o Results(Emitted)

Running == {i \in 1..Count : status[i] \in {"preparing", "prepared", "executing"}}

\* The calls have different identifiers, and nothing strays without a failure.
PendingOK ==
  /\ \A i, j \in 1..Count : calls[i] = calls[j] => i = j
  /\ failures = 0 => strays = {} /\ pendingToolCalls = {calls[i] : i \in Running}
  /\ pc = "idle" => pendingToolCalls = {}

IInv == LoopTypeOK /\ BatchOK /\ CopiesOK /\ PendingOK

-----------------------------------------------------------------------------
\* Every message the agent makes is one.
LEMMA MessageTypes ==
  ASSUME run \in Nat, answers \in Nat
  PROVE  /\ \A n \in Nat : Steer(n) \in Message /\ FollowUp(n) \in Message /\ Prompt(n) \in Message
         /\ Continuation \in Message
         /\ \A c \in Call : Result(c) \in Message
         /\ \A stop \in Stops, cs \in Seq(Call) : Answer(stop, cs) \in Message
<1>1. << >> \in Seq(Call)
  OBVIOUS
<1>2. \A n \in Nat : Steer(n) \in Message /\ FollowUp(n) \in Message /\ Prompt(n) \in Message
  BY <1>1 DEF Message, Roles, Stops, Steer, FollowUp, Prompt
<1>3. Continuation \in Message
  BY <1>1 DEF Message, Roles, Stops, Continuation, Msg
<1>4. \A c \in Call : Result(c) \in Message
  BY <1>1 DEF Message, Roles, Stops, Call, Msg, Result
<1>5. \A stop \in Stops, cs \in Seq(Call) : Answer(stop, cs) \in Message
  BY DEF Message, Roles, Answer
<1> QED
  BY <1>2, <1>3, <1>4, <1>5

\* The calls of an answer are as many as asked for, and all different.
LEMMA CallsDiffer ==
  ASSUME answers \in Nat, NEW n \in Nat
  PROVE  /\ NewCalls(n) \in Seq(Call) /\ Len(NewCalls(n)) = n
         /\ \A i, j \in 1..n : NewCalls(n)[i] = NewCalls(n)[j] => i = j
<1>1. \A i \in 1..n : <<answers + 1, i>> \in Call
  BY DEF Call
<1>2. NewCalls(n) \in [1..n -> Call]
  BY <1>1 DEF NewCalls
<1>3. NewCalls(n) \in Seq(Call)
  BY <1>2, SeqDef
<1>4. Len(NewCalls(n)) = n
  BY <1>2
<1>5. \A i \in 1..n : NewCalls(n)[i] = <<answers + 1, i>>
  BY DEF NewCalls
<1> QED
  BY <1>3, <1>4, <1>5

\* The results of the first n calls.
LEMMA ResultsTypes ==
  ASSUME LoopTypeOK, NEW n \in 0..Count
  PROVE  /\ Results(n) \in Seq(Message)
         /\ Len(Results(n)) = n
         /\ \A i \in 1..n : Results(n)[i] = Result(calls[i])
<1>1. \A i \in 1..n : calls[i] \in Call
  BY DEF LoopTypeOK, Count
<1>2. \A i \in 1..n : Result(calls[i]) \in Message
  BY <1>1, MessageTypes DEF LoopTypeOK
<1>3. n \in Nat
  BY DEF LoopTypeOK, Count
<1>4. Results(n) \in [1..n -> Message]
  BY <1>2 DEF Results
<1>5. Results(n) \in Seq(Message)
  BY <1>3, <1>4, SeqDef
<1>6. Len(Results(n)) = n
  BY <1>3, <1>4
<1> QED
  BY <1>5, <1>6 DEF Results

\* The transcript, when n results of the batch are in it.
LEMMA EmittedResults ==
  ASSUME LoopTypeOK, NEW n \in 0..Count, transcript = context \o Results(n)
  PROVE  /\ Len(transcript) = Len(context) + n
         /\ \A i \in 1..Len(context) : transcript[i] = context[i]
         /\ \A i \in 1..n : transcript[Len(context) + i] = Result(calls[i])
<1> DEFINE r == Results(n)
<1>1. r \in Seq(Message) /\ Len(r) = n /\ \A i \in 1..n : r[i] = Result(calls[i])
  BY ResultsTypes
<1>2. context \in Seq(Message) /\ Len(context) \in Nat /\ n \in Nat
  BY DEF LoopTypeOK, Count
<1>3. transcript = context \o r
  OBVIOUS
<1> HIDE DEF r
<1>4. /\ Len(transcript) = Len(context) + n
      /\ \A i \in 1..Len(context) : transcript[i] = context[i]
  BY <1>1, <1>2, <1>3
<1>5. \A i \in 1..n : transcript[Len(context) + i] = r[i]
  BY <1>1, <1>2, <1>3
<1> QED
  BY <1>1, <1>4, <1>5

\* One more result in the transcript is one more of those emitted.
LEMMA OneMoreResult ==
  ASSUME LoopTypeOK, NEW n \in 0..Count, n < Count, transcript = context \o Results(n)
  PROVE  Append(transcript, Result(calls[n + 1])) = context \o Results(n + 1)
<1> DEFINE r == Results(n)
           t == Results(n + 1)
           e == Result(calls[n + 1])
<1>1. n \in Nat /\ n + 1 \in 0..Count /\ n + 1 \in 1..Count
  BY DEF LoopTypeOK, Count
<1>2. r \in Seq(Message) /\ Len(r) = n /\ \A i \in 1..n : r[i] = Result(calls[i])
  BY ResultsTypes
<1>3. t \in Seq(Message) /\ Len(t) = n + 1 /\ \A i \in 1..(n + 1) : t[i] = Result(calls[i])
  BY <1>1, ResultsTypes
<1>4. e \in Message
  BY <1>1, <1>3
<1>5. context \in Seq(Message)
  BY DEF LoopTypeOK
<1>0. transcript = context \o r
  OBVIOUS
<1> HIDE DEF r, t, e
<1>6. t = Append(r, e)
  <2>1. Append(r, e) \in Seq(Message) /\ Len(Append(r, e)) = n + 1
    BY <1>1, <1>2, <1>4
  <2>2. \A i \in 1..(n + 1) : Append(r, e)[i] = IF i <= n THEN r[i] ELSE e
    BY <1>1, <1>2, <1>4
  <2>3. e = Result(calls[n + 1])
    BY DEF e
  <2>4. \A i \in 1..(n + 1) : t[i] = Append(r, e)[i]
    BY <1>1, <1>2, <1>3, <2>2, <2>3
  <2> QED
    BY <1>3, <2>1, <2>4, SeqEqual
<1>7. Append(context \o r, e) = context \o Append(r, e)
  <2>1. Append(context \o r, e) = (context \o r) \o <<e>>
    BY <1>2, <1>4, <1>5, AppendIsConcat, ConcatProperties
  <2>2. Append(r, e) = r \o <<e>>
    BY <1>2, <1>4, AppendIsConcat
  <2>3. (context \o r) \o <<e>> = context \o (r \o <<e>>)
    BY <1>2, <1>4, <1>5, ConcatAssociative
  <2> QED
    BY <2>1, <2>2, <2>3
<1>8. Append(transcript, e) = context \o t
  BY <1>0, <1>6, <1>7
<1> QED
  BY <1>8 DEF t, e

-----------------------------------------------------------------------------
\* Draining a queue gives and leaves sequences of messages.
LEMMA DrainTypes ==
  ASSUME NEW queue \in Seq(Message), NEW taken \in Drains(queue)
  PROVE  taken \in Seq(Message) /\ Undrained(queue, taken) \in Seq(Message)
<1>1. SubSeq(queue, 1, IF queue = <<>> THEN 0 ELSE 1) \in Seq(Message)
  <2>1. CASE queue = <<>>
    <3>1. SubSeq(queue, 1, 0) = <<>>
      BY SubSeqEmpty
    <3> QED
      BY <2>1, <3>1
  <2>2. CASE queue # <<>>
    <3>1. \A i \in 1..1 : queue[i] \in Message
      BY <2>2
    <3> QED
      BY <2>2, <3>1, SubSeqProperties
  <2> QED
    BY <2>1, <2>2
<1>2. taken \in Seq(Message)
  BY <1>1 DEF Drains
<1>3. \A i \in (Len(taken) + 1)..Len(queue) : queue[i] \in Message
  BY <1>2
<1>4. Len(taken) + 1 \in Int /\ Len(queue) \in Int
  BY <1>2
<1>5. SubSeq(queue, Len(taken) + 1, Len(queue)) \in Seq(Message)
  BY <1>3, <1>4, SubSeqProperties
<1> QED
  BY <1>2, <1>5 DEF Undrained

\* The variables keep their types.
LEMMA TypeKept ==
  ASSUME IInv, [Next]_vars
  PROVE  LoopTypeOK'
<1> USE BoundsAssumption DEF IInv, LoopTypeOK
<1> USE DEF vars, agentvars, loopvars, toolvars, boundvars
<1>m. /\ \A n \in Nat : Steer(n) \in Message /\ FollowUp(n) \in Message /\ Prompt(n) \in Message
      /\ Continuation \in Message
      /\ \A c \in Call : Result(c) \in Message
      /\ \A stop \in Stops, cs \in Seq(Call) : Answer(stop, cs) \in Message
  BY MessageTypes
<1>c. Count \in Nat /\ \A i \in 1..Count : calls[i] \in Call
  BY DEF Count
<1>r. \A i \in 1..Count : Append(transcript, Result(calls[i])) \in Seq(Message)
  BY <1>m, <1>c
<1>s. ASSUME NEW prompts \in Seq(Message), NEW skip, StartRun(prompts, skip)
      PROVE  /\ transcript' \in Seq(Message) /\ context' \in Seq(Message)
             /\ pendingMessages' \in Seq(Message) /\ run' \in Nat
             /\ UNCHANGED <<toolvars, queued, answers, failures>>
  <2>1. transcript \o prompts \in Seq(Message)
    BY ConcatProperties
  <2>2. run' = run + 1
    BY <1>s DEF StartRun
  <2>3. transcript' = transcript /\ context' = transcript \o prompts /\ pendingMessages' = prompts
    BY <1>s DEF StartRun
  <2>4. UNCHANGED <<toolvars, queued, answers, failures>>
    BY <1>s DEF StartRun
  <2> QED
    BY <2>1, <2>2, <2>3, <2>4
<1>t. status' = status /\ calls' = calls => status' \in [1..Count' -> Statuses]
  BY DEF Count
<1>1. CASE SteerCall
  BY <1>1, <1>m, <1>t DEF SteerCall
<1>2. CASE FollowUpCall
  BY <1>2, <1>m, <1>t DEF FollowUpCall
<1>3. CASE Abort
  BY <1>3, <1>t DEF Abort
<1>4. CASE PromptCall
  <2>1. <<Prompt(run + 1)>> \in Seq(Message)
    BY <1>m
  <2> QED
    BY <1>4, <1>s, <1>t, <2>1 DEF PromptCall
<1>5. CASE ContinueSteering
  <2>1. PICK taken \in Drains(steeringQueue) :
          StartRun(taken, TRUE) /\ steeringQueue' = Undrained(steeringQueue, taken)
    BY <1>5 DEF ContinueSteering
  <2> QED
    BY <1>5, <1>s, <1>t, <2>1, DrainTypes DEF ContinueSteering
<1>6. CASE ContinueFollowUp
  <2>1. PICK taken \in Drains(followUpQueue) :
          StartRun(taken, FALSE) /\ followUpQueue' = Undrained(followUpQueue, taken)
    BY <1>6 DEF ContinueFollowUp
  <2> QED
    BY <1>6, <1>s, <1>t, <2>1, DrainTypes DEF ContinueFollowUp
<1>7. CASE ContinueTranscript
  <2>1. <<>> \in Seq(Message)
    OBVIOUS
  <2> QED
    BY <1>7, <1>s, <1>t, <2>1 DEF ContinueTranscript
<1>8. CASE Request
  BY <1>8, <1>t DEF Request
<1>9. ASSUME NEW n \in {0, MaxCalls}, AnswerFails(n)
      PROVE  LoopTypeOK'
  <2>1. NewCalls(n) \in Seq(Call) /\ <<>> \in Seq(Call)
    BY CallsDiffer
  <2>2. PICK message \in Message : Answered(message)
    <3>1. "error" \in Stops /\ "aborted" \in Stops
      BY DEF Stops
    <3>2. /\ Answer("error", NewCalls(n)) \in Message
          /\ Answer("aborted", NewCalls(n)) \in Message
          /\ Answer("aborted", <<>>) \in Message
      BY <1>m, <2>1, <3>1
    <3> QED
      BY <1>9, <3>2 DEF AnswerFails
  <2> QED
    BY <1>9, <1>t, <2>2 DEF AnswerFails, Answered
<1>10. ASSUME NEW stop \in {"stop", "toolUse", "length"}, NEW n \in 0..MaxCalls, AnswerArrives(stop, n)
       PROVE  LoopTypeOK'
  <2>1. NewCalls(n) \in Seq(Call) /\ Len(NewCalls(n)) = n
    BY CallsDiffer
  <2>2. Answer(stop, NewCalls(n)) \in Message
    <3>1. stop \in Stops
      BY DEF Stops
    <3> QED
      BY <1>m, <2>1, <3>1
  <2>3. status' \in [1..Count' -> Statuses] /\ calls' \in Seq(Call)
    BY <1>10, <2>1 DEF AnswerArrives, Count, Statuses
  <2>4. mode' \in {"parallel", "sequential"}
    BY <1>10 DEF AnswerArrives
  <2> QED
    BY <1>10, <2>2, <2>3, <2>4 DEF AnswerArrives, Answered
<1>11. CASE EmitPrompts
  BY <1>11, <1>t DEF EmitPrompts
<1>12. CASE InitialPoll
  <2>1. PICK taken \in IF skipPoll THEN {<<>>} ELSE Drains(steeringQueue) :
          pendingMessages' = taken /\ steeringQueue' = Undrained(steeringQueue, taken)
    BY <1>12 DEF InitialPoll
  <2>2. CASE skipPoll
    <3>1. Undrained(steeringQueue, <<>>) = steeringQueue
      BY SubSeqFull DEF Undrained
    <3> QED
      BY <1>12, <1>t, <2>1, <2>2, <3>1 DEF InitialPoll
  <2>3. CASE ~skipPoll
    BY <1>12, <1>t, <2>1, <2>3, DrainTypes DEF InitialPoll
  <2> QED
    BY <2>2, <2>3
<1>13. CASE Turn
  BY <1>13, <1>t DEF Turn
<1>14. CASE FailTruncated
  BY <1>14, <1>r DEF FailTruncated, BatchOK, Statuses, Count
<1>15. CASE StartTool
  BY <1>15 DEF StartTool, Statuses, Count
<1>16. CASE PrepareImmediate
  BY <1>16, <1>r DEF PrepareImmediate, EndCall, BatchOK, OneByOne, Preparing, Statuses, Count
<1>17. CASE Prepare
  BY <1>17 DEF Prepare, Statuses, Count
<1>18. CASE NextCall
  <2>1. status' \in [1..Count' -> Statuses]
    BY <1>18 DEF NextCall, Statuses, Count
  <2> QED
    BY <1>18, <2>1 DEF NextCall
<1>19. ASSUME NEW i \in 1..MaxCalls, Settle(i)
       PROVE  LoopTypeOK'
  <2>1. i \in 1..Count
    BY <1>19 DEF Settle, Executing
  <2>2. transcript' \in Seq(Message) /\ status' \in [1..Count' -> Statuses]
    BY <1>19, <1>r, <2>1 DEF Settle, EndCall, Statuses, Count
  <2> QED
    BY <1>19, <2>2 DEF Settle
<1>20. CASE EmitResult
  <2>1. CASE at \in Ended
    <3>1. at \in 1..Count
      BY <2>1 DEF Ended
    <3>2. Append(transcript, Result(calls[at])) \in Seq(Message)
      BY <1>r, <3>1
    <3>3. transcript' = Append(transcript, Result(calls[at])) /\ at' = at + 1
      BY <1>20, <2>1 DEF EmitResult
    <3>4. UNCHANGED <<agentvars, loopvars, calls, mode, status, boundvars>>
      BY <1>20 DEF EmitResult
    <3> QED
      BY <1>t, <3>2, <3>3, <3>4
  <2>2. CASE at \notin Ended
    BY <1>20, <1>t, <2>2 DEF EmitResult
  <2> QED
    BY <2>1, <2>2
<1>21. CASE BatchEnd
  <2>1. PICK k \in 0..Count : \A i \in 1..Count : status[i] = IF i <= k THEN "ended" ELSE "todo"
    BY <1>21 DEF BatchEnd, BatchOK
  <2>2. Cardinality(Ended) = k
    <3>1. Ended = 1..k
      BY <1>c, <2>1 DEF Ended
    <3> QED
      BY <3>1, <1>c, FS_Interval
  <2>3. Results(k) \in Seq(Message)
    BY ResultsTypes
  <2>4. context' \in Seq(Message)
    BY <1>21, <2>2, <2>3 DEF BatchEnd, Results
  <2> QED
    BY <1>21, <2>4 DEF BatchEnd, LeaveBatch, Statuses, Count
<1>22. CASE ContinueAnswer
  BY <1>22, <1>m, <1>t DEF ContinueAnswer
<1>23. CASE TurnEnd
  BY <1>23, <1>t DEF TurnEnd
<1>24. CASE Poll
  <2>1. PICK taken \in Drains(steeringQueue) :
          pendingMessages' = taken /\ steeringQueue' = Undrained(steeringQueue, taken)
    BY <1>24 DEF Poll
  <2> QED
    BY <1>24, <1>t, <2>1, DrainTypes DEF Poll
<1>25. CASE FollowUpPoll
  <2>1. PICK taken \in Drains(followUpQueue) :
          pendingMessages' = taken /\ followUpQueue' = Undrained(followUpQueue, taken)
    BY <1>25 DEF FollowUpPoll
  <2> QED
    BY <1>25, <1>t, <2>1, DrainTypes DEF FollowUpPoll
<1>26. CASE AgentEnd
  BY <1>26, <1>t DEF AgentEnd
<1>27. CASE FinishRun
  <2>1. calls' = <<>> /\ status' = <<>> /\ context' = <<>>
    BY <1>27 DEF FinishRun, LeaveLoop
  <2>2. <<>> \in Seq(Call) /\ <<>> \in Seq(Message) /\ Len(<<>>) = 0
    OBVIOUS
  <2>3. status' \in [1..Count' -> Statuses]
    <3>1. Count' = 0
      BY <2>1, <2>2 DEF Count
    <3>2. <<>> \in [1..0 -> Statuses]
      OBVIOUS
    <3> QED
      BY <2>1, <3>1, <3>2
  <2> QED
    BY <1>27, <2>1, <2>2, <2>3 DEF FinishRun, LeaveLoop
<1>28. CASE HandleFailure
  <2> DEFINE message == [Answer("error", <<>>) EXCEPT
                           !.stop = IF aborted THEN "aborted" ELSE "error", !.id = <<0, run>>]
  <2>1. message \in Message
    <3>1. Answer("error", <<>>) \in Message
      <4>1. "error" \in Stops /\ <<>> \in Seq(Call)
        BY DEF Stops
      <4> QED
        BY <1>m, <4>1
    <3>2. "error" \in Stops /\ "aborted" \in Stops /\ <<0, run>> \in Nat \X Nat
      BY DEF Stops
    <3> QED
      BY <3>1, <3>2 DEF Message
  <2>2. transcript' = Append(transcript, message) \/ transcript' = transcript
    BY <1>28 DEF HandleFailure
  <2> HIDE DEF message
  <2>3. transcript' \in Seq(Message)
    <3>1. transcript \in Seq(Message)
      OBVIOUS
    <3>2. Append(transcript, message) \in Seq(Message)
      BY <2>1, <3>1, AppendProperties
    <3> QED
      BY <2>2, <3>1, <3>2
  <2> QED
    BY <1>28, <1>t, <2>3 DEF HandleFailure
<1>29. CASE Fail
  <2>1. \A k \in 0..Len(pendingMessages) : SubSeq(pendingMessages, 1, k) \in Seq(Message)
    OBVIOUS
  <2>2. 0 \in 0..Len(pendingMessages)
    OBVIOUS
  <2>3. transcript' \in Seq(Message)
    BY <1>29, <2>1, <2>2 DEF Fail
  <2>4. status' \in [1..Count' -> Statuses]
    BY <1>29 DEF Fail, LeaveBatch, Statuses, Count
  <2> QED
    BY <1>29, <2>3, <2>4 DEF Fail, LeaveBatch
<1>30. ASSUME NEW call \in strays, StraySettles(call)
       PROVE  LoopTypeOK'
  BY <1>30, <1>t DEF StraySettles
<1>31. CASE UNCHANGED vars
  BY <1>31, <1>t
<1> QED
  BY <1>1, <1>2, <1>3, <1>4, <1>5, <1>6, <1>7, <1>8, <1>9, <1>10, <1>11, <1>12, <1>13,
     <1>14, <1>15, <1>16, <1>17, <1>18, <1>19, <1>20, <1>21, <1>22, <1>23, <1>24, <1>25,
     <1>26, <1>27, <1>28, <1>29, <1>30, <1>31
  DEF Next, UserStep, ModelStep, LoopStep, ToolSettles, StraySettle

\* What is known of the calls of the batch when the loop leaves them.
LEMMA EndedCalls ==
  ASSUME LoopTypeOK, BatchOK, pc = "batchEnd"
  PROVE  \E k \in 0..Count : Ended = 1..k /\ Cardinality(Ended) = k
<1>1. Count \in Nat
  BY DEF LoopTypeOK, Count
<1>2. PICK k \in 0..Count : \A i \in 1..Count : status[i] = IF i <= k THEN "ended" ELSE "todo"
  BY DEF BatchOK
<1>3. Ended = 1..k
  BY <1>1, <1>2 DEF Ended
<1> QED
  BY <1>1, <1>3, FS_Interval

-----------------------------------------------------------------------------
\* The batch advances from call to call.
LEMMA BatchKept ==
  ASSUME IInv, [Next]_vars
  PROVE  BatchOK'
<1> USE DEF BatchOK, InBatch, OneByOne, Preparing, Passed
<1> USE DEF vars, agentvars, loopvars, toolvars, boundvars
<1>i. LoopTypeOK /\ BatchOK
  BY DEF IInv
<1>c. Count \in Nat /\ status \in [1..Count -> Statuses] /\ at \in Nat
  BY <1>i DEF LoopTypeOK, Count
\* A step outside batches, or one that leaves the calls alone.
<1>o. ASSUME UNCHANGED toolvars, pc \notin InBatch, pc' \notin InBatch
      PROVE  BatchOK'
  BY <1>i, <1>o DEF Count
<1>u. ASSUME UNCHANGED <<toolvars, pc>>
      PROVE  BatchOK'
  BY <1>i, <1>u DEF Count, Executing
<1>1. CASE SteerCall
  BY <1>1, <1>u DEF SteerCall
<1>2. CASE FollowUpCall
  BY <1>2, <1>u DEF FollowUpCall
<1>3. CASE Abort
  BY <1>3, <1>u DEF Abort
<1>4. CASE PromptCall \/ ContinueSteering \/ ContinueFollowUp \/ ContinueTranscript
  <2>1. pc = "idle" /\ pc' = "prompts" /\ UNCHANGED toolvars
    BY <1>4 DEF PromptCall, ContinueSteering, ContinueFollowUp, ContinueTranscript, StartRun
  <2> QED
    BY <1>o, <2>1
<1>5. CASE Request
  BY <1>5, <1>o DEF Request
<1>6. ASSUME NEW n \in {0, MaxCalls}, AnswerFails(n)
      PROVE  BatchOK'
  BY <1>6, <1>o DEF AnswerFails
<1>7. ASSUME NEW stop \in {"stop", "toolUse", "length"}, NEW n \in 0..MaxCalls, AnswerArrives(stop, n)
      PROVE  BatchOK'
  <2>1. n \in Nat /\ Count' = n
    BY <1>7, BoundsAssumption, CallsDiffer, <1>i DEF AnswerArrives, Count, LoopTypeOK
  <2>2. at' = 1 /\ \A i \in 1..n : status'[i] = "todo"
    BY <1>7 DEF AnswerArrives
  <2>3. CASE n = 0
    <3>1. pc' = "turnEnd"
      BY <1>7, <2>3 DEF AnswerArrives
    <3> QED
      BY <2>1, <2>3, <3>1
  <2>4. CASE n # 0
    <3>1. pc' \in {"truncated", "tool"}
      BY <1>7, <2>4 DEF AnswerArrives
    <3> QED
      BY <2>1, <2>2, <2>4, <3>1
  <2> QED
    BY <2>3, <2>4
<1>8. CASE EmitPrompts \/ InitialPoll \/ Turn \/ ContinueAnswer \/ TurnEnd \/ Poll
            \/ FollowUpPoll \/ AgentEnd \/ HandleFailure
  <2>1. UNCHANGED toolvars /\ pc \notin InBatch /\ pc' \notin InBatch
    BY <1>8 DEF EmitPrompts, InitialPoll, Turn, ContinueAnswer, TurnEnd, Poll, FollowUpPoll,
                AgentEnd, HandleFailure
  <2> QED
    BY <1>o, <2>1
<1>9. CASE FailTruncated
  BY <1>9, <1>i, <1>c DEF FailTruncated, Count
<1>10. CASE StartTool
  BY <1>10, <1>i, <1>c DEF StartTool, Count
<1>11. CASE PrepareImmediate
  BY <1>11, <1>i, <1>c DEF PrepareImmediate, EndCall, Count
<1>12. CASE Prepare
  <2>1. mode \in {"parallel", "sequential"}
    BY <1>i DEF LoopTypeOK
  <2> QED
    BY <1>12, <1>i, <1>c, <2>1 DEF Prepare, Count
<1>13. CASE NextCall
  <2>0. mode \in {"parallel", "sequential"}
    BY <1>i DEF LoopTypeOK
  <2>1. /\ at \in 1..Count
        /\ \A i \in 1..Count : (i <= at => Passed(i)) /\ (i > at => status[i] = "todo")
    BY <1>13, <1>i, <1>c DEF NextCall
  <2>2. CASE ~(aborted \/ at = Count)
    BY <1>13, <1>c, <2>1, <2>2 DEF NextCall, Count
  <2>3. CASE (aborted \/ at = Count) /\ mode = "sequential"
    <3>1. pc' = "batchEnd" /\ Count' = Count
      BY <1>13, <2>3 DEF NextCall, Count
    <3>2. \A i \in 1..Count : status'[i] = IF i <= at THEN "ended" ELSE "todo"
      BY <1>13, <1>c, <2>1, <2>3 DEF NextCall
    <3>3. at \in 0..Count' /\ \A j \in 1..Count' : status'[j] = IF j <= at THEN "ended" ELSE "todo"
      BY <1>c, <2>1, <3>1, <3>2
    <3>4. \E m \in 0..Count' : \A j \in 1..Count' : status'[j] = IF j <= m THEN "ended" ELSE "todo"
      BY <3>3
    <3> QED
      BY <3>1, <3>4
  <2>4. CASE (aborted \/ at = Count) /\ mode = "parallel"
    <3>1. pc' = "settling" /\ Count' = Count /\ at' = 1 /\ mode' = "parallel"
      BY <1>13, <2>4 DEF NextCall, Count
    <3>2. \A i \in 1..Count :
            IF i <= at THEN status'[i] \in {"executing", "ended"} ELSE status'[i] = "todo"
      BY <1>13, <1>c, <2>1, <2>4 DEF NextCall
    <3>3. at \in 1..Count' /\ at' \in 1..(at + 1) /\ ~(at' > 1)
      BY <1>c, <2>1, <3>1
    <3>4. \E m \in 1..Count' :
            /\ at' \in 1..(m + 1)
            /\ \A j \in 1..Count' :
                 IF j <= m THEN status'[j] \in {"executing", "ended"} ELSE status'[j] = "todo"
      BY <3>1, <3>2, <3>3
    <3> QED
      BY <3>1, <3>3, <3>4
  <2> QED
    BY <2>0, <2>2, <2>3, <2>4
<1>14. ASSUME NEW i \in 1..MaxCalls, Settle(i)
       PROVE  BatchOK'
  <2>0. mode \in {"parallel", "sequential"}
    BY <1>i DEF LoopTypeOK
  <2>1. /\ pc = "settling" /\ i \in 1..Count /\ status[i] = "executing"
        /\ UNCHANGED <<calls, mode, at>> /\ Count' = Count
        /\ status' = [status EXCEPT ![i] = "ended"]
    BY <1>14 DEF Settle, Executing, EndCall, Count
  <2>2. CASE mode = "sequential"
    <3>1. pc' = "prepared"
      BY <1>14, <2>2 DEF Settle
    <3>2. i = at
      BY <1>i, <1>c, <2>1, <2>2
    <3> QED
      BY <1>i, <1>c, <2>1, <2>2, <3>1, <3>2
  <2>3. CASE mode = "parallel"
    <3>1. pc' = "settling"
      BY <1>14, <2>1, <2>3 DEF Settle
    <3>2. PICK k \in 1..Count :
            /\ at \in 1..(k + 1)
            /\ at > 1 => Executing = {}
            /\ \A j \in 1..Count :
                 IF j <= k THEN status[j] \in {"executing", "ended"} ELSE status[j] = "todo"
      BY <1>i, <2>1, <2>3
    <3>3. ~(at > 1)
      BY <2>1, <3>2 DEF Executing
    <3>4. \A j \in 1..Count :
            IF j <= k THEN status'[j] \in {"executing", "ended"} ELSE status'[j] = "todo"
      BY <1>c, <2>1, <3>2
    <3> QED
      BY <2>1, <2>3, <3>1, <3>2, <3>3, <3>4
  <2> QED
    BY <2>0, <2>2, <2>3
<1>15. CASE EmitResult
  <2>1. PICK k \in 1..Count :
          /\ at \in 1..(k + 1)
          /\ \A j \in 1..Count :
               IF j <= k THEN status[j] \in {"executing", "ended"} ELSE status[j] = "todo"
    BY <1>15, <1>i DEF EmitResult
  <2>2. UNCHANGED <<calls, mode, status>> /\ Count' = Count /\ mode = "parallel" /\ Executing = {}
        /\ Executing' = {}
    BY <1>15 DEF EmitResult, Count, Executing
  <2>3. \A j \in 1..Count : status[j] = IF j <= k THEN "ended" ELSE "todo"
    BY <2>1, <2>2 DEF Executing
  <2>4. CASE at \in Ended
    <3>1. pc' = "settling" /\ at' = at + 1
      BY <1>15, <2>4 DEF EmitResult
    <3>2. at <= k
      BY <1>c, <2>1, <2>3, <2>4 DEF Ended
    <3>3. k \in 1..Count' /\ at' \in 1..(k + 1)
      BY <1>c, <2>1, <2>2, <3>1, <3>2
    <3>4. \A j \in 1..Count' :
            IF j <= k THEN status'[j] \in {"executing", "ended"} ELSE status'[j] = "todo"
      BY <2>1, <2>2
    <3>5. \E m \in 1..Count' :
            /\ at' \in 1..(m + 1)
            /\ \A j \in 1..Count' :
                 IF j <= m THEN status'[j] \in {"executing", "ended"} ELSE status'[j] = "todo"
      BY <3>3, <3>4
    <3> QED
      BY <2>2, <3>1, <3>5
  <2>5. CASE at \notin Ended
    <3>1. pc' = "batchEnd"
      BY <1>15, <2>5 DEF EmitResult
    <3>2. k \in 0..Count' /\ \A j \in 1..Count' : status'[j] = IF j <= k THEN "ended" ELSE "todo"
      BY <1>c, <2>2, <2>3
    <3>3. \E m \in 0..Count' : \A j \in 1..Count' : status'[j] = IF j <= m THEN "ended" ELSE "todo"
      BY <3>2
    <3> QED
      BY <3>1, <3>3
  <2> QED
    BY <2>4, <2>5
<1>16. CASE BatchEnd
  BY <1>16 DEF BatchEnd, LeaveBatch, Count
<1>17. CASE FinishRun
  BY <1>17 DEF FinishRun, LeaveLoop, Count
<1>18. CASE Fail
  BY <1>18 DEF Fail, LeaveBatch, Count
<1>19. ASSUME NEW call \in strays, StraySettles(call)
       PROVE  BatchOK'
  BY <1>19, <1>u DEF StraySettles
<1>20. CASE UNCHANGED vars
  BY <1>20, <1>u
<1> QED
  BY <1>1, <1>2, <1>3, <1>4, <1>5, <1>6, <1>7, <1>8, <1>9, <1>10, <1>11, <1>12, <1>13,
     <1>14, <1>15, <1>16, <1>17, <1>18, <1>19, <1>20
  DEF Next, UserStep, ModelStep, LoopStep, ToolSettles, StraySettle

-----------------------------------------------------------------------------
\* The transcript and the context differ by what is emitted and not added yet,
\* or the other way round.
LEMMA CopiesKept ==
  ASSUME IInv, [Next]_vars
  PROVE  CopiesOK'
<1> USE DEF vars, agentvars, loopvars, toolvars, boundvars
<1> USE DEF InBatch, Preparing
<1>i. LoopTypeOK /\ BatchOK /\ CopiesOK
  BY DEF IInv
<1>t. /\ transcript \in Seq(Message) /\ context \in Seq(Message)
      /\ pendingMessages \in Seq(Message) /\ mode \in {"parallel", "sequential"}
      /\ Count \in Nat /\ at \in Nat
  BY <1>i DEF LoopTypeOK, Count
\* Within a batch, n results are in the transcript after the step.
<1>b. ASSUME NEW n, Emitted' = n, UNCHANGED <<run, calls>>, pc' \in InBatch,
             transcript' = context' \o Results(n)
      PROVE  CopiesOK'
  <2>1. Results(Emitted)' = Results(n)
    BY <1>b DEF Results, Result, Msg
  <2> QED
    BY <1>b, <2>1 DEF CopiesOK
\* A result is emitted.
<1>e. ASSUME at \in 1..Count, transcript = context \o Results(at - 1)
      PROVE  Append(transcript, Result(calls[at])) = context \o Results(at)
  <2>1. at - 1 \in 0..Count /\ at - 1 < Count /\ (at - 1) + 1 = at
    BY <1>e, <1>t
  <2> QED
    BY <1>e, <1>i, <2>1, OneMoreResult
\* Nothing of this changes.
<1>u. ASSUME UNCHANGED <<pc, transcript, context, pendingMessages, toolvars, run>>
      PROVE  CopiesOK'
  <2>1. Ended' = Ended
    BY <1>u DEF Ended, Count
  <2>2. Emitted' = Emitted
    BY <1>u, <2>1 DEF Emitted
  <2>3. CASE pc \in InBatch
    BY <1>b, <1>i, <1>u, <2>2, <2>3 DEF CopiesOK
  <2>4. CASE pc \notin InBatch
    BY <1>i, <1>u, <2>4 DEF CopiesOK
  <2> QED
    BY <2>3, <2>4
<1>1. CASE SteerCall
  BY <1>1, <1>u DEF SteerCall
<1>2. CASE FollowUpCall
  BY <1>2, <1>u DEF FollowUpCall
<1>3. CASE Abort
  BY <1>3, <1>u DEF Abort
<1>4. CASE PromptCall \/ ContinueSteering \/ ContinueFollowUp \/ ContinueTranscript
  <2>1. /\ pc' = "prompts" /\ transcript' = transcript
        /\ context' = transcript \o pendingMessages'
    BY <1>4 DEF PromptCall, ContinueSteering, ContinueFollowUp, ContinueTranscript, StartRun
  <2> QED
    BY <2>1 DEF CopiesOK
<1>5. CASE Request
  BY <1>5, <1>i DEF Request, CopiesOK
<1>6. ASSUME NEW n \in {0, MaxCalls}, AnswerFails(n)
      PROVE  CopiesOK'
  BY <1>6 DEF AnswerFails, CopiesOK
<1>7. ASSUME NEW stop \in {"stop", "toolUse", "length"}, NEW n \in 0..MaxCalls, AnswerArrives(stop, n)
      PROVE  CopiesOK'
  <2>1. context' = transcript' /\ transcript' \in Seq(Message)
    <3>1. context' = transcript'
      BY <1>7, <1>i DEF AnswerArrives, Answered, CopiesOK
    <3>2. transcript' \in Seq(Message)
      BY TypeKept DEF LoopTypeOK
    <3> QED
      BY <3>1, <3>2
  <2>2. CASE n = 0
    <3>1. pc' = "turnEnd"
      BY <1>7, <2>2 DEF AnswerArrives
    <3> QED
      BY <2>1, <3>1 DEF CopiesOK
  <2>3. CASE n # 0
    <3>1. pc' \in {"truncated", "tool"} /\ at' = 1
      BY <1>7, <2>3 DEF AnswerArrives
    <3>2. mode' \in {"parallel", "sequential"}
      BY TypeKept DEF LoopTypeOK
    <3>3. Emitted' = 0
      BY <3>1, <3>2 DEF Emitted
    <3>4. Results(Emitted)' = << >>
      BY <3>3 DEF Results
    <3>5. transcript' = context' \o << >>
      BY <2>1, ConcatEmptySeq
    <3> QED
      BY <3>1, <3>4, <3>5 DEF CopiesOK
  <2> QED
    BY <2>2, <2>3
<1>8. CASE EmitPrompts
  BY <1>8, <1>i DEF EmitPrompts, CopiesOK
<1>9. CASE InitialPoll
  BY <1>9, <1>i DEF InitialPoll, CopiesOK
<1>10. CASE Turn
  BY <1>10, <1>i DEF Turn, CopiesOK
<1>11. CASE FailTruncated
  <2>1. at \in 1..Count /\ Emitted = at - 1 /\ UNCHANGED <<run, calls, context>>
    BY <1>11, <1>i DEF FailTruncated, BatchOK, Emitted
  <2>2. transcript' = context' \o Results(at)
    BY <1>11, <1>e, <1>i, <2>1 DEF FailTruncated, CopiesOK
  <2>3. CASE at = Count
    <3>1. pc' = "batchEnd" /\ Count' = Count
      BY <1>11, <2>3 DEF FailTruncated, Count
    <3>2. \A i \in 1..Count : status'[i] = "ended"
      BY <1>11, <1>i, <1>t, <2>1, <2>3 DEF FailTruncated, BatchOK, LoopTypeOK
    <3>3. Ended' = 1..Count
      BY <3>1, <3>2 DEF Ended
    <3>4. Emitted' = at
      BY <1>t, <2>3, <3>1, <3>3, FS_Interval DEF Emitted
    <3> QED
      BY <1>b, <2>1, <2>2, <3>1, <3>4
  <2>4. CASE at # Count
    <3>1. pc' = "truncated" /\ Emitted' = at
      BY <1>11, <1>t, <2>4 DEF FailTruncated, Emitted
    <3> QED
      BY <1>b, <2>1, <2>2, <3>1
  <2> QED
    BY <2>3, <2>4
<1>12. CASE StartTool
  <2>1. Emitted' = Emitted /\ pc' = "prepare" /\ UNCHANGED <<run, calls, transcript, context>>
    BY <1>12 DEF StartTool, Emitted
  <2>2. transcript = context \o Results(Emitted)
    BY <1>12, <1>i DEF StartTool, CopiesOK
  <2> QED
    BY <1>b, <2>1, <2>2
<1>13. CASE PrepareImmediate
  <2>1. /\ pc = "prepare" /\ pc' = "prepared" /\ UNCHANGED <<run, calls, context, mode, at>>
        /\ at \in 1..Count
    BY <1>13, <1>i DEF PrepareImmediate, BatchOK, OneByOne
  <2>2. CASE mode = "sequential"
    <3>1. Emitted = at - 1 /\ Emitted' = at
      BY <2>1, <2>2 DEF Emitted
    <3>2. transcript' = context' \o Results(at)
      BY <1>13, <1>e, <1>i, <2>1, <2>2, <3>1 DEF PrepareImmediate, EndCall, CopiesOK
    <3> QED
      BY <1>b, <2>1, <3>1, <3>2
  <2>3. CASE mode = "parallel"
    <3>1. Emitted = 0 /\ Emitted' = 0
      BY <2>1, <2>3 DEF Emitted
    <3>2. transcript' = context' \o Results(0)
      BY <1>13, <1>i, <2>1, <2>3, <3>1 DEF PrepareImmediate, EndCall, CopiesOK
    <3> QED
      BY <1>b, <2>1, <3>1, <3>2
  <2> QED
    BY <1>t, <2>2, <2>3
<1>14. CASE Prepare
  <2>1. /\ pc = "prepare" /\ pc' = (IF mode = "sequential" THEN "settling" ELSE "prepared")
        /\ UNCHANGED <<run, calls, transcript, context, mode, at>>
    BY <1>14 DEF Prepare
  <2>2. Emitted' = Emitted
    BY <1>t, <2>1 DEF Emitted
  <2>3. transcript = context \o Results(Emitted)
    BY <1>i, <2>1 DEF CopiesOK
  <2> QED
    BY <1>b, <2>1, <2>2, <2>3
<1>15. CASE NextCall
  <2>1. /\ pc = "prepared" /\ at \in 1..Count /\ Count' = Count
        /\ \A i \in 1..Count : (i < at => Passed(i)) /\ (i > at => status[i] = "todo")
        /\ Passed(at)
        /\ UNCHANGED <<run, calls, transcript, context, mode>>
    BY <1>15, <1>i DEF NextCall, BatchOK, OneByOne, Count
  <2>2. transcript = context \o Results(Emitted)
    BY <1>i, <2>1 DEF CopiesOK
  <2>3. CASE ~(aborted \/ at = Count)
    <3>1. pc' = "tool" /\ at' = at + 1
      BY <1>15, <2>3 DEF NextCall
    <3>2. Emitted' = Emitted
      BY <1>t, <2>1, <3>1 DEF Emitted
    <3> QED
      BY <1>b, <2>1, <2>2, <3>1, <3>2
  <2>4. CASE (aborted \/ at = Count) /\ mode = "parallel"
    <3>1. pc' = "settling" /\ at' = 1
      BY <1>15, <2>4 DEF NextCall
    <3>2. Emitted' = Emitted
      BY <2>1, <2>4, <3>1 DEF Emitted
    <3> QED
      BY <1>b, <2>1, <2>2, <3>1, <3>2
  <2>5. CASE (aborted \/ at = Count) /\ mode = "sequential"
    <3>1. pc' = "batchEnd"
      BY <1>15, <2>5 DEF NextCall
    <3>2. \A i \in 1..Count : status'[i] = IF i <= at THEN "ended" ELSE "todo"
      BY <1>15, <1>t, <2>1, <2>5 DEF NextCall, Passed
    <3>3. Ended' = 1..at
      BY <1>t, <2>1, <3>2 DEF Ended
    <3>4. Emitted' = Emitted
      BY <1>t, <2>1, <2>5, <3>1, <3>3, FS_Interval DEF Emitted
    <3> QED
      BY <1>b, <2>1, <2>2, <3>1, <3>4
  <2> QED
    BY <1>t, <2>3, <2>4, <2>5
<1>16. ASSUME NEW i \in 1..MaxCalls, Settle(i)
       PROVE  CopiesOK'
  <2>1. /\ pc = "settling" /\ status[i] = "executing" /\ i \in 1..Count
        /\ UNCHANGED <<run, calls, context, mode, at>>
    BY <1>16 DEF Settle, Executing
  <2>2. transcript = context \o Results(at - 1)
    BY <1>i, <2>1 DEF CopiesOK, Emitted
  <2>3. CASE mode = "sequential"
    <3>1. i = at /\ at \in 1..Count
      BY <1>i, <1>t, <2>1, <2>3 DEF BatchOK, OneByOne, Passed
    <3>2. pc' = "prepared" /\ Emitted' = at
      BY <1>16, <2>1, <2>3 DEF Settle, Emitted
    <3>3. transcript' = context' \o Results(at)
      BY <1>16, <1>e, <2>1, <2>2, <2>3, <3>1 DEF Settle, EndCall
    <3> QED
      BY <1>b, <2>1, <3>2, <3>3
  <2>4. CASE mode = "parallel"
    <3>1. pc' = "settling" /\ Emitted' = at - 1
      BY <1>16, <2>1, <2>4 DEF Settle, Emitted
    <3>2. transcript' = context' \o Results(at - 1)
      BY <1>16, <2>1, <2>2, <2>4 DEF Settle, EndCall
    <3> QED
      BY <1>b, <2>1, <3>1, <3>2
  <2> QED
    BY <1>t, <2>3, <2>4
<1>17. CASE EmitResult
  <2>1. /\ pc = "settling" /\ mode = "parallel" /\ Executing = {}
        /\ UNCHANGED <<run, calls, context, mode, status>> /\ Count' = Count
    BY <1>17 DEF EmitResult, Count
  <2>2. transcript = context \o Results(at - 1)
    BY <1>i, <2>1 DEF CopiesOK, Emitted
  <2>3. CASE at \in Ended
    <3>1. pc' = "settling" /\ Emitted' = at /\ at \in 1..Count
      BY <1>17, <1>t, <2>1, <2>3 DEF EmitResult, Emitted, Ended
    <3>2. transcript' = context' \o Results(at)
      BY <1>17, <1>e, <2>1, <2>2, <2>3, <3>1 DEF EmitResult
    <3> QED
      BY <1>b, <2>1, <3>1, <3>2
  <2>4. CASE at \notin Ended
    <3>1. pc' = "batchEnd" /\ UNCHANGED transcript
      BY <1>17, <2>4 DEF EmitResult
    <3>2. PICK k \in 1..Count :
            /\ at \in 1..(k + 1)
            /\ \A j \in 1..Count :
                 IF j <= k THEN status[j] \in {"executing", "ended"} ELSE status[j] = "todo"
      BY <1>i, <2>1 DEF BatchOK
    <3>3. \A j \in 1..Count : status[j] = IF j <= k THEN "ended" ELSE "todo"
      BY <2>1, <3>2 DEF Executing
    <3>4. at = k + 1
      BY <1>t, <2>4, <3>2, <3>3 DEF Ended
    <3>5. Ended' = 1..k
      BY <1>t, <2>1, <3>2, <3>3 DEF Ended
    <3>6. Emitted' = at - 1
      BY <1>t, <3>1, <3>2, <3>4, <3>5, FS_Interval DEF Emitted
    <3> QED
      BY <1>b, <2>1, <2>2, <3>1, <3>6
  <2> QED
    BY <2>3, <2>4
<1>18. CASE BatchEnd
  <2>1. pc = "batchEnd" /\ pc' = "turnEnd" /\ transcript' = transcript
    BY <1>18 DEF BatchEnd
  <2>2. PICK k \in 0..Count : Cardinality(Ended) = k
    BY <1>i, <2>1, EndedCalls
  <2>3. context' = context \o Results(k)
    BY <1>18, <2>2 DEF BatchEnd, Results
  <2>4. transcript = context \o Results(k)
    BY <1>i, <2>1, <2>2 DEF CopiesOK, Emitted
  <2> QED
    BY <2>1, <2>3, <2>4 DEF CopiesOK
<1>19. CASE ContinueAnswer
  BY <1>19, <1>i DEF ContinueAnswer, CopiesOK
<1>20. CASE TurnEnd
  BY <1>20, <1>i DEF TurnEnd, CopiesOK
<1>21. CASE Poll
  BY <1>21, <1>i DEF Poll, CopiesOK
<1>22. CASE FollowUpPoll
  BY <1>22, <1>i DEF FollowUpPoll, CopiesOK
<1>23. CASE AgentEnd \/ FinishRun \/ HandleFailure \/ Fail
  BY <1>23 DEF AgentEnd, FinishRun, HandleFailure, Fail, CopiesOK
<1>24. ASSUME NEW call \in strays, StraySettles(call)
       PROVE  CopiesOK'
  BY <1>24, <1>u DEF StraySettles
<1>25. CASE UNCHANGED vars
  BY <1>25, <1>u
<1> QED
  BY <1>1, <1>2, <1>3, <1>4, <1>5, <1>6, <1>7, <1>8, <1>9, <1>10, <1>11, <1>12, <1>13,
     <1>14, <1>15, <1>16, <1>17, <1>18, <1>19, <1>20, <1>21, <1>22, <1>23, <1>24, <1>25
  DEF Next, UserStep, ModelStep, LoopStep, ToolSettles, StraySettle

-----------------------------------------------------------------------------
\* The agent's set of pending calls follows what the loop executes.
LEMMA PendingKept ==
  ASSUME IInv, [Next]_vars
  PROVE  PendingOK'
<1> USE DEF vars, agentvars, loopvars, toolvars, boundvars
<1> USE DEF InBatch, Preparing
<1>i. LoopTypeOK /\ BatchOK /\ PendingOK
  BY DEF IInv
<1>t. /\ Count \in Nat /\ at \in Nat /\ status \in [1..Count -> Statuses] /\ failures \in Nat
      /\ mode \in {"parallel", "sequential"}
  BY <1>i DEF LoopTypeOK, Count
<1>n. pc \notin InBatch => Running = {}
  BY <1>i DEF BatchOK, Running
\* The calls that are under way stay the same, and so does the set.
<1>s. ASSUME UNCHANGED <<calls, strays, pendingToolCalls, failures>>, Running' = Running,
             pc' # "idle" \/ pc = "idle"
      PROVE  PendingOK'
  BY <1>i, <1>s DEF PendingOK, Count
<1>u. ASSUME UNCHANGED <<toolvars, strays, pendingToolCalls, failures>>, pc' # "idle" \/ pc = "idle"
      PROVE  PendingOK'
  BY <1>s, <1>u DEF Running, Count
\* A call ends.
<1>e. ASSUME NEW i \in 1..Count, i \in Running, EndCall(i), pc' # "idle",
             UNCHANGED <<calls, strays, failures>>
      PROVE  PendingOK'
  <2>1. Count' = Count /\ Running' = Running \ {i}
    BY <1>e, <1>t DEF EndCall, Running, Count
  <2>2. \A j \in Running : calls[j] = calls[i] => j = i
    BY <1>i DEF PendingOK, Running
  <2>3. {calls[j] : j \in Running'} = {calls[j] : j \in Running} \ {calls[i]}
    BY <1>e, <2>1, <2>2
  <2>4. pendingToolCalls' = pendingToolCalls \ {calls[i]}
    BY <1>e DEF EndCall
  <2>5. failures = 0 => strays = {} /\ pendingToolCalls = {calls[j] : j \in Running}
    BY <1>i DEF PendingOK
  <2>6. {calls'[j] : j \in Running'} = {calls[j] : j \in Running'}
    BY <1>e
  <2>7. failures' = 0 => strays' = {} /\ pendingToolCalls' = {calls'[j] : j \in Running'}
    BY <1>e, <2>3, <2>4, <2>5, <2>6
  <2> QED
    BY <1>e, <1>i, <2>1, <2>7 DEF PendingOK
<1>1. CASE SteerCall \/ FollowUpCall \/ Abort
  BY <1>1, <1>u DEF SteerCall, FollowUpCall, Abort
<1>2. CASE PromptCall \/ ContinueSteering \/ ContinueFollowUp \/ ContinueTranscript
  <2>1. pc' = "prompts" /\ UNCHANGED <<toolvars, strays, pendingToolCalls, failures>>
    BY <1>2 DEF PromptCall, ContinueSteering, ContinueFollowUp, ContinueTranscript, StartRun
  <2> QED
    BY <1>u, <2>1
<1>3. CASE Request
  BY <1>3, <1>u DEF Request
<1>4. ASSUME NEW n \in {0, MaxCalls}, AnswerFails(n)
      PROVE  PendingOK'
  <2>1. pc' = "agentEnd" /\ UNCHANGED <<toolvars, strays, pendingToolCalls, failures>>
    BY <1>4 DEF AnswerFails, Answered
  <2> QED
    BY <1>u, <2>1
<1>5. ASSUME NEW stop \in {"stop", "toolUse", "length"}, NEW n \in 0..MaxCalls, AnswerArrives(stop, n)
      PROVE  PendingOK'
  <2>1. /\ pc = "streaming" /\ pc' # "idle" /\ UNCHANGED <<strays, pendingToolCalls, failures>>
        /\ calls' = NewCalls(n) /\ \A i \in 1..n : status'[i] = "todo"
    BY <1>5 DEF AnswerArrives, Answered
  <2>2. n \in Nat /\ answers \in Nat
    BY <1>i, BoundsAssumption DEF LoopTypeOK
  <2>3. Count' = n /\ \A i, j \in 1..n : calls'[i] = calls'[j] => i = j
    BY <2>1, <2>2, CallsDiffer DEF Count
  <2>4. Running' = {}
    BY <2>1, <2>3 DEF Running
  <2>5. Running = {}
    BY <1>n, <2>1
  <2>6. failures' = 0 => strays' = {} /\ pendingToolCalls' = {}
    BY <1>i, <2>1, <2>5 DEF PendingOK
  <2> QED
    BY <2>1, <2>3, <2>4, <2>6 DEF PendingOK
<1>6. CASE EmitPrompts \/ InitialPoll \/ Turn \/ ContinueAnswer \/ TurnEnd \/ Poll
            \/ FollowUpPoll \/ AgentEnd
  <2>1. pc' # "idle" /\ UNCHANGED <<toolvars, strays, pendingToolCalls, failures>>
    BY <1>6 DEF EmitPrompts, InitialPoll, Turn, ContinueAnswer, TurnEnd, Poll, FollowUpPoll, AgentEnd
  <2> QED
    BY <1>u, <2>1
<1>7. CASE FailTruncated
  <2>1. Running' = Running
    BY <1>7, <1>i, <1>t DEF FailTruncated, BatchOK, Running, Count
  <2> QED
    BY <1>7, <1>s, <2>1 DEF FailTruncated
<1>8. CASE StartTool
  <2>1. at \in 1..Count /\ pc' # "idle" /\ UNCHANGED <<calls, strays, failures>> /\ Count' = Count
        /\ pendingToolCalls' = pendingToolCalls \cup {calls[at]}
    BY <1>8, <1>i DEF StartTool, BatchOK, OneByOne, Count
  <2>2. Running' = Running \cup {at}
    BY <1>8, <1>t, <2>1 DEF StartTool, Running
  <2>3. {calls[j] : j \in Running'} = {calls[j] : j \in Running} \cup {calls[at]}
    BY <2>2
  <2>4. failures' = 0 => strays' = {} /\ pendingToolCalls' = {calls'[j] : j \in Running'}
    BY <1>i, <2>1, <2>3 DEF PendingOK
  <2> QED
    BY <1>i, <2>1, <2>4 DEF PendingOK
<1>9. CASE PrepareImmediate
  <2>1. at \in 1..Count /\ at \in Running
    BY <1>9, <1>i DEF PrepareImmediate, BatchOK, OneByOne, Running
  <2> QED
    BY <1>9, <1>e, <2>1 DEF PrepareImmediate
<1>10. CASE Prepare
  <2>1. at \in 1..Count /\ status[at] = "preparing"
    BY <1>10, <1>i DEF Prepare, BatchOK, OneByOne
  <2>2. Running' = Running
    BY <1>10, <1>t, <2>1 DEF Prepare, Running, Count
  <2> QED
    BY <1>10, <1>s, <2>2 DEF Prepare
<1>11. CASE NextCall
  <2>1. Running' = Running
    BY <1>11, <1>t DEF NextCall, Running, Count
  <2> QED
    BY <1>11, <1>s, <2>1 DEF NextCall
<1>12. ASSUME NEW i \in 1..MaxCalls, Settle(i)
       PROVE  PendingOK'
  <2>1. i \in 1..Count /\ i \in Running
    BY <1>12 DEF Settle, Executing, Running
  <2> QED
    BY <1>12, <1>e, <2>1 DEF Settle
<1>13. CASE EmitResult
  <2>1. Running' = Running
    BY <1>13 DEF EmitResult, Running, Count
  <2> QED
    BY <1>13, <1>s, <2>1 DEF EmitResult
<1>14. CASE BatchEnd
  <2>1. Running = {}
    BY <1>14, <1>i DEF BatchEnd, BatchOK, Running
  <2>2. Running' = {}
    BY <1>14 DEF BatchEnd, LeaveBatch, Running, Count
  <2> QED
    BY <1>14, <1>s, <2>1, <2>2 DEF BatchEnd, LeaveBatch
<1>15. CASE FinishRun
  <2>1. pc = "ended" /\ calls' = <<>> /\ pendingToolCalls' = {} /\ UNCHANGED <<strays, failures>>
    BY <1>15 DEF FinishRun, LeaveLoop
  <2>2. Count' = 0
    BY <2>1 DEF Count
  <2>3. Running' = {}
    BY <2>2 DEF Running
  <2> QED
    BY <1>i, <2>1, <2>2, <2>3 DEF PendingOK
<1>16. CASE HandleFailure
  <2>1. pc' # "idle" /\ UNCHANGED <<toolvars, strays, pendingToolCalls>> /\ Count' = Count
        /\ failures' \in {failures, failures + 1}
    BY <1>16 DEF HandleFailure, Count
  <2>2. CASE failures' = failures
    BY <1>u, <2>1, <2>2
  <2>3. CASE failures' = failures + 1
    <3>1. failures' # 0
      BY <1>t, <2>3
    <3> QED
      BY <1>i, <2>1, <3>1 DEF PendingOK
  <2> QED
    BY <2>1, <2>2, <2>3
<1>17. CASE Fail
  <2>1. pc' # "idle" /\ failures' # 0 /\ UNCHANGED calls /\ Count' = Count
    BY <1>17, <1>t DEF Fail, LeaveBatch, Count
  <2> QED
    BY <1>i, <2>1 DEF PendingOK
<1>18. ASSUME NEW call \in strays, StraySettles(call)
       PROVE  PendingOK'
  <2>1. failures' # 0 /\ UNCHANGED <<calls, pc>> /\ Count' = Count
    BY <1>18, <1>i DEF StraySettles, PendingOK, Count
  <2>2. pendingToolCalls' \subseteq pendingToolCalls
    BY <1>18 DEF StraySettles
  <2> QED
    BY <1>i, <2>1, <2>2 DEF PendingOK
<1>19. CASE UNCHANGED vars
  BY <1>19, <1>u
<1> QED
  BY <1>1, <1>2, <1>3, <1>4, <1>5, <1>6, <1>7, <1>8, <1>9, <1>10, <1>11, <1>12, <1>13,
     <1>14, <1>15, <1>16, <1>17, <1>18, <1>19
  DEF Next, UserStep, ModelStep, LoopStep, ToolSettles, StraySettle

-----------------------------------------------------------------------------
LEMMA InitOK ==
  ASSUME Init
  PROVE  IInv
<1>1. Count = 0
  BY DEF Init, Count
<1>2. LoopTypeOK
  BY <1>1 DEF Init, LoopTypeOK
<1>3. BatchOK /\ CopiesOK
  BY <1>1 DEF Init, BatchOK, CopiesOK, OneByOne, Preparing, InBatch
<1>4. Running = {}
  BY <1>1 DEF Running
<1>5. PendingOK
  BY <1>1, <1>4 DEF Init, PendingOK
<1> QED
  BY <1>2, <1>3, <1>5 DEF IInv

\* The invariant of the loop and its agent.
THEOREM CopiesAndCalls == Spec => []IInv
<1>1. Init => IInv
  BY InitOK
<1>2. IInv /\ [Next]_vars => IInv'
  BY TypeKept, BatchKept, CopiesKept, PendingKept DEF IInv
<1> QED
  BY <1>1, <1>2, PTL DEF Spec

\* Whatever is queued, aborted or thrown, the model is asked with exactly what
\* the transcript holds: streamAssistantResponse sends the loop's copy, while
\* processEvents keeps the agent's.
THEOREM ModelSeesTranscript == Spec => []ContextIsTranscript
<1>1. IInv => ContextIsTranscript
  BY DEF IInv, CopiesOK, ContextIsTranscript
<1> QED
  BY <1>1, CopiesAndCalls, PTL

\* state.pendingToolCalls is empty after every run, failed or not, and while
\* nothing throws it holds the calls that have started and not ended.
THEOREM NothingStaysPending == Spec => []PendingCallsAreRunning
<1>1. IInv => PendingCallsAreRunning
  BY DEF IInv, PendingOK, Running, PendingCallsAreRunning
<1> QED
  BY <1>1, CopiesAndCalls, PTL

-----------------------------------------------------------------------------
(* An answer, its calls and their results.                                 *)

UserRoles == {"prompt", "steer", "followUp"}
OfUser(s) == \A i \in 1..Len(s) : s[i].role \in UserRoles

\* ResultsFollowCalls and NoAnswerWithoutResults, of a conversation s.
Follows(s) ==
  \A j \in 1..Len(s) : s[j].role = "toolResult" =>
    \E i \in 1..(j - 1) :
      /\ \A k \in (i + 1)..j : s[k].role = "toolResult"
      /\ s[i].role = "assistant"
      /\ j - i <= Len(s[i].calls)
      /\ s[j].id = s[i].calls[j - i]

\* Each call of s[i] has its result no later than at n.
Complete(s, i, n) ==
  \A c \in 1..Len(s[i].calls) :
    \E k \in i..n : s[k].id = s[i].calls[c] /\ s[k].role = "toolResult"

Pairs(s) ==
  \A i, j \in 1..Len(s) :
    /\ i < j
    /\ s[i].role = "assistant" /\ s[j].role = "assistant"
    /\ s[i].run = s[j].run
    /\ s[j].stop \notin FailedStops
    => Complete(s, i, j)

\* The answers of run r among the first n messages have their results there.
AllComplete(s, r, n) ==
  \A i \in 1..n : s[i].role = "assistant" /\ s[i].run = r => Complete(s, i, n)

\* What is queued or about to be emitted comes from the user.
UsersOK == OfUser(steeringQueue) /\ OfUser(followUpQueue) /\ OfUser(pendingMessages)

RunsOK ==
  \A i \in 1..Len(transcript) : transcript[i].role = "assistant" => transcript[i].run <= run

\* Every answer to come finds the calls before it with their results: only an
\* abort leaves some without, and then the request is aborted too.
CompleteOK ==
  /\ pc \in {"prompts", "initialPoll", "turn", "request", "turnEnd", "poll", "followUp"} =>
       aborted \/ AllComplete(transcript, run, Len(transcript))
  /\ pc = "streaming" => AllComplete(transcript, run, Len(transcript))

\* The batch executes the calls of the last message of the context.
BatchAnswer ==
  pc \in InBatch =>
    /\ context # <<>>
    /\ context[Len(context)].role = "assistant"
    /\ context[Len(context)].calls = calls
    /\ AllComplete(context, run, Len(context) - 1)

\* Only an abort ends a batch before all its calls have started.
StartedOK ==
  pc = "batchEnd" \/ (pc = "settling" /\ mode = "parallel") =>
    aborted \/ \A i \in 1..Count : status[i] # "todo"

PairInv ==
  /\ UsersOK /\ RunsOK /\ CompleteOK /\ BatchAnswer /\ StartedOK
  /\ Follows(transcript) /\ Pairs(transcript)

-----------------------------------------------------------------------------
\* A longer conversation keeps what is known of the shorter one.
LEMMA FollowsGrows ==
  ASSUME NEW s \in Seq(Message), NEW t \in Seq(Message), Len(s) <= Len(t),
         \A i \in 1..Len(s) : t[i] = s[i], Follows(s),
         \A j \in 1..Len(t) : j > Len(s) => t[j].role # "toolResult"
  PROVE  Follows(t)
<1> SUFFICES ASSUME NEW j \in 1..Len(t), t[j].role = "toolResult"
             PROVE  \E i \in 1..(j - 1) :
                      /\ \A k \in (i + 1)..j : t[k].role = "toolResult"
                      /\ t[i].role = "assistant"
                      /\ j - i <= Len(t[i].calls)
                      /\ t[j].id = t[i].calls[j - i]
  BY DEF Follows
<1>1. Len(s) \in Nat /\ Len(t) \in Nat
  OBVIOUS
<1>2. j \in 1..Len(s) /\ t[j] = s[j]
  BY <1>1
<1>3. PICK i \in 1..(j - 1) :
        /\ \A k \in (i + 1)..j : s[k].role = "toolResult"
        /\ s[i].role = "assistant"
        /\ j - i <= Len(s[i].calls)
        /\ s[j].id = s[i].calls[j - i]
  BY <1>2 DEF Follows
<1>4. t[i] = s[i] /\ \A k \in (i + 1)..j : t[k] = s[k]
  BY <1>1, <1>2
<1> QED
  BY <1>2, <1>3, <1>4

LEMMA CompleteGrows ==
  ASSUME NEW s \in Seq(Message), NEW t \in Seq(Message), Len(s) <= Len(t),
         \A i \in 1..Len(s) : t[i] = s[i],
         NEW i \in 1..Len(s), NEW n \in i..Len(s), NEW m \in n..Len(t), Complete(s, i, n)
  PROVE  Complete(t, i, m)
<1>1. Len(s) \in Nat /\ Len(t) \in Nat
  OBVIOUS
<1>2. t[i] = s[i] /\ \A k \in i..n : t[k] = s[k] /\ k \in i..m
  BY <1>1
<1> QED
  BY <1>2 DEF Complete

LEMMA AllCompleteGrows ==
  ASSUME NEW s \in Seq(Message), NEW t \in Seq(Message), Len(s) <= Len(t),
         \A i \in 1..Len(s) : t[i] = s[i], NEW r, AllComplete(s, r, Len(s)),
         \A j \in 1..Len(t) : j > Len(s) => t[j].role # "assistant" \/ t[j].calls = <<>>
  PROVE  AllComplete(t, r, Len(t))
<1>1. Len(s) \in Nat /\ Len(t) \in Nat
  OBVIOUS
<1> SUFFICES ASSUME NEW i \in 1..Len(t), t[i].role = "assistant", t[i].run = r
             PROVE  Complete(t, i, Len(t))
  BY DEF AllComplete
<1>2. CASE i <= Len(s)
  <2>1. i \in 1..Len(s) /\ Len(s) \in i..Len(s) /\ Len(t) \in Len(s)..Len(t)
    BY <1>1, <1>2
  <2>2. Complete(s, i, Len(s))
    BY <2>1 DEF AllComplete
  <2> QED
    BY <2>1, <2>2, CompleteGrows
<1>3. CASE i > Len(s)
  <2>1. t[i].calls = <<>>
    BY <1>3
  <2>2. Len(<<>>) = 0
    OBVIOUS
  <2> QED
    BY <2>1, <2>2 DEF Complete
<1> QED
  BY <1>1, <1>2, <1>3

LEMMA PairsGrows ==
  ASSUME NEW s \in Seq(Message), NEW t \in Seq(Message), Len(s) <= Len(t),
         \A i \in 1..Len(s) : t[i] = s[i], Pairs(s),
         \A j \in 1..Len(t) : j > Len(s) =>
            \/ t[j].role # "assistant"
            \/ t[j].stop \in FailedStops
            \/ j = Len(s) + 1 /\ AllComplete(s, t[j].run, Len(s))
  PROVE  Pairs(t)
<1>1. Len(s) \in Nat /\ Len(t) \in Nat
  OBVIOUS
<1> SUFFICES ASSUME NEW i \in 1..Len(t), NEW j \in 1..Len(t), i < j,
                    t[i].role = "assistant", t[j].role = "assistant",
                    t[i].run = t[j].run, t[j].stop \notin FailedStops
             PROVE  Complete(t, i, j)
  BY DEF Pairs
<1>2. CASE j <= Len(s)
  <2>1. /\ i \in 1..Len(s) /\ j \in 1..Len(s) /\ t[i] = s[i] /\ t[j] = s[j]
        /\ j \in i..Len(s) /\ j \in j..Len(t)
    BY <1>1, <1>2
  <2>2. Complete(s, i, j)
    BY <2>1 DEF Pairs
  <2> QED
    BY <2>1, <2>2, CompleteGrows
<1>3. CASE j > Len(s)
  <2>1. j = Len(s) + 1 /\ AllComplete(s, t[j].run, Len(s))
    BY <1>3
  <2>2. /\ i \in 1..Len(s) /\ t[i] = s[i]
        /\ Len(s) \in i..Len(s) /\ j \in Len(s)..Len(t)
    BY <1>1, <2>1
  <2>3. Complete(s, i, Len(s))
    BY <2>1, <2>2 DEF AllComplete
  <2> QED
    BY <2>2, <2>3, CompleteGrows
<1> QED
  BY <1>1, <1>2, <1>3

-----------------------------------------------------------------------------
\* The transcript grows by messages of the user, an answer, or a result.
Talks ==
  \E u \in Seq(Message) :
    /\ transcript' = transcript \o u
    /\ \A i \in 1..Len(u) : u[i].role \in UserRoles \cup {"continuation"}
Answers ==
  \E m \in Message :
    /\ transcript' = Append(transcript, m)
    /\ m.role = "assistant" /\ m.run = run
    /\ m.stop \in FailedStops \/ pc = "streaming"
AddsResult ==
  /\ pc \in InBatch
  /\ at \in 1..Count
  /\ transcript = context \o Results(at - 1)
  /\ transcript' = Append(transcript, Result(calls[at]))

LEMMA TranscriptGrows ==
  ASSUME IInv, PairInv, [Next]_vars
  PROVE  \/ transcript' = transcript /\ run' >= run
         \/ run' = run /\ (Talks \/ Answers \/ AddsResult)
<1> USE DEF vars, agentvars, loopvars, toolvars, boundvars
<1> USE DEF InBatch, Preparing
<1>i. LoopTypeOK /\ BatchOK /\ CopiesOK /\ UsersOK
  BY DEF IInv, PairInv
<1>t. /\ run \in Nat /\ answers \in Nat /\ mode \in {"parallel", "sequential"}
      /\ Count \in Nat /\ at \in Nat /\ transcript \in Seq(Message)
      /\ pendingMessages \in Seq(Message) /\ calls \in Seq(Call)
  BY <1>i DEF LoopTypeOK, Count
<1>a. run' = run \/ run' = run + 1 => run' >= run
  BY <1>t
<1>m. /\ Continuation \in Message
      /\ \A stop \in Stops, cs \in Seq(Call) : Answer(stop, cs) \in Message
  BY <1>t, MessageTypes
<1>1. CASE PromptCall \/ ContinueSteering \/ ContinueFollowUp \/ ContinueTranscript
  <2>1. transcript' = transcript /\ run' = run + 1
    BY <1>1 DEF PromptCall, ContinueSteering, ContinueFollowUp, ContinueTranscript, StartRun
  <2> QED
    BY <1>a, <2>1
<1>2. CASE \/ SteerCall \/ FollowUpCall \/ Abort \/ InitialPoll \/ StartTool \/ Prepare
           \/ NextCall \/ BatchEnd \/ TurnEnd \/ Poll \/ FollowUpPoll \/ AgentEnd \/ FinishRun
           \/ Request \/ StraySettle \/ UNCHANGED vars
  <2>1. transcript' = transcript /\ run' = run
    BY <1>2 DEF SteerCall, FollowUpCall, Abort, InitialPoll, StartTool, Prepare, NextCall, BatchEnd,
                TurnEnd, Poll, FollowUpPoll, AgentEnd, FinishRun, Request, StraySettle, StraySettles
  <2> QED
    BY <1>a, <2>1
<1>3. CASE EmitPrompts \/ Turn
  <2>1. transcript' = transcript \o pendingMessages /\ run' = run
    BY <1>3 DEF EmitPrompts, Turn
  <2> QED
    BY <1>i, <1>t, <2>1 DEF Talks, UsersOK, OfUser
<1>4. CASE ContinueAnswer
  <2>1. transcript' = Append(transcript, Continuation) /\ run' = run
    BY <1>4 DEF ContinueAnswer
  <2>2. transcript' = transcript \o <<Continuation>>
    BY <1>m, <1>t, <2>1, AppendIsConcat
  <2>3. Continuation.role = "continuation"
    BY DEF Continuation, Msg
  <2>4. <<Continuation>> \in Seq(Message) /\ Len(<<Continuation>>) = 1
        /\ <<Continuation>>[1] = Continuation
    BY <1>m
  <2>5. \A i \in 1..Len(<<Continuation>>) :
          <<Continuation>>[i].role \in UserRoles \cup {"continuation"}
    BY <2>3, <2>4
  <2> QED
    BY <2>1, <2>2, <2>4, <2>5 DEF Talks
<1>5. CASE Fail
  <2>1. PICK k \in IF pc \in {"prompts", "turn"} THEN 0..Len(pendingMessages) ELSE {0} :
          transcript' = transcript \o SubSeq(pendingMessages, 1, k)
    BY <1>5 DEF Fail
  <2> DEFINE u == SubSeq(pendingMessages, 1, k)
  <2>2. k \in 0..Len(pendingMessages)
    BY <1>t, <2>1
  <2>3. u \in Seq(Message) /\ \A i \in 1..Len(u) : u[i].role \in UserRoles
    BY <1>i, <1>t, <2>2 DEF UsersOK, OfUser
  <2>4. run' = run
    BY <1>5 DEF Fail
  <2> QED
    BY <2>1, <2>3, <2>4 DEF Talks
<1>6. ASSUME NEW n \in {0, MaxCalls}, AnswerFails(n)
      PROVE  run' = run /\ Answers
  <2>1. NewCalls(n) \in Seq(Call) /\ <<>> \in Seq(Call)
    BY <1>t, BoundsAssumption, CallsDiffer
  <2>2. \E stop \in FailedStops, cs \in Seq(Call) : Answered(Answer(stop, cs))
    BY <1>6, <2>1 DEF AnswerFails, FailedStops
  <2>3. PICK stop \in FailedStops, cs \in Seq(Call) : Answered(Answer(stop, cs))
    BY <2>2
  <2>4. stop \in Stops
    BY DEF FailedStops, Stops
  <2>5. Answer(stop, cs) \in Message
    BY <1>m, <2>4
  <2>6. /\ Answer(stop, cs).role = "assistant" /\ Answer(stop, cs).run = run
        /\ Answer(stop, cs).stop \in FailedStops
    BY DEF Answer
  <2> QED
    BY <2>3, <2>5, <2>6 DEF Answered, Answers
<1>7. ASSUME NEW stop \in {"stop", "toolUse", "length"}, NEW n \in 0..MaxCalls, AnswerArrives(stop, n)
      PROVE  run' = run /\ Answers
  <2>1. NewCalls(n) \in Seq(Call) /\ stop \in Stops
    BY <1>t, BoundsAssumption, CallsDiffer DEF Stops
  <2>2. Answer(stop, NewCalls(n)) \in Message
    BY <1>m, <2>1
  <2>3. Answer(stop, NewCalls(n)).role = "assistant" /\ Answer(stop, NewCalls(n)).run = run
    BY DEF Answer
  <2>4. pc = "streaming" /\ Answered(Answer(stop, NewCalls(n)))
    BY <1>7 DEF AnswerArrives
  <2> QED
    BY <2>2, <2>3, <2>4 DEF Answered, Answers
<1>8. CASE HandleFailure
  <2> DEFINE message == [Answer("error", <<>>) EXCEPT
                           !.stop = IF aborted THEN "aborted" ELSE "error", !.id = <<0, run>>]
  <2>1. run' = run
    BY <1>8 DEF HandleFailure
  <2>2. CASE transcript' = transcript
    BY <1>a, <2>1, <2>2
  <2>3. CASE transcript' = Append(transcript, message)
    <3>1. "error" \in Stops /\ <<>> \in Seq(Call)
      BY DEF Stops
    <3>2. Answer("error", <<>>) \in Message
      BY <1>m, <3>1
    <3>3. <<0, run>> \in Nat \X Nat /\ "aborted" \in Stops
      BY <1>t DEF Stops
    <3>4. message \in Message
      BY <3>1, <3>2, <3>3 DEF Message
    <3>5. message.role = "assistant" /\ message.run = run /\ message.stop \in FailedStops
      BY DEF Answer, FailedStops
    <3> HIDE DEF message
    <3> QED
      BY <2>1, <2>3, <3>4, <3>5 DEF Answers
  <2> QED
    BY <1>8, <2>2, <2>3 DEF HandleFailure
<1>9. CASE FailTruncated
  <2>1. pc \in InBatch /\ at \in 1..Count /\ Emitted = at - 1 /\ run' = run
    BY <1>9, <1>i DEF FailTruncated, BatchOK, Emitted
  <2> QED
    BY <1>9, <1>i, <2>1 DEF FailTruncated, CopiesOK, AddsResult
<1>10. CASE PrepareImmediate
  <2>1. pc = "prepare" /\ at \in 1..Count /\ run' = run
    BY <1>10, <1>i DEF PrepareImmediate, BatchOK, OneByOne
  <2>2. CASE mode = "sequential"
    <3>1. Emitted = at - 1
      BY <2>1, <2>2 DEF Emitted
    <3> QED
      BY <1>10, <1>i, <2>1, <2>2, <3>1 DEF PrepareImmediate, EndCall, CopiesOK, AddsResult
  <2>3. CASE mode = "parallel"
    <3>1. transcript' = transcript
      BY <1>10, <2>3 DEF PrepareImmediate, EndCall
    <3> QED
      BY <1>a, <2>1, <3>1
  <2> QED
    BY <1>t, <2>2, <2>3
<1>11. ASSUME NEW i \in 1..MaxCalls, Settle(i)
       PROVE  (transcript' = transcript \/ AddsResult) /\ run' = run
  <2>1. /\ pc = "settling" /\ status[i] = "executing" /\ i \in 1..Count /\ run' = run
        /\ Emitted = at - 1
    BY <1>11 DEF Settle, Executing, Emitted
  <2>2. CASE mode = "sequential"
    <3>1. i = at /\ at \in 1..Count
      BY <1>i, <1>t, <2>1, <2>2 DEF BatchOK, OneByOne, Passed
    <3> QED
      BY <1>11, <1>i, <2>1, <2>2, <3>1 DEF Settle, EndCall, CopiesOK, AddsResult
  <2>3. CASE mode = "parallel"
    BY <1>11, <2>1, <2>3 DEF Settle, EndCall
  <2> QED
    BY <1>t, <2>2, <2>3
<1>12. CASE EmitResult
  <2>1. pc = "settling" /\ mode = "parallel" /\ run' = run /\ Emitted = at - 1
    BY <1>12 DEF EmitResult, Emitted
  <2>2. CASE at \in Ended
    <3>1. at \in 1..Count
      BY <2>2 DEF Ended
    <3> QED
      BY <1>12, <1>i, <2>1, <2>2, <3>1 DEF EmitResult, CopiesOK, AddsResult
  <2>3. CASE at \notin Ended
    <3>1. transcript' = transcript
      BY <1>12, <2>3 DEF EmitResult
    <3> QED
      BY <1>a, <2>1, <3>1
  <2> QED
    BY <2>2, <2>3
<1> QED
  BY <1>a, <1>1, <1>2, <1>3, <1>4, <1>5, <1>6, <1>7, <1>8, <1>9, <1>10, <1>11, <1>12
  DEF Next, UserStep, ModelStep, LoopStep, ToolSettles

\* Whatever is added, results follow their calls and calls have their results.
LEMMA PairingKept ==
  ASSUME IInv, PairInv, [Next]_vars
  PROVE  Follows(transcript)' /\ Pairs(transcript)' /\ RunsOK'
<1> DEFINE s == transcript
           t == transcript'
<1>i. LoopTypeOK /\ RunsOK /\ CompleteOK /\ BatchAnswer /\ Follows(s) /\ Pairs(s)
  BY DEF IInv, PairInv
<1>t. /\ s \in Seq(Message) /\ t \in Seq(Message) /\ context \in Seq(Message)
      /\ run \in Nat /\ run' \in Nat /\ Count \in Nat /\ calls \in Seq(Call)
  BY <1>i, TypeKept DEF LoopTypeOK, Count
<1>g. \/ t = s /\ run' >= run
      \/ run' = run /\ (Talks \/ Answers \/ AddsResult)
  BY TranscriptGrows
<1>r. ASSUME run' >= run, Len(s) <= Len(t), \A i \in 1..Len(s) : t[i] = s[i],
             \A j \in 1..Len(t) : j > Len(s) => t[j].role # "assistant" \/ t[j].run = run
      PROVE  RunsOK'
  <2> SUFFICES ASSUME NEW i \in 1..Len(t), t[i].role = "assistant"
               PROVE  t[i].run <= run'
    BY DEF RunsOK
  <2>1. CASE i <= Len(s)
    <3>1. i \in 1..Len(s) /\ t[i] = s[i]
      BY <1>r, <1>t, <2>1
    <3>2. s[i].run <= run /\ s[i] \in Message
      BY <1>i, <1>t, <3>1 DEF RunsOK
    <3>3. s[i].run \in Nat
      BY <3>2 DEF Message
    <3> QED
      BY <1>r, <1>t, <3>1, <3>2, <3>3
  <2>2. CASE i > Len(s)
    BY <1>r, <1>t, <2>2
  <2> QED
    BY <1>t, <2>1, <2>2
<1>1. CASE t = s /\ run' >= run
  <2>1. RunsOK'
    BY <1>1, <1>r, <1>t
  <2> QED
    BY <1>1, <1>i, <2>1
<1>2. CASE run' = run /\ Talks
  <2>1. PICK u \in Seq(Message) :
          /\ t = s \o u
          /\ \A i \in 1..Len(u) : u[i].role \in UserRoles \cup {"continuation"}
    BY <1>2 DEF Talks
  <2>2. /\ Len(t) = Len(s) + Len(u) /\ Len(s) <= Len(t)
        /\ \A i \in 1..Len(s) : t[i] = s[i]
        /\ \A j \in 1..Len(t) : j > Len(s) => j - Len(s) \in 1..Len(u) /\ t[j] = u[j - Len(s)]
    BY <1>t, <2>1
  <2>3. \A j \in 1..Len(t) : j > Len(s) => t[j].role # "toolResult" /\ t[j].role # "assistant"
    BY <2>1, <2>2 DEF UserRoles
  <2>4. Follows(t)
    BY <1>i, <1>t, <2>2, <2>3, FollowsGrows
  <2>5. Pairs(t)
    BY <1>i, <1>t, <2>2, <2>3, PairsGrows
  <2>6. RunsOK'
    BY <1>2, <1>r, <1>t, <2>2, <2>3
  <2> QED
    BY <2>4, <2>5, <2>6
<1>3. CASE run' = run /\ Answers
  <2>1. PICK m \in Message :
          /\ t = Append(s, m)
          /\ m.role = "assistant" /\ m.run = run
          /\ m.stop \in FailedStops \/ pc = "streaming"
    BY <1>3 DEF Answers
  <2>2. /\ Len(t) = Len(s) + 1 /\ Len(s) <= Len(t)
        /\ \A i \in 1..Len(s) : t[i] = s[i]
        /\ \A j \in 1..Len(t) : j > Len(s) => j = Len(s) + 1 /\ t[j] = m
    BY <1>t, <2>1
  <2>3. Follows(t)
    BY <1>i, <1>t, <2>1, <2>2, FollowsGrows
  <2>4. m.stop \in FailedStops \/ AllComplete(s, m.run, Len(s))
    BY <1>i, <2>1 DEF CompleteOK
  <2>5. Pairs(t)
    BY <1>i, <1>t, <2>2, <2>4, PairsGrows
  <2>6. RunsOK'
    BY <1>3, <1>r, <1>t, <2>1, <2>2
  <2> QED
    BY <2>3, <2>5, <2>6
<1>4. CASE run' = run /\ AddsResult
  <2> DEFINE a == Len(context)
             e == Result(calls[at])
  <2>1. /\ at \in 1..Count /\ pc \in InBatch
        /\ s = context \o Results(at - 1) /\ t = Append(s, e)
    BY <1>4 DEF AddsResult
  <2>2. at - 1 \in 0..Count /\ a \in Nat /\ at \in Nat
    BY <1>t, <2>1
  <2>4. /\ Len(s) = a + (at - 1)
        /\ \A i \in 1..a : s[i] = context[i]
        /\ \A i \in 1..(at - 1) : s[a + i] = Result(calls[i])
    BY <1>i, <2>1, <2>2, EmittedResults
  <2>5. e.role = "toolResult" /\ e.id = calls[at]
    BY DEF Result, Msg
  <2>6. /\ Len(t) = Len(s) + 1 /\ Len(s) <= Len(t)
        /\ \A i \in 1..Len(s) : t[i] = s[i]
        /\ t[Len(t)] = e
    BY <1>t, <2>1
  <2>7. \A j \in 1..Len(t) : j > Len(s) => t[j].role # "assistant"
    BY <1>t, <2>5, <2>6
  <2>8. Pairs(t)
    BY <1>i, <1>t, <2>6, <2>7, PairsGrows
  <2>9. RunsOK'
    BY <1>4, <1>r, <1>t, <2>6, <2>7
  <2>10. Follows(t)
    <3> SUFFICES ASSUME NEW j \in 1..Len(t), t[j].role = "toolResult"
                 PROVE  \E i \in 1..(j - 1) :
                          /\ \A k \in (i + 1)..j : t[k].role = "toolResult"
                          /\ t[i].role = "assistant"
                          /\ j - i <= Len(t[i].calls)
                          /\ t[j].id = t[i].calls[j - i]
      BY DEF Follows
    <3>1. CASE j <= Len(s)
      <4>1. j \in 1..Len(s) /\ t[j] = s[j] /\ Len(s) \in Nat
        BY <1>t, <2>6, <3>1
      <4>2. PICK i \in 1..(j - 1) :
              /\ \A k \in (i + 1)..j : s[k].role = "toolResult"
              /\ s[i].role = "assistant"
              /\ j - i <= Len(s[i].calls)
              /\ s[j].id = s[i].calls[j - i]
        BY <1>i, <4>1 DEF Follows
      <4>3. t[i] = s[i] /\ \A k \in (i + 1)..j : t[k] = s[k]
        BY <2>6, <4>1
      <4> QED
        BY <4>1, <4>2, <4>3
    <3>2. CASE j = Len(t)
      <4>1. a # 0 /\ a \in 1..Len(s) /\ j = a + at /\ t[j] = e
        BY <1>i, <1>t, <2>1, <2>2, <2>4, <2>6, <3>2 DEF BatchAnswer
      <4>2. t[a] = context[a] /\ t[a].role = "assistant" /\ t[a].calls = calls
        BY <1>i, <2>1, <2>4, <2>6, <4>1 DEF BatchAnswer
      <4>3. \A k \in (a + 1)..j : t[k].role = "toolResult"
        <5> SUFFICES ASSUME NEW k \in (a + 1)..j, k # j
                     PROVE  t[k].role = "toolResult"
          BY <2>5, <4>1
        <5>1. k \in 1..Len(s) /\ k - a \in 1..(at - 1) /\ a + (k - a) = k
          BY <2>2, <2>4, <4>1
        <5>2. t[k] = Result(calls[k - a])
          BY <2>4, <2>6, <5>1
        <5> QED
          BY <5>2 DEF Result, Msg
      <4>4. j - a = at /\ at <= Len(calls) /\ a \in 1..(j - 1)
        BY <2>1, <2>2, <4>1 DEF Count
      <4> QED
        BY <2>5, <4>1, <4>2, <4>3, <4>4
    <3> QED
      BY <1>t, <2>6, <3>1, <3>2
  <2> QED
    BY <2>8, <2>9, <2>10
<1> QED
  BY <1>g, <1>1, <1>2, <1>3, <1>4

-----------------------------------------------------------------------------
\* What is drained, and what is left, was queued.
LEMMA DrainOfUser ==
  ASSUME NEW queue \in Seq(Message), OfUser(queue), NEW taken \in Drains(queue)
  PROVE  OfUser(taken) /\ OfUser(Undrained(queue, taken))
<1>1. Len(queue) \in Nat /\ (queue # <<>> => Len(queue) >= 1)
  BY EmptySeq
<1>2. taken \in Seq(Message) /\ Len(taken) \in Nat
  BY DrainTypes
<1>3. ASSUME NEW m \in Nat, NEW n \in Nat, m >= 1, n <= Len(queue)
      PROVE  OfUser(SubSeq(queue, m, n))
  <2> DEFINE part == SubSeq(queue, m, n)
  <2>1. \A i \in m..n : queue[i] \in Message
    BY <1>1, <1>3
  <2>2. /\ Len(part) = IF m <= n THEN n - m + 1 ELSE 0
        /\ \A i \in 1..(n - m + 1) : part[i] = queue[m + i - 1]
    BY <2>1, SubSeqProperties
  <2> HIDE DEF part
  <2>3. \A i \in 1..Len(part) : part[i] = queue[m + i - 1] /\ m + i - 1 \in 1..Len(queue)
    BY <1>1, <1>3, <2>2
  <2>4. OfUser(part)
    BY <2>3 DEF OfUser
  <2> QED
    BY <2>4 DEF part
<1>4. OfUser(queue) /\ OfUser(SubSeq(queue, 1, IF queue = <<>> THEN 0 ELSE 1))
  BY <1>1, <1>3
<1>5. OfUser(taken)
  BY <1>4 DEF Drains
<1>6. OfUser(SubSeq(queue, Len(taken) + 1, Len(queue)))
  BY <1>1, <1>2, <1>3
<1> QED
  BY <1>5, <1>6 DEF Undrained

\* Only the user's messages are queued.
LEMMA UsersKept ==
  ASSUME IInv, PairInv, [Next]_vars
  PROVE  UsersOK'
<1> USE DEF vars, agentvars, loopvars, toolvars, boundvars
<1>i. UsersOK /\ LoopTypeOK
  BY DEF IInv, PairInv
<1>t. /\ steeringQueue \in Seq(Message) /\ followUpQueue \in Seq(Message)
      /\ pendingMessages \in Seq(Message) /\ queued \in Nat
  BY <1>i DEF LoopTypeOK
<1>o. OfUser(<<>>) /\ \A r : OfUser(<<Prompt(r)>>)
  BY DEF OfUser, UserRoles, Prompt
<1>u. ASSUME UNCHANGED <<steeringQueue, followUpQueue>>,
             pendingMessages' = pendingMessages \/ OfUser(pendingMessages')
      PROVE  UsersOK'
  BY <1>i, <1>u DEF UsersOK
<1>a. ASSUME NEW queue \in Seq(Message), OfUser(queue), NEW m \in Message, m.role \in UserRoles
      PROVE  OfUser(Append(queue, m))
  BY <1>a DEF OfUser
<1>1. CASE SteerCall
  <2>1. Steer(queued + 1) \in Message /\ Steer(queued + 1).role \in UserRoles
    BY <1>i, <1>t, MessageTypes DEF Steer, UserRoles, LoopTypeOK
  <2>2. OfUser(steeringQueue')
    BY <1>1, <1>a, <1>i, <1>t, <2>1 DEF SteerCall, UsersOK
  <2> QED
    BY <1>1, <1>i, <2>2 DEF SteerCall, UsersOK
<1>2. CASE FollowUpCall
  <2>1. FollowUp(queued + 1) \in Message /\ FollowUp(queued + 1).role \in UserRoles
    BY <1>i, <1>t, MessageTypes DEF FollowUp, UserRoles, LoopTypeOK
  <2>2. OfUser(followUpQueue')
    BY <1>2, <1>a, <1>i, <1>t, <2>1 DEF FollowUpCall, UsersOK
  <2> QED
    BY <1>2, <1>i, <2>2 DEF FollowUpCall, UsersOK
<1>3. CASE PromptCall
  BY <1>3, <1>o, <1>u DEF PromptCall, StartRun
<1>4. CASE ContinueTranscript
  BY <1>4, <1>o, <1>u DEF ContinueTranscript, StartRun
<1>5. CASE ContinueSteering
  <2>1. PICK taken \in Drains(steeringQueue) :
          StartRun(taken, TRUE) /\ steeringQueue' = Undrained(steeringQueue, taken)
    BY <1>5 DEF ContinueSteering
  <2>2. OfUser(taken) /\ OfUser(Undrained(steeringQueue, taken))
    BY <1>i, <1>t, DrainOfUser DEF UsersOK
  <2> QED
    BY <1>5, <1>i, <2>1, <2>2 DEF ContinueSteering, StartRun, UsersOK
<1>6. CASE ContinueFollowUp
  <2>1. PICK taken \in Drains(followUpQueue) :
          StartRun(taken, FALSE) /\ followUpQueue' = Undrained(followUpQueue, taken)
    BY <1>6 DEF ContinueFollowUp
  <2>2. OfUser(taken) /\ OfUser(Undrained(followUpQueue, taken))
    BY <1>i, <1>t, DrainOfUser DEF UsersOK
  <2> QED
    BY <1>6, <1>i, <2>1, <2>2 DEF ContinueFollowUp, StartRun, UsersOK
<1>7. CASE InitialPoll
  <2>1. PICK taken \in IF skipPoll THEN {<<>>} ELSE Drains(steeringQueue) :
          pendingMessages' = taken /\ steeringQueue' = Undrained(steeringQueue, taken)
    BY <1>7 DEF InitialPoll
  <2>2. OfUser(taken) /\ OfUser(Undrained(steeringQueue, taken))
    <3>1. CASE skipPoll
      <4>1. Undrained(steeringQueue, <<>>) = steeringQueue
        BY <1>t, SubSeqFull DEF Undrained
      <4> QED
        BY <1>i, <1>o, <2>1, <3>1, <4>1 DEF UsersOK
    <3>2. CASE ~skipPoll
      BY <1>i, <1>t, <2>1, <3>2, DrainOfUser DEF UsersOK
    <3> QED
      BY <3>1, <3>2
  <2> QED
    BY <1>7, <1>i, <2>1, <2>2 DEF InitialPoll, UsersOK
<1>8. CASE Poll
  <2>1. PICK taken \in Drains(steeringQueue) :
          pendingMessages' = taken /\ steeringQueue' = Undrained(steeringQueue, taken)
    BY <1>8 DEF Poll
  <2>2. OfUser(taken) /\ OfUser(Undrained(steeringQueue, taken))
    BY <1>i, <1>t, DrainOfUser DEF UsersOK
  <2> QED
    BY <1>8, <1>i, <2>1, <2>2 DEF Poll, UsersOK
<1>9. CASE FollowUpPoll
  <2>1. PICK taken \in Drains(followUpQueue) :
          pendingMessages' = taken /\ followUpQueue' = Undrained(followUpQueue, taken)
    BY <1>9 DEF FollowUpPoll
  <2>2. OfUser(taken) /\ OfUser(Undrained(followUpQueue, taken))
    BY <1>i, <1>t, DrainOfUser DEF UsersOK
  <2> QED
    BY <1>9, <1>i, <2>1, <2>2 DEF FollowUpPoll, UsersOK
<1>10. CASE EmitPrompts \/ Turn \/ Fail
  <2>1. UNCHANGED <<steeringQueue, followUpQueue>> /\ pendingMessages' = <<>>
    BY <1>10 DEF EmitPrompts, Turn, Fail
  <2> QED
    BY <1>o, <1>u, <2>1
<1>11. ASSUME ModelStep
       PROVE  UsersOK'
  BY <1>11, <1>u DEF ModelStep, Request, AnswerFails, AnswerArrives, Answered
<1>12. ASSUME \/ Abort \/ FailTruncated \/ StartTool \/ PrepareImmediate \/ Prepare \/ NextCall
              \/ EmitResult \/ BatchEnd \/ ContinueAnswer \/ TurnEnd \/ AgentEnd \/ FinishRun
              \/ HandleFailure \/ ToolSettles \/ StraySettle \/ UNCHANGED vars
       PROVE  UsersOK'
  <2>1. UNCHANGED <<steeringQueue, followUpQueue, pendingMessages>>
    BY <1>12 DEF Abort, FailTruncated, StartTool, PrepareImmediate, Prepare, NextCall, EmitResult,
                 BatchEnd, ContinueAnswer, TurnEnd, AgentEnd, FinishRun, LeaveLoop, HandleFailure,
                 ToolSettles, Settle, StraySettle, StraySettles
  <2> QED
    BY <1>u, <2>1
<1> QED
  BY <1>1, <1>2, <1>3, <1>4, <1>5, <1>6, <1>7, <1>8, <1>9, <1>10, <1>11, <1>12
  DEF Next, UserStep, LoopStep

\* An aborted run stays aborted; what is left of a batch has not started.
LEMMA StartedKept ==
  ASSUME IInv, PairInv, [Next]_vars
  PROVE  StartedOK'
<1> USE DEF vars, agentvars, loopvars, toolvars, boundvars
<1> USE DEF StartedOK
<1>i. LoopTypeOK /\ BatchOK /\ StartedOK
  BY DEF IInv, PairInv
<1>t. /\ Count \in Nat /\ at \in Nat /\ status \in [1..Count -> Statuses]
      /\ mode \in {"parallel", "sequential"}
  BY <1>i DEF LoopTypeOK, Count
<1>u. ASSUME UNCHANGED <<calls, status, mode, pc>>, aborted => aborted'
      PROVE  StartedOK'
  BY <1>i, <1>u DEF Count
<1>1. CASE NextCall
  <2>1. /\ at \in 1..Count
        /\ \A i \in 1..Count : i < at => Passed(i)
        /\ Passed(at) /\ Count' = Count /\ aborted' = aborted /\ mode' = mode
    BY <1>1, <1>i DEF NextCall, BatchOK, OneByOne, Preparing, Count
  <2>2. CASE at = Count
    <3>1. \A i \in 1..Count : Passed(i)
      BY <1>t, <2>1, <2>2
    <3>2. \A i \in 1..Count' : status'[i] # "todo"
      BY <1>1, <2>1, <2>2, <3>1 DEF NextCall, Passed
    <3> QED
      BY <3>2
  <2>3. CASE at # Count
    BY <1>1, <2>1, <2>3 DEF NextCall
  <2> QED
    BY <2>2, <2>3
<1>2. CASE FailTruncated
  <2>1. CASE at = Count
    BY <1>2, <1>i, <1>t, <2>1 DEF FailTruncated, BatchOK, Count
  <2>2. CASE at # Count
    BY <1>2, <2>2 DEF FailTruncated
  <2> QED
    BY <2>1, <2>2
<1>3. ASSUME NEW i \in 1..MaxCalls, Settle(i)
      PROVE  StartedOK'
  <2>1. CASE mode = "sequential"
    BY <1>3, <2>1 DEF Settle
  <2>2. CASE mode = "parallel"
    BY <1>3, <1>i, <1>t, <2>2 DEF Settle, EndCall, Count
  <2> QED
    BY <1>t, <2>1, <2>2
<1>4. CASE EmitResult
  BY <1>4, <1>i DEF EmitResult, Count
<1>5. CASE Prepare
  <2>1. mode' = mode
    BY <1>5 DEF Prepare
  <2>2. CASE mode = "sequential"
    BY <1>5, <2>1, <2>2 DEF Prepare
  <2>3. CASE mode = "parallel"
    BY <1>5, <2>1, <2>3 DEF Prepare
  <2> QED
    BY <1>t, <2>2, <2>3
<1>6. ASSUME NEW stop, NEW n, AnswerArrives(stop, n)
      PROVE  StartedOK'
  BY <1>6 DEF AnswerArrives
<1>7. ASSUME NEW n, AnswerFails(n)
      PROVE  StartedOK'
  BY <1>7 DEF AnswerFails
<1>8. CASE \/ PromptCall \/ ContinueSteering \/ ContinueFollowUp \/ ContinueTranscript \/ Request
           \/ EmitPrompts \/ InitialPoll \/ Turn \/ StartTool \/ PrepareImmediate
           \/ BatchEnd \/ ContinueAnswer \/ TurnEnd \/ Poll \/ FollowUpPoll
           \/ AgentEnd \/ FinishRun \/ HandleFailure \/ Fail
  <2>1. pc' \notin {"batchEnd", "settling"}
    BY <1>8 DEF PromptCall, ContinueSteering, ContinueFollowUp, ContinueTranscript, StartRun, Request,
                EmitPrompts, InitialPoll, Turn, StartTool, PrepareImmediate, BatchEnd,
                ContinueAnswer, TurnEnd, Poll, FollowUpPoll, AgentEnd, FinishRun,
                HandleFailure, Fail
  <2> QED
    BY <2>1
<1>9. CASE SteerCall \/ FollowUpCall \/ Abort \/ StraySettle \/ UNCHANGED vars
  BY <1>9, <1>u DEF SteerCall, FollowUpCall, Abort, StraySettle, StraySettles
<1> QED
  BY <1>1, <1>2, <1>3, <1>4, <1>5, <1>6, <1>7, <1>8, <1>9
  DEF Next, UserStep, ModelStep, LoopStep, ToolSettles

-----------------------------------------------------------------------------
\* While it is not aborted, a run asks for an answer only when every call of
\* its earlier answers has its result.
LEMMA CompleteKept ==
  ASSUME IInv, PairInv, [Next]_vars
  PROVE  CompleteOK'
<1> USE DEF vars, agentvars, loopvars, toolvars, boundvars
<1> DEFINE s == transcript
           t == transcript'
           whole == AllComplete(s, run, Len(s))
           whole2 == AllComplete(t, run', Len(t))
<1>i. LoopTypeOK /\ BatchOK /\ CopiesOK /\ RunsOK /\ CompleteOK /\ BatchAnswer /\ StartedOK
  BY DEF IInv, PairInv
<1>t. /\ s \in Seq(Message) /\ t \in Seq(Message) /\ run \in Nat /\ Count \in Nat
      /\ context \in Seq(Message) /\ calls \in Seq(Call)
  BY <1>i, TypeKept DEF LoopTypeOK, Count
\* It is enough that everything is complete.
<1>w. ASSUME aborted' \/ whole2, pc' # "streaming" \/ whole2
      PROVE  CompleteOK'
  BY <1>w DEF CompleteOK
<1>g. ASSUME run' = run, Talks, whole
      PROVE  whole2
  <2>1. PICK u \in Seq(Message) :
          /\ t = s \o u
          /\ \A i \in 1..Len(u) : u[i].role \in UserRoles \cup {"continuation"}
    BY <1>g DEF Talks
  <2>2. /\ Len(t) = Len(s) + Len(u) /\ Len(s) <= Len(t)
        /\ \A i \in 1..Len(s) : t[i] = s[i]
        /\ \A j \in 1..Len(t) : j > Len(s) => j - Len(s) \in 1..Len(u) /\ t[j] = u[j - Len(s)]
    BY <1>t, <2>1
  <2>3. \A j \in 1..Len(t) : j > Len(s) => t[j].role # "assistant"
    BY <2>1, <2>2 DEF UserRoles
  <2> QED
    BY <1>g, <1>t, <2>2, <2>3, AllCompleteGrows
<1>1. CASE PromptCall \/ ContinueSteering \/ ContinueFollowUp \/ ContinueTranscript
  <2>1. pc' = "prompts" /\ t = s /\ run' = run + 1
    BY <1>1 DEF PromptCall, ContinueSteering, ContinueFollowUp, ContinueTranscript, StartRun
  <2>2. ASSUME NEW i \in 1..Len(t), t[i].role = "assistant"
        PROVE  t[i].run # run'
    <3>1. s[i].run <= run /\ s[i] \in Message
      BY <1>i, <1>t, <2>1, <2>2 DEF RunsOK
    <3>2. s[i].run \in Nat
      BY <3>1 DEF Message
    <3> QED
      BY <1>t, <2>1, <3>1, <3>2
  <2>3. whole2
    BY <2>2 DEF AllComplete
  <2> QED
    BY <1>w, <2>3
<1>2. CASE SteerCall \/ FollowUpCall \/ Abort \/ StraySettle \/ UNCHANGED vars
  <2>1. UNCHANGED <<transcript, run, pc>> /\ (aborted => aborted')
    BY <1>2 DEF SteerCall, FollowUpCall, Abort, StraySettle, StraySettles
  <2> QED
    BY <1>i, <2>1 DEF CompleteOK
<1>3. CASE EmitPrompts \/ Turn \/ ContinueAnswer
  <2>1. /\ pc \in {"prompts", "turn", "turnEnd"} /\ pc' \in {"initialPoll", "request", "turn"}
        /\ aborted' = aborted /\ run' = run
    BY <1>3 DEF EmitPrompts, Turn, ContinueAnswer
  <2>2. Talks \/ t = s
    <3>1. t # s => Talks \/ AddsResult \/ Answers
      BY TranscriptGrows
    <3>2. ~AddsResult
      BY <2>1 DEF AddsResult, InBatch
    <3>3. CASE EmitPrompts \/ Turn
      <4>1. t = s \o pendingMessages
        BY <3>3 DEF EmitPrompts, Turn
      <4> QED
        BY <4>1 DEF Talks, UsersOK, OfUser, IInv, PairInv, LoopTypeOK
    <3>4. CASE ContinueAnswer
      <4>1. t = Append(s, Continuation)
        BY <3>4 DEF ContinueAnswer
      <4>2. Continuation \in Message /\ Continuation.role = "continuation"
        BY <1>i, MessageTypes DEF Continuation, Msg, LoopTypeOK
      <4>3. t = s \o <<Continuation>>
        BY <1>t, <4>1, <4>2, AppendIsConcat
      <4>4. /\ <<Continuation>> \in Seq(Message) /\ Len(<<Continuation>>) = 1
            /\ \A i \in 1..Len(<<Continuation>>) : <<Continuation>>[i] = Continuation
        BY <4>2
      <4> QED
        BY <4>2, <4>3, <4>4 DEF Talks
    <3> QED
      BY <1>3, <3>3, <3>4
  <2>3. aborted \/ whole
    BY <1>i, <2>1 DEF CompleteOK
  <2>4. aborted' \/ whole2
    BY <1>g, <2>1, <2>2, <2>3
  <2>5. pc' # "streaming"
    BY <2>1
  <2> QED
    BY <1>w, <2>4, <2>5
<1>4. CASE InitialPoll \/ TurnEnd \/ Poll \/ FollowUpPoll
  <2>1. /\ t = s /\ run' = run /\ aborted' = aborted /\ pc' # "streaming"
        /\ pc \in {"initialPoll", "turnEnd", "poll", "followUp"}
    BY <1>4 DEF InitialPoll, TurnEnd, Poll, FollowUpPoll
  <2> QED
    BY <1>i, <1>w, <2>1 DEF CompleteOK
<1>5. CASE Request
  <2>1. t = s /\ run' = run /\ pc = "request" /\ ~aborted
    BY <1>5 DEF Request
  <2> QED
    BY <1>i, <1>w, <2>1 DEF CompleteOK
<1>6. ASSUME NEW stop \in {"stop", "toolUse", "length"}, NEW n \in 0..MaxCalls, AnswerArrives(stop, n)
      PROVE  CompleteOK'
  <2>1. CASE n = 0
    <3> DEFINE m == Answer(stop, NewCalls(n))
    <3>1. t = Append(s, m) /\ run' = run /\ pc = "streaming" /\ pc' = "turnEnd"
      BY <1>6, <2>1 DEF AnswerArrives, Answered
    <3>2. m.calls = <<>>
      BY <2>1 DEF Answer, NewCalls
    <3>3. stop \in Stops /\ NewCalls(n) \in Seq(Call)
      BY <1>i, <2>1, CallsDiffer DEF Stops, LoopTypeOK
    <3>4. m \in Message
      BY <1>i, <3>3, MessageTypes DEF LoopTypeOK
    <3> HIDE DEF m
    <3>5. /\ Len(s) <= Len(t) /\ \A i \in 1..Len(s) : t[i] = s[i]
          /\ \A j \in 1..Len(t) : j > Len(s) => t[j] = m
      BY <1>t, <3>1, <3>4
    <3>6. whole
      BY <1>i, <3>1 DEF CompleteOK
    <3>7. whole2
      BY <1>t, <3>1, <3>2, <3>5, <3>6, AllCompleteGrows
    <3> QED
      BY <1>w, <3>7
  <2>2. CASE n # 0
    BY <1>6, <2>2 DEF AnswerArrives, CompleteOK
  <2> QED
    BY <2>1, <2>2
<1>7. CASE BatchEnd
  <2>1. pc = "batchEnd" /\ pc' = "turnEnd" /\ t = s /\ run' = run /\ aborted' = aborted
    BY <1>7 DEF BatchEnd
  <2>2. CASE aborted
    BY <1>w, <2>1, <2>2
  <2>3. CASE ~aborted
    <3> DEFINE a == Len(context)
    <3>1. PICK k \in 0..Count : Ended = 1..k /\ Cardinality(Ended) = k
      BY <1>i, <2>1, EndedCalls
    <3>2. \A i \in 1..Count : status[i] = "ended"
      <4>1. \A i \in 1..Count : status[i] # "todo"
        BY <1>i, <2>1, <2>3 DEF StartedOK
      <4>2. \E j \in 0..Count : \A i \in 1..Count : status[i] = IF i <= j THEN "ended" ELSE "todo"
        BY <1>i, <2>1 DEF BatchOK
      <4> QED
        BY <4>1, <4>2
    <3>3. k = Count
      <4>1. Ended = 1..Count
        BY <3>2 DEF Ended
      <4>2. Cardinality(Ended) = Count
        BY <1>t, <4>1, FS_Interval
      <4> QED
        BY <3>1, <4>2
    <3>4. s = context \o Results(Count)
      BY <1>i, <2>1, <3>1, <3>3 DEF CopiesOK, Emitted, InBatch
    <3>6. /\ a \in Nat /\ Len(s) = a + Count
          /\ \A i \in 1..a : s[i] = context[i]
          /\ \A i \in 1..Count : s[a + i] = Result(calls[i])
      <4>1. Count \in 0..Count /\ a \in Nat
        BY <1>t
      <4> QED
        BY <1>i, <3>4, <4>1, EmittedResults
    <3>7. /\ a # 0 /\ context[a].calls = calls
          /\ AllComplete(context, run, a - 1)
      BY <1>i, <1>t, <2>1 DEF BatchAnswer, InBatch
    <3>8. ASSUME NEW i \in 1..Len(s), s[i].role = "assistant", s[i].run = run
          PROVE  Complete(s, i, Len(s))
      <4>1. CASE i < a
        <5>1. i \in 1..(a - 1) /\ i \in 1..a /\ a - 1 \in i..a /\ Len(s) \in (a - 1)..Len(s)
             /\ a <= Len(s)
          BY <1>t, <3>6, <4>1
        <5>2. Complete(context, i, a - 1)
          BY <3>6, <3>7, <3>8, <5>1 DEF AllComplete
        <5> QED
          BY <1>t, <3>6, <5>1, <5>2, CompleteGrows
      <4>2. CASE i = a
        <5>1. s[i].calls = calls
          BY <3>6, <3>7, <4>2
        <5>2. ASSUME NEW c \in 1..Len(calls)
              PROVE  \E k2 \in i..Len(s) : s[k2].id = calls[c] /\ s[k2].role = "toolResult"
          <6>1. a + c \in i..Len(s) /\ s[a + c] = Result(calls[c])
            BY <1>t, <3>6, <4>2 DEF Count
          <6>2. s[a + c].id = calls[c] /\ s[a + c].role = "toolResult"
            BY <6>1 DEF Result, Msg
          <6> QED
            BY <6>1, <6>2
        <5> QED
          BY <5>1, <5>2 DEF Complete
      <4>3. CASE i > a
        <5>1. i - a \in 1..Count /\ a + (i - a) = i
          BY <1>t, <3>6, <4>3
        <5>2. s[i] = Result(calls[i - a])
          BY <3>6, <5>1
        <5> QED
          BY <3>8, <5>2 DEF Result, Msg
      <4> QED
        BY <3>6, <4>1, <4>2, <4>3
    <3>9. whole2
      BY <2>1, <3>8 DEF AllComplete
    <3> QED
      BY <1>w, <3>9
  <2> QED
    BY <2>2, <2>3
<1>8. ASSUME NEW n \in {0, MaxCalls}, AnswerFails(n)
      PROVE  CompleteOK'
  BY <1>8 DEF AnswerFails, CompleteOK
<1>9. CASE \/ FailTruncated \/ StartTool \/ PrepareImmediate \/ Prepare \/ NextCall \/ EmitResult
           \/ ToolSettles \/ AgentEnd \/ FinishRun \/ HandleFailure \/ Fail
  <2>1. pc' \in InBatch \cup {"ended", "idle", "failed"}
    BY <1>9 DEF FailTruncated, StartTool, PrepareImmediate, Prepare, NextCall, EmitResult, ToolSettles,
                Settle, AgentEnd, FinishRun, HandleFailure, Fail, InBatch
  <2> QED
    BY <2>1 DEF CompleteOK, InBatch
<1> QED
  BY <1>1, <1>2, <1>3, <1>4, <1>5, <1>6, <1>7, <1>8, <1>9
  DEF Next, UserStep, ModelStep, LoopStep

\* The answer whose calls are executed stays last in the context until the
\* results are added.
LEMMA BatchAnswerKept ==
  ASSUME IInv, PairInv, [Next]_vars
  PROVE  BatchAnswer'
<1> USE DEF vars, agentvars, loopvars, toolvars, boundvars
<1>i. LoopTypeOK /\ CopiesOK /\ CompleteOK /\ BatchAnswer
  BY DEF IInv, PairInv
<1>t. /\ context \in Seq(Message) /\ answers \in Nat /\ run \in Nat
  BY <1>i DEF LoopTypeOK
<1>u. ASSUME UNCHANGED <<context, calls, run>>, pc' \in InBatch => pc \in InBatch
      PROVE  BatchAnswer'
  BY <1>i, <1>u DEF BatchAnswer
<1>1. ASSUME NEW stop \in {"stop", "toolUse", "length"}, NEW n \in 0..MaxCalls, AnswerArrives(stop, n)
      PROVE  BatchAnswer'
  <2> DEFINE m == Answer(stop, NewCalls(n))
             c == context'
  <2>1. /\ c = Append(context, m) /\ run' = run /\ pc = "streaming" /\ calls' = NewCalls(n)
    BY <1>1 DEF AnswerArrives, Answered
  <2>2. stop \in Stops /\ NewCalls(n) \in Seq(Call)
    BY <1>t, BoundsAssumption, CallsDiffer DEF Stops
  <2>3. m \in Message
    BY <1>t, <2>2, MessageTypes
  <2>4. m.role = "assistant" /\ m.calls = NewCalls(n)
    BY DEF Answer
  <2> HIDE DEF m
  <2>5. /\ c \in Seq(Message) /\ Len(c) = Len(context) + 1 /\ c[Len(c)] = m /\ c # <<>>
        /\ \A i \in 1..Len(context) : c[i] = context[i]
    BY <1>t, <2>1, <2>3
  <2>6. AllComplete(context, run, Len(context))
    BY <1>i, <2>1 DEF CopiesOK, CompleteOK
  <2>7. ASSUME NEW i \in 1..(Len(c) - 1), c[i].role = "assistant", c[i].run = run
        PROVE  Complete(c, i, Len(c) - 1)
    <3>1. /\ i \in 1..Len(context) /\ Len(context) \in i..Len(context) /\ Len(c) - 1 = Len(context)
          /\ Len(context) \in Len(context)..Len(c) /\ Len(context) <= Len(c)
      BY <1>t, <2>5
    <3>2. Complete(context, i, Len(context))
      BY <2>5, <2>6, <2>7, <3>1 DEF AllComplete
    <3> QED
      BY <1>t, <2>5, <3>1, <3>2, CompleteGrows
  <2>8. AllComplete(c, run, Len(c) - 1)
    BY <2>7 DEF AllComplete
  <2> QED
    BY <2>1, <2>4, <2>5, <2>8 DEF BatchAnswer
<1>2. ASSUME NEW n \in {0, MaxCalls}, AnswerFails(n)
      PROVE  BatchAnswer'
  BY <1>2 DEF AnswerFails, BatchAnswer, InBatch
<1>3. CASE \/ PromptCall \/ ContinueSteering \/ ContinueFollowUp \/ ContinueTranscript \/ Request
           \/ EmitPrompts \/ InitialPoll \/ Turn \/ BatchEnd \/ ContinueAnswer \/ TurnEnd \/ Poll
           \/ FollowUpPoll \/ AgentEnd \/ FinishRun \/ HandleFailure \/ Fail
  <2>1. pc' \notin InBatch
    BY <1>3 DEF PromptCall, ContinueSteering, ContinueFollowUp, ContinueTranscript, StartRun, Request,
                EmitPrompts, InitialPoll, Turn, BatchEnd, ContinueAnswer, TurnEnd, Poll,
                FollowUpPoll, AgentEnd, FinishRun, HandleFailure, Fail, InBatch
  <2> QED
    BY <2>1 DEF BatchAnswer
<1>4. CASE \/ SteerCall \/ FollowUpCall \/ Abort \/ FailTruncated \/ StartTool \/ PrepareImmediate
           \/ Prepare \/ NextCall \/ EmitResult \/ ToolSettles \/ StraySettle \/ UNCHANGED vars
  <2>1. UNCHANGED <<context, calls, run>>
    BY <1>4 DEF SteerCall, FollowUpCall, Abort, FailTruncated, StartTool, PrepareImmediate, Prepare,
                NextCall, EmitResult, ToolSettles, Settle, StraySettle, StraySettles
  <2>2. pc' = pc \/ pc \in InBatch
    BY <1>4 DEF SteerCall, FollowUpCall, Abort, FailTruncated, StartTool, PrepareImmediate, Prepare,
                NextCall, EmitResult, ToolSettles, Settle, StraySettle, StraySettles, InBatch
  <2> QED
    BY <1>u, <2>1, <2>2
<1> QED
  BY <1>1, <1>2, <1>3, <1>4 DEF Next, UserStep, ModelStep, LoopStep

LEMMA InitPairs ==
  ASSUME Init
  PROVE  PairInv
<1>1. Len(<<>>) = 0
  OBVIOUS
<1>2. UsersOK /\ RunsOK
  BY <1>1 DEF Init, UsersOK, OfUser, RunsOK
<1>3. CompleteOK /\ BatchAnswer /\ StartedOK
  BY DEF Init, CompleteOK, BatchAnswer, StartedOK, InBatch
<1>4. Follows(transcript) /\ Pairs(transcript)
  BY <1>1 DEF Init, Follows, Pairs
<1> QED
  BY <1>2, <1>3, <1>4 DEF PairInv

\* Results follow the answer with their calls, in its order, and within a run
\* no answer follows a call that has no result: what providers demand of a
\* conversation, whatever is aborted and in whatever order tools settle.
THEOREM CallsKeepTheirResults == Spec => []ResultsPairCalls
<1>1. Init => PairInv
  BY InitPairs
<1>2. IInv /\ PairInv /\ [Next]_vars => PairInv'
  BY UsersKept, StartedKept, CompleteKept, BatchAnswerKept, PairingKept DEF PairInv
<1>3. PairInv => ResultsPairCalls
  <2>1. Follows(transcript) => ResultsFollowCalls
    BY DEF Follows, ResultsFollowCalls
  <2>2. Pairs(transcript) => NoAnswerWithoutResults
    BY DEF Pairs, Complete, NoAnswerWithoutResults
  <2> QED
    BY <2>1, <2>2 DEF PairInv, ResultsPairCalls
<1> QED
  BY <1>1, <1>2, <1>3, CopiesAndCalls, PTL DEF Spec


-----------------------------------------------------------------------------
\* The messages of the queues: their places, their numbers and their order are
\* followed through the four sequences they go through.
QueueRoles == {"steer", "followUp"}

PlaceSet(s, n) == {i \in 1..Len(s) : s[i].role \in QueueRoles /\ s[i].id = <<n, 0>>}

Sum(sq, fq, p, t, n) == Places(sq, n) + Places(fq, n) + Places(p, n) + Places(t, n)

NumberedIn(s, n) ==
  \A i \in 1..Len(s) : s[i].role \in QueueRoles => \E k \in 1..n : s[i].id = <<k, 0>>

OfRole(s, role) == \A i \in 1..Len(s) : s[i].role = role
NoneOf(s, role) == \A i \in 1..Len(s) : s[i].role # role

InOrderOf(s, role) ==
  \A i, j \in 1..Len(s) :
    i < j /\ s[i].role = role /\ s[j].role = role => s[i].id[1] < s[j].id[1]

\* The queues, the messages taken from them and the transcript, when n
\* messages were queued; lossy if a run has failed.
Delivers(sq, fq, p, t, n, lossy) ==
  /\ \A i \in 1..n : Sum(sq, fq, p, t, i) <= 1 /\ (lossy \/ Sum(sq, fq, p, t, i) = 1)
  /\ NumberedIn(sq, n) /\ NumberedIn(fq, n) /\ NumberedIn(p, n) /\ NumberedIn(t, n)
  /\ OfRole(sq, "steer") /\ OfRole(fq, "followUp")
  /\ InOrderOf((t \o p) \o sq, "steer") /\ InOrderOf((t \o p) \o fq, "followUp")

\* What is taken from a queue is emitted before anything else happens.
TakenOK == pc \notin {"prompts", "turn"} => pendingMessages = <<>>

DeliverInv ==
  /\ TakenOK
  /\ Delivers(steeringQueue, followUpQueue, pendingMessages, transcript, queued, failures # 0)

-----------------------------------------------------------------------------
LEMMA PlaceSets ==
  ASSUME NEW s \in Seq(Message), NEW n
  PROVE  /\ IsFiniteSet(PlaceSet(s, n)) /\ PlaceSet(s, n) \subseteq 1..Len(s)
         /\ Places(s, n) = Cardinality(PlaceSet(s, n)) /\ Places(s, n) \in Nat
<1>1. PlaceSet(s, n) \subseteq 1..Len(s) /\ Len(s) \in Nat
  BY DEF PlaceSet
<1>2. IsFiniteSet(1..Len(s))
  BY <1>1, FS_Interval
<1>3. IsFiniteSet(PlaceSet(s, n))
  BY <1>1, <1>2, FS_Subset
<1>4. Places(s, n) = Cardinality(PlaceSet(s, n))
  BY DEF Places, PlaceSet, QueueRoles
<1> QED
  BY <1>1, <1>3, <1>4, FS_CardinalityType

\* The places in a concatenation are those in its two parts.
LEMMA PlacesConcat ==
  ASSUME NEW s \in Seq(Message), NEW t \in Seq(Message), NEW n
  PROVE  Places(s \o t, n) = Places(s, n) + Places(t, n)
<1> DEFINE u == s \o t
           A == PlaceSet(s, n)
           B == PlaceSet(t, n)
           f == [i \in B |-> i + Len(s)]
           C == {f[i] : i \in B}
<1>1. /\ u \in Seq(Message) /\ Len(u) = Len(s) + Len(t) /\ Len(s) \in Nat /\ Len(t) \in Nat
      /\ \A i \in 1..Len(s) : u[i] = s[i]
      /\ \A i \in 1..Len(t) : u[i + Len(s)] = t[i]
      /\ \A i \in 1..Len(u) : i > Len(s) => i - Len(s) \in 1..Len(t) /\ u[i] = t[i - Len(s)]
  OBVIOUS
<1>2. /\ IsFiniteSet(A) /\ A \subseteq 1..Len(s) /\ IsFiniteSet(B) /\ B \subseteq 1..Len(t)
      /\ Places(s, n) = Cardinality(A) /\ Places(t, n) = Cardinality(B)
      /\ Places(s, n) \in Nat /\ Places(t, n) \in Nat
  BY PlaceSets
<1>3. Places(u, n) = Cardinality(PlaceSet(u, n))
  BY <1>1, PlaceSets
<1>4. \A i \in 1..Len(u) :
        i \in PlaceSet(u, n) <=> i \in A \/ (i > Len(s) /\ i - Len(s) \in B)
  <2> HIDE DEF u
  <2> QED
    BY <1>1 DEF PlaceSet
<1>5. PlaceSet(u, n) \subseteq 1..Len(u)
  BY DEF PlaceSet
<1> HIDE DEF u, A, B
<1>6. C = {i \in 1..Len(u) : i > Len(s) /\ i - Len(s) \in B}
  BY <1>1, <1>2
<1> HIDE DEF C
<1>7. PlaceSet(u, n) = A \cup C
  <2>1. \A i \in A : i \in 1..Len(u) /\ i \in PlaceSet(u, n)
    BY <1>1, <1>2, <1>4
  <2>2. \A i \in C : i \in PlaceSet(u, n)
    BY <1>4, <1>6
  <2>3. \A i \in PlaceSet(u, n) : i \in A \/ i \in C
    BY <1>4, <1>5, <1>6
  <2> QED
    BY <2>1, <2>2, <2>3
<1>8. A \cap C = {}
  BY <1>1, <1>2, <1>6
<1>9. f \in Bijection(B, C)
  <2>1. f \in [B -> C]
    BY DEF C
  <2>2. \A a, b \in B : f[a] = f[b] => a = b
    BY <1>1, <1>2
  <2>3. \A c \in C : \E b \in B : f[b] = c
    BY DEF C
  <2> QED
    BY <2>1, <2>2, <2>3 DEF Bijection, Injection, Surjection, IsInjective
<1>10. IsFiniteSet(C) /\ Cardinality(C) = Cardinality(B)
  <2>1. ExistsBijection(B, C)
    BY <1>9 DEF ExistsBijection
  <2> QED
    BY <1>2, <2>1, FS_Bijection
<1>11. Cardinality(A \cup C) = Cardinality(A) + Cardinality(C) - Cardinality({})
  BY <1>2, <1>8, <1>10, FS_Union
<1>12. Cardinality({}) = 0
  BY FS_EmptySet
<1>13. Places(u, n) = Places(s, n) + Places(t, n)
  BY <1>2, <1>3, <1>7, <1>10, <1>11, <1>12
<1> QED
  BY <1>13 DEF u

LEMMA PlacesEmpty ==
  \A n : Places(<<>>, n) = 0
<1>1. \A n : PlaceSet(<<>>, n) = {}
  BY DEF PlaceSet
<1>2. <<>> \in Seq(Message) /\ Cardinality({}) = 0
  BY FS_EmptySet
<1> QED
  BY <1>1, <1>2, PlaceSets

\* A message has one place if it has the number.
LEMMA PlacesOne ==
  ASSUME NEW m \in Message, NEW n
  PROVE  Places(<<m>>, n) = IF m.role \in QueueRoles /\ m.id = <<n, 0>> THEN 1 ELSE 0
<1>1. <<m>> \in Seq(Message)
  OBVIOUS
<1>2. PlaceSet(<<m>>, n) = IF m.role \in QueueRoles /\ m.id = <<n, 0>> THEN {1} ELSE {}
  BY DEF PlaceSet
<1>3. Cardinality({}) = 0 /\ Cardinality({1}) = 1
  BY FS_EmptySet, FS_Singleton
<1> QED
  BY <1>1, <1>2, <1>3, PlaceSets

\* No message has a number that was not given.
LEMMA PlacesNone ==
  ASSUME NEW s \in Seq(Message), NEW n \in Nat, NumberedIn(s, n)
  PROVE  Places(s, n + 1) = 0
<1>1. PlaceSet(s, n + 1) = {}
  <2>1. ASSUME NEW i \in PlaceSet(s, n + 1)
        PROVE  FALSE
    <3>1. i \in 1..Len(s) /\ s[i].role \in QueueRoles /\ s[i].id = <<n + 1, 0>>
      BY <2>1 DEF PlaceSet
    <3>2. PICK k \in 1..n : s[i].id = <<k, 0>>
      BY <3>1 DEF NumberedIn
    <3> QED
      BY <3>1, <3>2
  <2> QED
    BY <2>1
<1>2. Cardinality({}) = 0
  BY FS_EmptySet
<1> QED
  BY <1>1, <1>2, PlaceSets

\* A sequence is what comes before a place and what comes after.
LEMMA SplitAt ==
  ASSUME NEW s \in Seq(Message), NEW k \in 0..Len(s)
  PROVE  /\ SubSeq(s, 1, k) \in Seq(Message) /\ SubSeq(s, k + 1, Len(s)) \in Seq(Message)
         /\ Len(SubSeq(s, 1, k)) = k
         /\ s = SubSeq(s, 1, k) \o SubSeq(s, k + 1, Len(s))
<1> DEFINE a == SubSeq(s, 1, k)
           b == SubSeq(s, k + 1, Len(s))
<1>1. k \in Int /\ 1 \in Int /\ k + 1 \in Int /\ Len(s) \in Nat
  OBVIOUS
<1>2. /\ a \in Seq(Message) /\ Len(a) = k /\ \A i \in 1..k : a[i] = s[i]
  <2>1. \A i \in 1..k : s[i] \in Message
    BY <1>1
  <2>2. /\ a \in Seq(Message)
        /\ Len(a) = IF 1 <= k THEN k - 1 + 1 ELSE 0
        /\ \A i \in 1..(k - 1 + 1) : a[i] = s[1 + i - 1]
    BY <1>1, <2>1, SubSeqProperties
  <2> HIDE DEF a
  <2> QED
    BY <1>1, <2>2
<1>3. /\ b \in Seq(Message) /\ Len(b) = Len(s) - k /\ \A i \in 1..(Len(s) - k) : b[i] = s[k + i]
  <2>1. \A i \in (k + 1)..Len(s) : s[i] \in Message
    BY <1>1
  <2>2. /\ b \in Seq(Message)
        /\ Len(b) = IF k + 1 <= Len(s) THEN Len(s) - (k + 1) + 1 ELSE 0
        /\ \A i \in 1..(Len(s) - (k + 1) + 1) : b[i] = s[(k + 1) + i - 1]
    BY <1>1, <2>1, SubSeqProperties
  <2> HIDE DEF b
  <2> QED
    BY <1>1, <2>2
<1> HIDE DEF a, b
<1>4. a \o b \in Seq(Message) /\ Len(a \o b) = Len(s)
  BY <1>1, <1>2, <1>3
<1>5. ASSUME NEW i \in 1..Len(s)
      PROVE  s[i] = (a \o b)[i]
  <2>1. (a \o b)[i] = IF i <= Len(a) THEN a[i] ELSE b[i - Len(a)]
    BY <1>1, <1>2, <1>3, ConcatProperties
  <2>2. CASE i <= k
    BY <1>2, <2>1, <2>2
  <2>3. CASE i > k
    <3>1. i - k \in 1..(Len(s) - k) /\ k + (i - k) = i
      BY <1>1, <2>3
    <3>2. b[i - k] = s[k + (i - k)]
      BY <1>3, <3>1
    <3> QED
      BY <1>2, <2>1, <2>3, <3>1, <3>2
  <2>4. i <= k \/ i > k
    BY <1>1
  <2> QED
    BY <2>2, <2>3, <2>4, Zenon
<1>6. s = a \o b
  BY <1>4, <1>5, SeqEqual
<1> QED
  BY <1>2, <1>3, <1>6 DEF a, b

\* Draining takes a first part of the queue and leaves the rest.
LEMMA DrainSplits ==
  ASSUME NEW queue \in Seq(Message), NEW taken \in Drains(queue)
  PROVE  queue = taken \o Undrained(queue, taken)
<1>1. PICK k \in 0..Len(queue) : taken = SubSeq(queue, 1, k)
  <2>1. Len(queue) \in Nat /\ (queue # <<>> => Len(queue) >= 1)
    BY EmptySeq
  <2>2. queue = SubSeq(queue, 1, Len(queue))
    BY SubSeqFull
  <2>3. CASE taken = queue
    <3>1. Len(queue) \in 0..Len(queue)
      BY <2>1
    <3> QED
      BY <2>2, <2>3, <3>1
  <2>4. CASE taken = SubSeq(queue, 1, IF queue = <<>> THEN 0 ELSE 1)
    BY <2>1, <2>4
  <2> QED
    BY <2>3, <2>4 DEF Drains
<1>2. Len(taken) = k /\ queue = SubSeq(queue, 1, k) \o SubSeq(queue, k + 1, Len(queue))
  BY <1>1, SplitAt
<1> QED
  BY <1>1, <1>2 DEF Undrained

-----------------------------------------------------------------------------
\* What is said of every message of two sequences is said of both together.
LEMMA NumbersConcat ==
  ASSUME NEW s \in Seq(Message), NEW t \in Seq(Message), NEW n
  PROVE  NumberedIn(s \o t, n) <=> NumberedIn(s, n) /\ NumberedIn(t, n)
<1> DEFINE u == s \o t
<1>1. /\ Len(u) = Len(s) + Len(t) /\ Len(s) \in Nat /\ Len(t) \in Nat
      /\ \A i \in 1..Len(s) : u[i] = s[i] /\ i \in 1..Len(u)
      /\ \A i \in 1..Len(t) : u[i + Len(s)] = t[i] /\ i + Len(s) \in 1..Len(u)
      /\ \A i \in 1..Len(u) : i > Len(s) => i - Len(s) \in 1..Len(t) /\ u[i] = t[i - Len(s)]
      /\ \A i \in 1..Len(u) : i > Len(s) \/ i \in 1..Len(s)
  OBVIOUS
<1> HIDE DEF u
<1>2. ASSUME NumberedIn(u, n)
      PROVE  NumberedIn(s, n) /\ NumberedIn(t, n)
  <2>1. NumberedIn(s, n)
    BY <1>1, <1>2, Zenon DEF NumberedIn
  <2>2. ASSUME NEW i \in 1..Len(t), t[i].role \in QueueRoles
        PROVE  \E k \in 1..n : t[i].id = <<k, 0>>
    <3>1. u[i + Len(s)] = t[i] /\ i + Len(s) \in 1..Len(u)
      BY <1>1
    <3> QED
      BY <1>2, <2>2, <3>1, Zenon DEF NumberedIn
  <2> QED
    BY <2>1, <2>2 DEF NumberedIn
<1>3. ASSUME NumberedIn(s, n), NumberedIn(t, n)
      PROVE  NumberedIn(u, n)
  <2> SUFFICES ASSUME NEW i \in 1..Len(u), u[i].role \in QueueRoles
               PROVE  \E k \in 1..n : u[i].id = <<k, 0>>
    BY DEF NumberedIn
  <2>1. CASE i > Len(s)
    BY <1>1, <1>3, <2>1 DEF NumberedIn
  <2>2. CASE i \in 1..Len(s)
    BY <1>1, <1>3, <2>2 DEF NumberedIn
  <2> QED
    BY <1>1, <2>1, <2>2
<1>4. NumberedIn(u, n) <=> NumberedIn(s, n) /\ NumberedIn(t, n)
  BY <1>2, <1>3
<1> QED
  BY <1>4 DEF u

LEMMA RolesConcat ==
  ASSUME NEW s \in Seq(Message), NEW t \in Seq(Message), NEW role, OfRole(s \o t, role)
  PROVE  OfRole(s, role) /\ OfRole(t, role)
<1> DEFINE u == s \o t
<1>1. /\ \A i \in 1..Len(s) : u[i] = s[i] /\ i \in 1..Len(u)
      /\ \A i \in 1..Len(t) : u[i + Len(s)] = t[i] /\ i + Len(s) \in 1..Len(u)
  OBVIOUS
<1> HIDE DEF u
<1>2. OfRole(u, role)
  BY DEF u
<1> QED
  BY <1>1, <1>2 DEF OfRole

\* One more message, with a number of its own.
LEMMA NumberedGrows ==
  ASSUME NEW s, NEW n \in Nat, NumberedIn(s, n)
  PROVE  NumberedIn(s, n + 1)
<1>1. \A k \in 1..n : k \in 1..(n + 1)
  OBVIOUS
<1> QED
  BY <1>1 DEF NumberedIn

\* Messages of another role, in between or behind, leave the order as it is.
LEMMA OrderInsert ==
  ASSUME NEW s \in Seq(Message), NEW x \in Seq(Message), NEW t \in Seq(Message), NEW role,
         NoneOf(x, role), InOrderOf(s \o t, role)
  PROVE  InOrderOf((s \o x) \o t, role)
<1> DEFINE u == (s \o x) \o t
           v == s \o t
           f(i) == IF i <= Len(s) THEN i ELSE i - Len(x)
<1>0. Len(s) \in Nat /\ Len(x) \in Nat /\ Len(t) \in Nat
  OBVIOUS
<1>1. /\ s \o x \in Seq(Message) /\ Len(s \o x) = Len(s) + Len(x)
      /\ \A i \in 1..Len(s) : (s \o x)[i] = s[i]
      /\ \A i \in 1..(Len(s) + Len(x)) : i > Len(s) => (s \o x)[i] = x[i - Len(s)]
  OBVIOUS
<1>2. /\ Len(u) = Len(s) + Len(x) + Len(t)
      /\ \A i \in 1..Len(s) : u[i] = s[i]
      /\ \A i \in 1..Len(u) : i > Len(s) /\ i <= Len(s) + Len(x) => u[i] = x[i - Len(s)]
      /\ \A i \in 1..Len(u) : i > Len(s) + Len(x) => u[i] = t[i - Len(s) - Len(x)]
  <2> DEFINE w == s \o x
  <2>1. \A i \in 1..(Len(w) + Len(t)) : u[i] = IF i <= Len(w) THEN w[i] ELSE t[i - Len(w)]
    BY <1>1, ConcatProperties
  <2>2. Len(u) = Len(w) + Len(t)
    BY <1>1, ConcatProperties
  <2>3. w = s \o x
    OBVIOUS
  <2> HIDE DEF w, u
  <2> QED
    BY <1>0, <1>1, <2>1, <2>2, <2>3
<1>3. /\ Len(v) = Len(s) + Len(t)
      /\ \A i \in 1..Len(s) : v[i] = s[i]
      /\ \A i \in 1..Len(v) : i > Len(s) => v[i] = t[i - Len(s)]
  OBVIOUS
<1>4. InOrderOf(v, role)
  OBVIOUS
<1> HIDE DEF u, v
<1>5. ASSUME NEW i \in 1..Len(u), u[i].role = role
      PROVE  /\ f(i) \in 1..Len(v) /\ v[f(i)] = u[i]
             /\ i <= Len(s) \/ i > Len(s) + Len(x)
  <2>1. CASE i <= Len(s)
    <3>1. i \in 1..Len(s)
      BY <1>0, <2>1
    <3> QED
      BY <1>0, <1>2, <1>3, <2>1, <3>1
  <2>2. CASE i > Len(s) /\ i <= Len(s) + Len(x)
    <3>1. i - Len(s) \in 1..Len(x) /\ u[i] = x[i - Len(s)]
      BY <1>0, <1>2, <2>2
    <3> QED
      BY <1>5, <3>1 DEF NoneOf
  <2>3. CASE i > Len(s) + Len(x)
    <3>1. /\ f(i) = i - Len(x) /\ i - Len(x) > Len(s) /\ i - Len(x) \in 1..Len(v)
          /\ (i - Len(x)) - Len(s) = i - Len(s) - Len(x)
      BY <1>0, <1>2, <1>3, <2>3
    <3>2. v[i - Len(x)] = t[(i - Len(x)) - Len(s)]
      BY <1>3, <3>1
    <3> QED
      BY <1>2, <2>3, <3>1, <3>2
  <2> QED
    BY <1>0, <1>2, <2>1, <2>2, <2>3
<1>6. ASSUME NEW i \in 1..Len(u), NEW j \in 1..Len(u), i < j, u[i].role = role, u[j].role = role
      PROVE  u[i].id[1] < u[j].id[1]
  <2>1. /\ f(i) \in 1..Len(v) /\ v[f(i)] = u[i] /\ (i <= Len(s) \/ i > Len(s) + Len(x))
        /\ f(j) \in 1..Len(v) /\ v[f(j)] = u[j] /\ (j <= Len(s) \/ j > Len(s) + Len(x))
    BY <1>5, <1>6
  <2>2. f(i) < f(j)
    BY <1>0, <1>2, <1>6, <2>1
  <2> HIDE DEF f
  <2> QED
    BY <1>4, <1>6, <2>1, <2>2 DEF InOrderOf
<1>7. InOrderOf(u, role)
  BY <1>6 DEF InOrderOf
<1> QED
  BY <1>7 DEF u

\* So does leaving out messages.
LEMMA OrderLeaveOut ==
  ASSUME NEW s \in Seq(Message), NEW x \in Seq(Message), NEW t \in Seq(Message), NEW role,
         InOrderOf((s \o x) \o t, role)
  PROVE  InOrderOf(s \o t, role)
<1> DEFINE u == (s \o x) \o t
           v == s \o t
           f(i) == IF i <= Len(s) THEN i ELSE i + Len(x)
<1>0. Len(s) \in Nat /\ Len(x) \in Nat /\ Len(t) \in Nat
  OBVIOUS
<1>1. /\ s \o x \in Seq(Message) /\ Len(s \o x) = Len(s) + Len(x)
      /\ \A i \in 1..Len(s) : (s \o x)[i] = s[i]
  OBVIOUS
<1>2. /\ Len(u) = Len(s) + Len(x) + Len(t)
      /\ \A i \in 1..Len(s) : u[i] = s[i]
      /\ \A i \in 1..Len(u) : i > Len(s) + Len(x) => u[i] = t[i - Len(s) - Len(x)]
  <2> DEFINE w == s \o x
  <2>1. \A i \in 1..(Len(w) + Len(t)) : u[i] = IF i <= Len(w) THEN w[i] ELSE t[i - Len(w)]
    BY <1>1, ConcatProperties
  <2>2. Len(u) = Len(w) + Len(t)
    BY <1>1, ConcatProperties
  <2>3. w = s \o x
    OBVIOUS
  <2> HIDE DEF w, u
  <2> QED
    BY <1>0, <1>1, <2>1, <2>2, <2>3
<1>3. /\ Len(v) = Len(s) + Len(t)
      /\ \A i \in 1..Len(s) : v[i] = s[i]
      /\ \A i \in 1..Len(v) : i > Len(s) => v[i] = t[i - Len(s)]
  OBVIOUS
<1>4. InOrderOf(u, role)
  OBVIOUS
<1> HIDE DEF u, v
<1>5. ASSUME NEW i \in 1..Len(v)
      PROVE  f(i) \in 1..Len(u) /\ v[i] = u[f(i)]
  <2>1. CASE i <= Len(s)
    <3>1. i \in 1..Len(s) /\ i \in 1..Len(u)
      BY <1>0, <1>2, <2>1
    <3> QED
      BY <1>2, <1>3, <2>1, <3>1
  <2>2. CASE i > Len(s)
    <3>1. /\ f(i) = i + Len(x) /\ i + Len(x) > Len(s) + Len(x) /\ i + Len(x) \in 1..Len(u)
          /\ (i + Len(x)) - Len(s) - Len(x) = i - Len(s)
      BY <1>0, <1>2, <1>3, <2>2
    <3>2. u[i + Len(x)] = t[(i + Len(x)) - Len(s) - Len(x)]
      BY <1>2, <3>1
    <3> QED
      BY <1>3, <2>2, <3>1, <3>2
  <2> QED
    BY <1>0, <2>1, <2>2
<1>6. ASSUME NEW i \in 1..Len(v), NEW j \in 1..Len(v), i < j, v[i].role = role, v[j].role = role
      PROVE  v[i].id[1] < v[j].id[1]
  <2>1. f(i) \in 1..Len(u) /\ v[i] = u[f(i)] /\ f(j) \in 1..Len(u) /\ v[j] = u[f(j)]
    BY <1>5
  <2>2. f(i) < f(j)
    BY <1>0, <1>3, <1>6
  <2> HIDE DEF f
  <2> QED
    BY <1>4, <1>6, <2>1, <2>2 DEF InOrderOf
<1>7. InOrderOf(v, role)
  BY <1>6 DEF InOrderOf
<1> QED
  BY <1>7 DEF v

\* The message queued last has the highest number.
LEMMA OrderAppend ==
  ASSUME NEW s \in Seq(Message), NEW n \in Nat, NEW role \in QueueRoles, NumberedIn(s, n),
         InOrderOf(s, role), NEW m \in Message, m.id = <<n + 1, 0>>
  PROVE  InOrderOf(Append(s, m), role)
<1> DEFINE u == Append(s, m)
<1>1. /\ Len(u) = Len(s) + 1 /\ Len(s) \in Nat /\ u[Len(s) + 1] = m
      /\ \A i \in 1..Len(s) : u[i] = s[i]
  OBVIOUS
<1> HIDE DEF u
<1>2. ASSUME NEW i \in 1..Len(u), NEW j \in 1..Len(u), i < j, u[i].role = role, u[j].role = role
      PROVE  u[i].id[1] < u[j].id[1]
  <2>1. i \in 1..Len(s) /\ u[i] = s[i]
    BY <1>1, <1>2
  <2>2. CASE j \in 1..Len(s)
    BY <1>1, <1>2, <2>1, <2>2 DEF InOrderOf
  <2>3. CASE j = Len(s) + 1
    <3>1. PICK k \in 1..n : s[i].id = <<k, 0>>
      BY <1>2, <2>1 DEF NumberedIn
    <3>2. u[j].id[1] = n + 1 /\ u[i].id[1] = k
      BY <1>1, <2>1, <2>3, <3>1
    <3> QED
      BY <3>2
  <2> QED
    BY <1>1, <2>2, <2>3
<1>3. InOrderOf(u, role)
  BY <1>2 DEF InOrderOf
<1> QED
  BY <1>3 DEF u


-----------------------------------------------------------------------------
\* What each kind of step does to the four sequences.

\* A message that was not queued is added to the transcript.
LEMMA DeliversAdd ==
  ASSUME NEW sq \in Seq(Message), NEW fq \in Seq(Message), NEW t \in Seq(Message),
         NEW n \in Nat, NEW lossy, NEW m \in Message, m.role \notin QueueRoles,
         Delivers(sq, fq, <<>>, t, n, lossy)
  PROVE  Delivers(sq, fq, <<>>, Append(t, m), n, lossy)
<1> DEFINE x == <<m>>
<1>1. x \in Seq(Message) /\ Append(t, m) = t \o x /\ t \o x \in Seq(Message)
  BY AppendIsConcat, ConcatProperties
<1>2. t \o <<>> = t /\ (t \o x) \o <<>> = t \o x
  BY <1>1, ConcatEmptySeq
<1>3. ASSUME NEW i
      PROVE  Places(t \o x, i) = Places(t, i)
  <2>1. Places(t \o x, i) = Places(t, i) + Places(x, i)
    BY <1>1, PlacesConcat
  <2>2. Places(x, i) = 0
    BY PlacesOne
  <2>3. Places(t, i) \in Nat
    BY PlaceSets
  <2> QED
    BY <2>1, <2>2, <2>3
<1>4. NumberedIn(t \o x, n)
  <2>1. NumberedIn(x, n)
    BY DEF NumberedIn
  <2> QED
    BY <1>1, <2>1, NumbersConcat DEF Delivers
<1>5. NoneOf(x, "steer") /\ NoneOf(x, "followUp")
  BY DEF NoneOf, QueueRoles
<1> HIDE DEF x
<1>6. InOrderOf((t \o x) \o sq, "steer") /\ InOrderOf((t \o x) \o fq, "followUp")
  <2>1. InOrderOf(t \o sq, "steer") /\ InOrderOf(t \o fq, "followUp")
    BY <1>2 DEF Delivers
  <2> QED
    BY <1>1, <1>5, <2>1, OrderInsert
<1>7. \A i : Sum(sq, fq, <<>>, t \o x, i) = Sum(sq, fq, <<>>, t, i)
  BY <1>3 DEF Sum
<1> QED
  BY <1>1, <1>2, <1>4, <1>6, <1>7 DEF Delivers

\* Messages are taken from the steering queue, or from the other one.
LEMMA DeliversTakeSteering ==
  ASSUME NEW x \in Seq(Message), NEW sq \in Seq(Message), NEW fq \in Seq(Message),
         NEW t \in Seq(Message), NEW n \in Nat, NEW lossy,
         Delivers(x \o sq, fq, <<>>, t, n, lossy)
  PROVE  Delivers(sq, fq, x, t, n, lossy)
<1>1. t \o <<>> = t /\ <<>> \in Seq(Message)
  BY ConcatEmptySeq
<1>2. ASSUME NEW i
      PROVE  Sum(sq, fq, x, t, i) = Sum(x \o sq, fq, <<>>, t, i)
  <2>1. Places(x \o sq, i) = Places(x, i) + Places(sq, i)
    BY PlacesConcat
  <2>2. Places(<<>>, i) = 0
    BY PlacesEmpty
  <2>3. Places(x, i) \in Nat /\ Places(sq, i) \in Nat /\ Places(fq, i) \in Nat /\ Places(t, i) \in Nat
    BY PlaceSets
  <2> QED
    BY <2>1, <2>2, <2>3 DEF Sum
<1>3. NumberedIn(x, n) /\ NumberedIn(sq, n)
  BY NumbersConcat DEF Delivers
<1>4. OfRole(x, "steer") /\ OfRole(sq, "steer")
  BY RolesConcat DEF Delivers
<1>5. InOrderOf((t \o x) \o sq, "steer")
  <2>1. (t \o x) \o sq = t \o (x \o sq)
    BY ConcatAssociative
  <2> QED
    BY <1>1, <2>1 DEF Delivers
<1>6. InOrderOf((t \o x) \o fq, "followUp")
  <2>1. NoneOf(x, "followUp")
    BY <1>4 DEF OfRole, NoneOf
  <2>2. InOrderOf(t \o fq, "followUp")
    BY <1>1 DEF Delivers
  <2> QED
    BY <2>1, <2>2, OrderInsert
<1> QED
  BY <1>2, <1>3, <1>4, <1>5, <1>6 DEF Delivers

LEMMA DeliversTakeFollowUp ==
  ASSUME NEW x \in Seq(Message), NEW sq \in Seq(Message), NEW fq \in Seq(Message),
         NEW t \in Seq(Message), NEW n \in Nat, NEW lossy,
         Delivers(sq, x \o fq, <<>>, t, n, lossy)
  PROVE  Delivers(sq, fq, x, t, n, lossy)
<1>1. t \o <<>> = t /\ <<>> \in Seq(Message)
  BY ConcatEmptySeq
<1>2. ASSUME NEW i
      PROVE  Sum(sq, fq, x, t, i) = Sum(sq, x \o fq, <<>>, t, i)
  <2>1. Places(x \o fq, i) = Places(x, i) + Places(fq, i)
    BY PlacesConcat
  <2>2. Places(<<>>, i) = 0
    BY PlacesEmpty
  <2>3. Places(x, i) \in Nat /\ Places(sq, i) \in Nat /\ Places(fq, i) \in Nat /\ Places(t, i) \in Nat
    BY PlaceSets
  <2> QED
    BY <2>1, <2>2, <2>3 DEF Sum
<1>3. NumberedIn(x, n) /\ NumberedIn(fq, n)
  BY NumbersConcat DEF Delivers
<1>4. OfRole(x, "followUp") /\ OfRole(fq, "followUp")
  BY RolesConcat DEF Delivers
<1>5. InOrderOf((t \o x) \o fq, "followUp")
  <2>1. (t \o x) \o fq = t \o (x \o fq)
    BY ConcatAssociative
  <2> QED
    BY <1>1, <2>1 DEF Delivers
<1>6. InOrderOf((t \o x) \o sq, "steer")
  <2>1. NoneOf(x, "steer")
    BY <1>4 DEF OfRole, NoneOf
  <2>2. InOrderOf(t \o sq, "steer")
    BY <1>1 DEF Delivers
  <2> QED
    BY <2>1, <2>2, OrderInsert
<1> QED
  BY <1>2, <1>3, <1>4, <1>5, <1>6 DEF Delivers

\* A prompt waits to be emitted.
LEMMA DeliversPrompt ==
  ASSUME NEW sq \in Seq(Message), NEW fq \in Seq(Message), NEW t \in Seq(Message),
         NEW n \in Nat, NEW lossy, NEW m \in Message, m.role \notin QueueRoles,
         Delivers(sq, fq, <<>>, t, n, lossy)
  PROVE  Delivers(sq, fq, <<m>>, t, n, lossy)
<1> DEFINE x == <<m>>
<1>1. x \in Seq(Message) /\ t \o <<>> = t
  BY ConcatEmptySeq
<1>2. \A i : Places(x, i) = 0 /\ Places(<<>>, i) = 0
  BY PlacesOne, PlacesEmpty
<1>3. NumberedIn(x, n) /\ NoneOf(x, "steer") /\ NoneOf(x, "followUp")
  BY DEF NumberedIn, NoneOf, QueueRoles
<1> HIDE DEF x
<1>4. \A i : Sum(sq, fq, x, t, i) = Sum(sq, fq, <<>>, t, i)
  BY <1>2 DEF Sum
<1>5. InOrderOf(t \o sq, "steer") /\ InOrderOf(t \o fq, "followUp")
  BY <1>1 DEF Delivers
<1>6. InOrderOf((t \o x) \o sq, "steer") /\ InOrderOf((t \o x) \o fq, "followUp")
  BY <1>1, <1>3, <1>5, OrderInsert
<1>7. Delivers(sq, fq, x, t, n, lossy)
  BY <1>3, <1>4, <1>6 DEF Delivers
<1> QED
  BY <1>7 DEF x

\* The messages that were taken are emitted up to one of them; that is not the
\* last one only if the run fails.
LEMMA DeliversEmit ==
  ASSUME NEW sq \in Seq(Message), NEW fq \in Seq(Message), NEW p \in Seq(Message),
         NEW t \in Seq(Message), NEW n \in Nat, NEW lossy, NEW k \in 0..Len(p),
         Delivers(sq, fq, p, t, n, lossy)
  PROVE  /\ Delivers(sq, fq, <<>>, t \o SubSeq(p, 1, k), n, TRUE)
         /\ Delivers(sq, fq, <<>>, t \o p, n, lossy)
<1> DEFINE a == SubSeq(p, 1, k)
           b == SubSeq(p, k + 1, Len(p))
<1>1. a \in Seq(Message) /\ b \in Seq(Message) /\ p = a \o b
  BY SplitAt
<1> HIDE DEF a, b
<1>2. /\ t \o a \in Seq(Message) /\ t \o p \in Seq(Message)
      /\ (t \o a) \o <<>> = t \o a /\ (t \o p) \o <<>> = t \o p
      /\ (t \o a) \o b = t \o p
  BY <1>1, ConcatProperties, ConcatEmptySeq, ConcatAssociative
<1>3. ASSUME NEW i
      PROVE  /\ Sum(sq, fq, <<>>, t \o p, i) = Sum(sq, fq, p, t, i)
             /\ Sum(sq, fq, <<>>, t \o a, i) <= Sum(sq, fq, p, t, i)
  <2>0. Places(a \o b, i) = Places(a, i) + Places(b, i)
    BY <1>1, PlacesConcat
  <2>1. /\ Places(t \o p, i) = Places(t, i) + Places(p, i)
        /\ Places(t \o a, i) = Places(t, i) + Places(a, i)
        /\ Places(p, i) = Places(a, i) + Places(b, i)
    BY <1>1, <2>0, PlacesConcat
  <2>2. Places(<<>>, i) = 0
    BY PlacesEmpty
  <2>3. /\ Places(a, i) \in Nat /\ Places(b, i) \in Nat /\ Places(t, i) \in Nat
        /\ Places(sq, i) \in Nat /\ Places(fq, i) \in Nat
    BY <1>1, PlaceSets
  <2> QED
    BY <2>1, <2>2, <2>3 DEF Sum
<1>4. NumberedIn(a, n) /\ NumberedIn(t, n) /\ NumberedIn(p, n)
  <2>1. NumberedIn(p, n) /\ NumberedIn(t, n)
    BY DEF Delivers
  <2>2. NumberedIn(a \o b, n) <=> NumberedIn(a, n) /\ NumberedIn(b, n)
    BY <1>1, NumbersConcat
  <2> QED
    BY <1>1, <2>1, <2>2
<1>5. NumberedIn(t \o a, n) /\ NumberedIn(t \o p, n) /\ NumberedIn(<<>>, n)
  <2>1. NumberedIn(t \o a, n) /\ NumberedIn(t \o p, n)
    BY <1>1, <1>4, NumbersConcat
  <2>2. NumberedIn(<<>>, n)
    BY DEF NumberedIn
  <2> QED
    BY <2>1, <2>2
<1>6. InOrderOf((t \o a) \o sq, "steer") /\ InOrderOf((t \o a) \o fq, "followUp")
  <2>1. InOrderOf(((t \o a) \o b) \o sq, "steer") /\ InOrderOf(((t \o a) \o b) \o fq, "followUp")
    BY <1>2 DEF Delivers
  <2> QED
    BY <1>1, <1>2, <2>1, OrderLeaveOut
<1>7. Delivers(sq, fq, <<>>, t \o p, n, lossy)
  BY <1>2, <1>3, <1>5 DEF Delivers
<1>8. Delivers(sq, fq, <<>>, t \o a, n, TRUE)
  <2>1. ASSUME NEW i \in 1..n
        PROVE  Sum(sq, fq, <<>>, t \o a, i) <= 1
    <3>1. Sum(sq, fq, p, t, i) <= 1
      BY DEF Delivers
    <3>2. /\ Places(t \o a, i) \in Nat /\ Places(sq, i) \in Nat /\ Places(fq, i) \in Nat
          /\ Places(p, i) \in Nat /\ Places(t, i) \in Nat
      BY <1>2, PlaceSets
    <3>3. Places(<<>>, i) = 0
      BY PlacesEmpty
    <3> QED
      BY <1>3, <3>1, <3>2, <3>3 DEF Sum
  <2> QED
    BY <1>2, <1>5, <1>6, <2>1 DEF Delivers
<1> QED
  BY <1>7, <1>8 DEF a


LEMMA Regroup ==
  ASSUME NEW s \in Seq(Message), NEW t \in Seq(Message), NEW u \in Seq(Message)
  PROVE  (s \o t) \o u = s \o (t \o u)
BY ConcatAssociative

\* A message is queued: it gets the next number.
LEMMA DeliversSteer ==
  ASSUME NEW sq \in Seq(Message), NEW fq \in Seq(Message), NEW p \in Seq(Message),
         NEW t \in Seq(Message), NEW n \in Nat, NEW lossy, Steer(n + 1) \in Message,
         Delivers(sq, fq, p, t, n, lossy)
  PROVE  Delivers(Append(sq, Steer(n + 1)), fq, p, t, n + 1, lossy)
<1> DEFINE m == Steer(n + 1)
           x == <<m>>
           sq2 == sq \o x
           s == (t \o p) \o sq
<1>1. x \in Seq(Message) /\ Append(sq, m) = sq2 /\ t \o p \in Seq(Message) /\ s \in Seq(Message)
  BY AppendIsConcat, ConcatProperties
<1>2. m.role = "steer" /\ m.id = <<n + 1, 0>> /\ m \in Message
  BY DEF Steer
<1>3. NumberedIn(x, n + 1) /\ OfRole(x, "steer")
  BY <1>2 DEF NumberedIn, OfRole
<1>4. \A i : Places(x, i) = IF <<n + 1, 0>> = <<i, 0>> THEN 1 ELSE 0
  BY <1>2, PlacesOne DEF QueueRoles
<1> HIDE DEF x, m
<1>5. /\ NumberedIn(sq, n + 1) /\ NumberedIn(fq, n + 1) /\ NumberedIn(p, n + 1)
      /\ NumberedIn(t, n + 1) /\ NumberedIn(sq2, n + 1)
  <2>1. /\ NumberedIn(sq, n + 1) /\ NumberedIn(fq, n + 1) /\ NumberedIn(p, n + 1)
        /\ NumberedIn(t, n + 1)
    BY NumberedGrows DEF Delivers
  <2> QED
    BY <1>1, <1>3, <2>1, NumbersConcat
<1>6. OfRole(sq2, "steer")
  BY <1>1, <1>3 DEF OfRole, Delivers
<1>7. InOrderOf((t \o p) \o sq2, "steer")
  <2>1. NumberedIn(s, n)
    <3>1. NumberedIn(t \o p, n)
      BY NumbersConcat DEF Delivers
    <3> QED
      BY <1>1, <3>1, NumbersConcat DEF Delivers
  <2>2. InOrderOf(Append(s, m), "steer")
    <3>1. InOrderOf(s, "steer") /\ "steer" \in QueueRoles
      BY DEF Delivers, QueueRoles
    <3> HIDE DEF s
    <3> QED
      BY <1>1, <1>2, <2>1, <3>1, OrderAppend
  <2>3. Append(s, m) = s \o x
    <3> HIDE DEF s
    <3> QED
      BY <1>1, <1>2, AppendIsConcat DEF x
  <2>4. s \o x = (t \o p) \o sq2
    <3> DEFINE w == t \o p
    <3>1. w \in Seq(Message)
      BY <1>1
    <3> HIDE DEF w
    <3>2. (w \o sq) \o x = w \o (sq \o x)
      BY <1>1, <3>1, Regroup
    <3> QED
      BY <3>2 DEF w
  <2> QED
    BY <2>2, <2>3, <2>4
<1>8. ASSUME NEW i \in 1..(n + 1)
      PROVE  /\ Sum(sq2, fq, p, t, i) <= 1
             /\ lossy \/ Sum(sq2, fq, p, t, i) = 1
  <2>1. Places(sq2, i) = Places(sq, i) + Places(x, i)
    BY <1>1, PlacesConcat
  <2>2. /\ Places(sq, i) \in Nat /\ Places(fq, i) \in Nat /\ Places(p, i) \in Nat
        /\ Places(t, i) \in Nat
    BY PlaceSets
  <2>3. CASE i \in 1..n
    <3>1. Places(x, i) = 0
      BY <1>4, <2>3
    <3>2. Sum(sq2, fq, p, t, i) = Sum(sq, fq, p, t, i)
      BY <2>1, <2>2, <3>1 DEF Sum
    <3> QED
      BY <2>3, <3>2 DEF Delivers
  <2>4. CASE i = n + 1
    <3>1. Places(x, i) = 1
      BY <1>4, <2>4
    <3>2. Places(sq, i) = 0 /\ Places(fq, i) = 0 /\ Places(p, i) = 0 /\ Places(t, i) = 0
      BY <2>4, PlacesNone DEF Delivers
    <3>3. Sum(sq2, fq, p, t, i) = 1
      BY <2>1, <3>1, <3>2 DEF Sum
    <3> QED
      BY <3>3
  <2>5. i \in 1..n \/ i = n + 1
    OBVIOUS
  <2> QED
    BY <2>3, <2>4, <2>5
<1>9. /\ OfRole(fq, "followUp") /\ InOrderOf((t \o p) \o fq, "followUp")
  BY DEF Delivers
<1> HIDE DEF sq2
<1>10. Delivers(sq2, fq, p, t, n + 1, lossy)
  BY <1>5, <1>6, <1>7, <1>8, <1>9 DEF Delivers
<1> QED
  BY <1>1, <1>10 DEF m

LEMMA DeliversFollowUp ==
  ASSUME NEW sq \in Seq(Message), NEW fq \in Seq(Message), NEW p \in Seq(Message),
         NEW t \in Seq(Message), NEW n \in Nat, NEW lossy, FollowUp(n + 1) \in Message,
         Delivers(sq, fq, p, t, n, lossy)
  PROVE  Delivers(sq, Append(fq, FollowUp(n + 1)), p, t, n + 1, lossy)
<1> DEFINE m == FollowUp(n + 1)
           x == <<m>>
           fq2 == fq \o x
           s == (t \o p) \o fq
<1>1. x \in Seq(Message) /\ Append(fq, m) = fq2 /\ t \o p \in Seq(Message) /\ s \in Seq(Message)
  BY AppendIsConcat, ConcatProperties
<1>2. m.role = "followUp" /\ m.id = <<n + 1, 0>> /\ m \in Message
  BY DEF FollowUp
<1>3. NumberedIn(x, n + 1) /\ OfRole(x, "followUp")
  BY <1>2 DEF NumberedIn, OfRole
<1>4. \A i : Places(x, i) = IF <<n + 1, 0>> = <<i, 0>> THEN 1 ELSE 0
  BY <1>2, PlacesOne DEF QueueRoles
<1> HIDE DEF x, m
<1>5. /\ NumberedIn(sq, n + 1) /\ NumberedIn(fq, n + 1) /\ NumberedIn(p, n + 1)
      /\ NumberedIn(t, n + 1) /\ NumberedIn(fq2, n + 1)
  <2>1. /\ NumberedIn(sq, n + 1) /\ NumberedIn(fq, n + 1) /\ NumberedIn(p, n + 1)
        /\ NumberedIn(t, n + 1)
    BY NumberedGrows DEF Delivers
  <2> QED
    BY <1>1, <1>3, <2>1, NumbersConcat
<1>6. OfRole(fq2, "followUp")
  BY <1>1, <1>3 DEF OfRole, Delivers
<1>7. InOrderOf((t \o p) \o fq2, "followUp")
  <2>1. NumberedIn(s, n)
    <3>1. NumberedIn(t \o p, n)
      BY NumbersConcat DEF Delivers
    <3> QED
      BY <1>1, <3>1, NumbersConcat DEF Delivers
  <2>2. InOrderOf(Append(s, m), "followUp")
    <3>1. InOrderOf(s, "followUp") /\ "followUp" \in QueueRoles
      BY DEF Delivers, QueueRoles
    <3> HIDE DEF s
    <3> QED
      BY <1>1, <1>2, <2>1, <3>1, OrderAppend
  <2>3. Append(s, m) = s \o x
    <3> HIDE DEF s
    <3> QED
      BY <1>1, <1>2, AppendIsConcat DEF x
  <2>4. s \o x = (t \o p) \o fq2
    <3> DEFINE w == t \o p
    <3>1. w \in Seq(Message)
      BY <1>1
    <3> HIDE DEF w
    <3>2. (w \o fq) \o x = w \o (fq \o x)
      BY <1>1, <3>1, Regroup
    <3> QED
      BY <3>2 DEF w
  <2> QED
    BY <2>2, <2>3, <2>4
<1>8. ASSUME NEW i \in 1..(n + 1)
      PROVE  /\ Sum(sq, fq2, p, t, i) <= 1
             /\ lossy \/ Sum(sq, fq2, p, t, i) = 1
  <2>1. Places(fq2, i) = Places(fq, i) + Places(x, i)
    BY <1>1, PlacesConcat
  <2>2. /\ Places(sq, i) \in Nat /\ Places(fq, i) \in Nat /\ Places(p, i) \in Nat
        /\ Places(t, i) \in Nat
    BY PlaceSets
  <2>3. CASE i \in 1..n
    <3>1. Places(x, i) = 0
      BY <1>4, <2>3
    <3>2. Sum(sq, fq2, p, t, i) = Sum(sq, fq, p, t, i)
      BY <2>1, <2>2, <3>1 DEF Sum
    <3> QED
      BY <2>3, <3>2 DEF Delivers
  <2>4. CASE i = n + 1
    <3>1. Places(x, i) = 1
      BY <1>4, <2>4
    <3>2. Places(sq, i) = 0 /\ Places(fq, i) = 0 /\ Places(p, i) = 0 /\ Places(t, i) = 0
      BY <2>4, PlacesNone DEF Delivers
    <3>3. Sum(sq, fq2, p, t, i) = 1
      BY <2>1, <3>1, <3>2 DEF Sum
    <3> QED
      BY <3>3
  <2>5. i \in 1..n \/ i = n + 1
    OBVIOUS
  <2> QED
    BY <2>3, <2>4, <2>5
<1>9. /\ OfRole(sq, "steer") /\ InOrderOf((t \o p) \o sq, "steer")
  BY DEF Delivers
<1> HIDE DEF fq2
<1>10. Delivers(sq, fq2, p, t, n + 1, lossy)
  BY <1>5, <1>6, <1>7, <1>8, <1>9 DEF Delivers
<1> QED
  BY <1>1, <1>10 DEF m


\* A message of the model, a tool or the loop is added to the transcript.
AddsOwn ==
  \E m \in Message : m.role \notin QueueRoles /\ transcript' = Append(transcript, m)

LEMMA OwnMessages ==
  ASSUME IInv, [Next]_vars,
         \/ FailTruncated \/ PrepareImmediate \/ EmitResult \/ HandleFailure \/ ContinueAnswer
         \/ ToolSettles \/ \E n \in {0, MaxCalls} : AnswerFails(n)
         \/ \E stop \in {"stop", "toolUse", "length"}, n \in 0..MaxCalls : AnswerArrives(stop, n)
  PROVE  transcript' = transcript \/ AddsOwn
<1>i. LoopTypeOK /\ BatchOK
  BY DEF IInv
<1>t. /\ run \in Nat /\ answers \in Nat /\ Count \in Nat /\ calls \in Seq(Call)
      /\ \A i \in 1..Count : calls[i] \in Call
  BY <1>i DEF LoopTypeOK, Count
<1>m. /\ Continuation \in Message
      /\ \A c \in Call : Result(c) \in Message
      /\ \A stop \in Stops, cs \in Seq(Call) : Answer(stop, cs) \in Message
  BY <1>t, MessageTypes
<1>r. ASSUME NEW i \in 1..Count, transcript' = Append(transcript, Result(calls[i]))
      PROVE  AddsOwn
  <2>1. Result(calls[i]) \in Message
    BY <1>m, <1>t
  <2>2. Result(calls[i]).role \notin QueueRoles
    BY DEF Result, Msg, QueueRoles
  <2> QED
    BY <1>r, <2>1, <2>2 DEF AddsOwn
<1>a. ASSUME NEW stop \in Stops, NEW cs \in Seq(Call), Answered(Answer(stop, cs))
      PROVE  AddsOwn
  <2>1. Answer(stop, cs) \in Message
    BY <1>m
  <2>2. Answer(stop, cs).role \notin QueueRoles
    BY DEF Answer, QueueRoles
  <2> QED
    BY <1>a, <2>1, <2>2 DEF Answered, AddsOwn
<1>1. CASE FailTruncated
  <2>1. at \in 1..Count
    BY <1>1, <1>i DEF FailTruncated, BatchOK
  <2> QED
    BY <1>1, <1>r, <2>1 DEF FailTruncated
<1>2. CASE PrepareImmediate
  <2>1. at \in 1..Count
    BY <1>2, <1>i DEF PrepareImmediate, BatchOK, OneByOne, Preparing
  <2> QED
    BY <1>2, <1>r, <2>1 DEF PrepareImmediate, EndCall
<1>3. CASE EmitResult
  <2>1. CASE at \in Ended
    <3>1. at \in 1..Count
      BY <2>1 DEF Ended
    <3> QED
      BY <1>3, <1>r, <2>1, <3>1 DEF EmitResult
  <2>2. CASE at \notin Ended
    BY <1>3, <2>2 DEF EmitResult
  <2> QED
    BY <2>1, <2>2
<1>4. CASE HandleFailure
  <2> DEFINE message == [Answer("error", <<>>) EXCEPT
                           !.stop = IF aborted THEN "aborted" ELSE "error", !.id = <<0, run>>]
  <2>1. CASE transcript' = transcript
    BY <2>1
  <2>2. CASE transcript' = Append(transcript, message)
    <3>1. "error" \in Stops /\ <<>> \in Seq(Call)
      BY DEF Stops
    <3>2. Answer("error", <<>>) \in Message
      BY <1>m, <3>1
    <3>3. <<0, run>> \in Nat \X Nat /\ "aborted" \in Stops
      BY <1>t DEF Stops
    <3>4. message \in Message
      BY <3>1, <3>2, <3>3 DEF Message
    <3>5. message.role \notin QueueRoles
      BY DEF Answer, QueueRoles
    <3> HIDE DEF message
    <3> QED
      BY <2>2, <3>4, <3>5 DEF AddsOwn
  <2> QED
    BY <1>4, <2>1, <2>2 DEF HandleFailure
<1>5. CASE ContinueAnswer
  <2>1. Continuation.role \notin QueueRoles
    BY DEF Continuation, Msg, QueueRoles
  <2> QED
    BY <1>5, <1>m, <2>1 DEF ContinueAnswer, AddsOwn
<1>6. CASE ToolSettles
  <2>1. PICK i \in 1..MaxCalls : Settle(i)
    BY <1>6 DEF ToolSettles
  <2>2. i \in 1..Count
    BY <2>1 DEF Settle, Executing
  <2> QED
    BY <1>r, <2>1, <2>2 DEF Settle, EndCall
<1>7. ASSUME NEW n \in {0, MaxCalls}, AnswerFails(n)
      PROVE  AddsOwn
  <2>1. NewCalls(n) \in Seq(Call) /\ <<>> \in Seq(Call)
    BY <1>t, BoundsAssumption, CallsDiffer
  <2>2. "error" \in Stops /\ "aborted" \in Stops
    BY DEF Stops
  <2> QED
    BY <1>7, <1>a, <2>1, <2>2 DEF AnswerFails
<1>8. ASSUME NEW stop \in {"stop", "toolUse", "length"}, NEW n \in 0..MaxCalls, AnswerArrives(stop, n)
      PROVE  AddsOwn
  <2>1. NewCalls(n) \in Seq(Call) /\ stop \in Stops
    BY <1>t, BoundsAssumption, CallsDiffer DEF Stops
  <2> QED
    BY <1>8, <1>a, <2>1 DEF AnswerArrives
<1> QED
  BY <1>1, <1>2, <1>3, <1>4, <1>5, <1>6, <1>7, <1>8

\* Every step keeps each message of the queues in one place and in order.
LEMMA DeliverKept ==
  ASSUME IInv, DeliverInv, [Next]_vars
  PROVE  DeliverInv'
<1> USE DEF vars, agentvars, loopvars, toolvars, boundvars
<1> DEFINE sq == steeringQueue
           fq == followUpQueue
           p == pendingMessages
           t == transcript
           n == queued
           lossy == failures # 0
<1>t. /\ sq \in Seq(Message) /\ fq \in Seq(Message) /\ p \in Seq(Message) /\ t \in Seq(Message)
      /\ n \in Nat /\ failures \in Nat /\ run \in Nat /\ answers \in Nat
  BY DEF IInv, LoopTypeOK
<1>t2. /\ sq' \in Seq(Message) /\ fq' \in Seq(Message) /\ p' \in Seq(Message) /\ t' \in Seq(Message)
       /\ failures' \in Nat
  BY TypeKept DEF LoopTypeOK
<1>i. TakenOK /\ Delivers(sq, fq, p, t, n, lossy)
  BY DEF DeliverInv
<1>m. /\ \A k \in Nat : Steer(k) \in Message /\ FollowUp(k) \in Message /\ Prompt(k) \in Message
  BY <1>t, MessageTypes
<1>p. ASSUME NEW r
      PROVE  Prompt(r).role \notin QueueRoles
  BY DEF Prompt, QueueRoles
<1> HIDE DEF sq, fq, p, t, n, lossy
<1>x. TakenOK <=> (pc \notin {"prompts", "turn"} => p = <<>>)
  BY DEF TakenOK, p
<1>y. TakenOK' <=> (pc' \notin {"prompts", "turn"} => p' = <<>>)
  BY DEF TakenOK, p
\* What was right before a failure is right after it.
<1>l. ASSUME NEW a, NEW b, NEW c, NEW d, NEW e, Delivers(a, b, c, d, e, lossy),
             failures' = failures \/ failures' = failures + 1
      PROVE  Delivers(a, b, c, d, e, lossy')
  <2>1. lossy => lossy'
    BY <1>l, <1>t DEF lossy
  <2> QED
    BY <1>l, <2>1, Zenon DEF Delivers
<1>d. ASSUME TakenOK', Delivers(sq', fq', p', t', n', lossy')
      PROVE  DeliverInv'
  BY <1>d DEF DeliverInv, sq, fq, p, t, n, lossy
<1>1. CASE \/ Abort \/ Request \/ StartTool \/ Prepare \/ NextCall \/ BatchEnd \/ TurnEnd
           \/ AgentEnd \/ FinishRun \/ StraySettle \/ UNCHANGED vars
  <2>1. /\ UNCHANGED <<sq, fq, p, t, n>> /\ failures' = failures
        /\ pc' = pc \/ pc \notin {"prompts", "turn"}
    BY <1>1 DEF Abort, Request, StartTool, Prepare, NextCall, BatchEnd, LeaveBatch, TurnEnd, AgentEnd,
                FinishRun, LeaveLoop, StraySettle, StraySettles, sq, fq, p, t, n
  <2>2. TakenOK'
    BY <1>i, <1>x, <1>y, <2>1
  <2>3. Delivers(sq', fq', p', t', n', lossy)
    BY <1>i, <2>1
  <2> QED
    BY <1>d, <1>l, <2>1, <2>2, <2>3
<1>2. CASE \/ FailTruncated \/ PrepareImmediate \/ EmitResult \/ HandleFailure \/ ContinueAnswer
           \/ ToolSettles \/ \E k \in {0, MaxCalls} : AnswerFails(k)
           \/ \E stop \in {"stop", "toolUse", "length"}, k \in 0..MaxCalls : AnswerArrives(stop, k)
  <2>1. /\ UNCHANGED <<sq, fq, p, n>> /\ (failures' = failures \/ failures' = failures + 1)
        /\ pc \notin {"prompts", "turn"}
    BY <1>2 DEF FailTruncated, PrepareImmediate, EmitResult, HandleFailure, ContinueAnswer, ToolSettles,
                Settle, AnswerFails, AnswerArrives, Answered, sq, fq, p, n
  <2>2. p = <<>>
    BY <1>i, <1>x, <2>1
  <2>3. t' = t \/ AddsOwn
    BY <1>2, OwnMessages DEF t
  <2>4. Delivers(sq, fq, <<>>, t', n, lossy)
    <3>1. CASE t' = t
      BY <1>i, <2>2, <3>1
    <3>2. CASE AddsOwn
      <4>1. PICK m \in Message : m.role \notin QueueRoles /\ t' = Append(t, m)
        BY <3>2 DEF AddsOwn, t
      <4> QED
        BY <1>i, <1>t, <2>2, <4>1, DeliversAdd
    <3> QED
      BY <2>3, <3>1, <3>2
  <2>5. Delivers(sq', fq', p', t', n', lossy)
    BY <2>1, <2>2, <2>4
  <2> QED
    BY <1>d, <1>l, <1>y, <2>1, <2>2, <2>5
<1>3. CASE SteerCall
  <2>1. /\ sq' = Append(sq, Steer(n + 1)) /\ n' = n + 1 /\ UNCHANGED <<fq, p, t, pc>>
        /\ failures' = failures
    BY <1>3 DEF SteerCall, sq, fq, p, t, n
  <2>2. Delivers(sq', fq', p', t', n', lossy)
    BY <1>i, <1>m, <1>t, <2>1, DeliversSteer
  <2> QED
    BY <1>d, <1>i, <1>l, <1>x, <1>y, <2>1, <2>2
<1>4. CASE FollowUpCall
  <2>1. /\ fq' = Append(fq, FollowUp(n + 1)) /\ n' = n + 1 /\ UNCHANGED <<sq, p, t, pc>>
        /\ failures' = failures
    BY <1>4 DEF FollowUpCall, sq, fq, p, t, n
  <2>2. Delivers(sq', fq', p', t', n', lossy)
    BY <1>i, <1>m, <1>t, <2>1, DeliversFollowUp
  <2> QED
    BY <1>d, <1>i, <1>l, <1>x, <1>y, <2>1, <2>2
\* Something is taken from a queue.
<1>s. ASSUME NEW taken \in Drains(sq), p = <<>>, p' = taken, sq' = Undrained(sq, taken),
             UNCHANGED <<fq, t, n>>, failures' = failures
      PROVE  Delivers(sq', fq', p', t', n', lossy')
  <2>1. sq = taken \o sq' /\ taken \in Seq(Message)
    BY <1>s, <1>t, DrainSplits, DrainTypes
  <2>2. Delivers(taken \o sq', fq, <<>>, t, n, lossy)
    BY <1>i, <1>s, <2>1
  <2>3. Delivers(sq', fq, taken, t, n, lossy)
    BY <1>t, <1>t2, <2>1, <2>2, DeliversTakeSteering
  <2> QED
    BY <1>l, <1>s, <2>3
<1>f. ASSUME NEW taken \in Drains(fq), p = <<>>, p' = taken, fq' = Undrained(fq, taken),
             UNCHANGED <<sq, t, n>>, failures' = failures
      PROVE  Delivers(sq', fq', p', t', n', lossy')
  <2>1. fq = taken \o fq' /\ taken \in Seq(Message)
    BY <1>f, <1>t, DrainSplits, DrainTypes
  <2>2. Delivers(sq, taken \o fq', <<>>, t, n, lossy)
    BY <1>i, <1>f, <2>1
  <2>3. Delivers(sq, fq', taken, t, n, lossy)
    BY <1>t, <1>t2, <2>1, <2>2, DeliversTakeFollowUp
  <2> QED
    BY <1>f, <1>l, <2>3
<1>5. CASE PromptCall
  <2>1. /\ UNCHANGED <<sq, fq, t, n>> /\ p' = <<Prompt(run + 1)>> /\ pc = "idle" /\ pc' = "prompts"
        /\ failures' = failures
    BY <1>5 DEF PromptCall, StartRun, sq, fq, t, n, p
  <2>2. p = <<>>
    BY <1>i, <1>x, <2>1
  <2>3. Prompt(run + 1) \in Message /\ Prompt(run + 1).role \notin QueueRoles
    BY <1>m, <1>p, <1>t
  <2>4. Delivers(sq, fq, <<Prompt(run + 1)>>, t, n, lossy)
    BY <1>i, <1>t, <2>2, <2>3, DeliversPrompt
  <2>5. Delivers(sq', fq', p', t', n', lossy)
    BY <2>1, <2>4
  <2> QED
    BY <1>d, <1>l, <1>y, <2>1, <2>5
<1>6. CASE ContinueTranscript
  <2>1. /\ UNCHANGED <<sq, fq, t, n>> /\ p' = <<>> /\ pc = "idle"
        /\ failures' = failures
    BY <1>6 DEF ContinueTranscript, StartRun, sq, fq, t, n, p
  <2>2. p = <<>>
    BY <1>i, <1>x, <2>1
  <2>5. Delivers(sq', fq', p', t', n', lossy)
    BY <1>i, <2>1, <2>2
  <2> QED
    BY <1>d, <1>l, <1>y, <2>1, <2>5
<1>7. CASE ContinueSteering
  <2>1. PICK taken \in Drains(sq) : StartRun(taken, TRUE) /\ sq' = Undrained(sq, taken)
    BY <1>7 DEF ContinueSteering, sq
  <2>2. /\ UNCHANGED <<fq, t, n>> /\ p' = taken /\ pc = "idle" /\ pc' = "prompts"
        /\ failures' = failures
    BY <1>7, <2>1 DEF ContinueSteering, StartRun, fq, t, n, p
  <2>3. p = <<>>
    BY <1>i, <1>x, <2>2
  <2> QED
    BY <1>d, <1>s, <1>y, <2>1, <2>2, <2>3
<1>8. CASE ContinueFollowUp
  <2>1. PICK taken \in Drains(fq) : StartRun(taken, FALSE) /\ fq' = Undrained(fq, taken)
    BY <1>8 DEF ContinueFollowUp, fq
  <2>2. /\ UNCHANGED <<sq, t, n>> /\ p' = taken /\ pc = "idle" /\ pc' = "prompts"
        /\ failures' = failures
    BY <1>8, <2>1 DEF ContinueFollowUp, StartRun, sq, t, n, p
  <2>3. p = <<>>
    BY <1>i, <1>x, <2>2
  <2> QED
    BY <1>d, <1>f, <1>y, <2>1, <2>2, <2>3
<1>9. CASE InitialPoll
  <2>1. PICK taken \in IF skipPoll THEN {<<>>} ELSE Drains(sq) :
          p' = taken /\ sq' = Undrained(sq, taken)
    BY <1>9 DEF InitialPoll, sq, p
  <2>2. /\ UNCHANGED <<fq, t, n>> /\ pc = "initialPoll" /\ pc' = "turn" /\ failures' = failures
    BY <1>9 DEF InitialPoll, fq, t, n
  <2>3. p = <<>>
    BY <1>i, <1>x, <2>2
  <2>4. Delivers(sq', fq', p', t', n', lossy')
    <3>1. CASE skipPoll
      <4>1. Undrained(sq, <<>>) = sq
        BY <1>t, SubSeqFull DEF Undrained
      <4>2. UNCHANGED <<sq, fq, p, t, n>>
        BY <2>1, <2>2, <2>3, <3>1, <4>1
      <4>3. Delivers(sq', fq', p', t', n', lossy)
        BY <1>i, <4>2
      <4> QED
        BY <1>l, <2>2, <4>3
    <3>2. CASE ~skipPoll
      BY <1>s, <2>1, <2>2, <2>3, <3>2
    <3> QED
      BY <3>1, <3>2
  <2> QED
    BY <1>d, <1>y, <2>2, <2>4
<1>10. CASE Poll
  <2>1. PICK taken \in Drains(sq) : p' = taken /\ sq' = Undrained(sq, taken)
    BY <1>10 DEF Poll, sq, p
  <2>2. /\ UNCHANGED <<fq, t, n>> /\ pc = "poll" /\ failures' = failures
        /\ pc' = "turn" \/ sq = <<>>
    BY <1>10 DEF Poll, fq, t, n, sq
  <2>3. p = <<>>
    BY <1>i, <1>x, <2>2
  <2>4. sq = <<>> => p' = <<>>
    <3>1. SubSeq(<<>>, 1, 0) = <<>>
      BY SubSeqEmpty
    <3> QED
      BY <2>1, <3>1 DEF Drains
  <2> QED
    BY <1>d, <1>s, <1>y, <2>1, <2>2, <2>3, <2>4
<1>11. CASE FollowUpPoll
  <2>1. PICK taken \in Drains(fq) : p' = taken /\ fq' = Undrained(fq, taken)
    BY <1>11 DEF FollowUpPoll, fq, p
  <2>2. /\ UNCHANGED <<sq, t, n>> /\ pc = "followUp" /\ failures' = failures
        /\ pc' = "turn" \/ fq = <<>>
    BY <1>11 DEF FollowUpPoll, sq, t, n, fq
  <2>3. p = <<>>
    BY <1>i, <1>x, <2>2
  <2>4. fq = <<>> => p' = <<>>
    <3>1. SubSeq(<<>>, 1, 0) = <<>>
      BY SubSeqEmpty
    <3> QED
      BY <2>1, <3>1 DEF Drains
  <2> QED
    BY <1>d, <1>f, <1>y, <2>1, <2>2, <2>3, <2>4
<1>12. CASE EmitPrompts \/ Turn
  <2>1. UNCHANGED <<sq, fq, n>> /\ t' = t \o p /\ p' = <<>> /\ failures' = failures
    BY <1>12 DEF EmitPrompts, Turn, sq, fq, n, t, p
  <2>2. 0 \in 0..Len(p)
    BY <1>t
  <2>3. Delivers(sq, fq, <<>>, t \o p, n, lossy)
    BY <1>i, <1>t, <2>2, DeliversEmit
  <2>4. Delivers(sq', fq', p', t', n', lossy)
    BY <2>1, <2>3
  <2> QED
    BY <1>d, <1>l, <1>y, <2>1, <2>4
<1>13. CASE Fail
  <2>1. PICK k \in IF pc \in {"prompts", "turn"} THEN 0..Len(p) ELSE {0} :
          t' = t \o SubSeq(p, 1, k)
    BY <1>13 DEF Fail, t, p
  <2>2. UNCHANGED <<sq, fq, n>> /\ p' = <<>> /\ failures' = failures + 1
    BY <1>13 DEF Fail, sq, fq, n, p
  <2>3. k \in 0..Len(p)
    BY <1>t, <2>1
  <2>4. Delivers(sq, fq, <<>>, t \o SubSeq(p, 1, k), n, TRUE)
    BY <1>i, <1>t, <2>3, DeliversEmit
  <2>5. lossy' <=> TRUE
    BY <1>t, <2>2 DEF lossy
  <2>6. Delivers(sq, fq, <<>>, t \o SubSeq(p, 1, k), n, lossy')
    BY <2>4, <2>5, Zenon DEF Delivers
  <2>7. Delivers(sq', fq', p', t', n', lossy')
    BY <2>1, <2>2, <2>6
  <2> QED
    BY <1>d, <1>y, <2>2, <2>7
<1> QED
  BY <1>1, <1>2, <1>3, <1>4, <1>5, <1>6, <1>7, <1>8, <1>9, <1>10, <1>11, <1>12, <1>13
  DEF Next, UserStep, ModelStep, LoopStep

LEMMA InitDelivers ==
  ASSUME Init
  PROVE  DeliverInv
<1>1. /\ steeringQueue = <<>> /\ followUpQueue = <<>> /\ pendingMessages = <<>>
      /\ transcript = <<>> /\ queued = 0
  BY DEF Init
<1>2. <<>> \in Seq(Message) /\ (<<>> \o <<>>) \o <<>> = <<>>
  BY ConcatEmptySeq
<1>3. NumberedIn(<<>>, 0) /\ \A role : OfRole(<<>>, role) /\ InOrderOf(<<>>, role)
  BY DEF NumberedIn, OfRole, InOrderOf
<1> QED
  BY <1>1, <1>2, <1>3 DEF DeliverInv, TakenOK, Delivers

\* Every queued message is delivered once and in the order of its queue, however
\* the loop drains the queues and wherever a run ends; only a run that fails
\* while it injects a message loses it.
THEOREM QueuesAreDelivered == Spec => []QueuesDeliver
<1>1. Init => DeliverInv
  BY InitDelivers
<1>2. IInv /\ DeliverInv /\ [Next]_vars => DeliverInv'
  BY DeliverKept
<1>3. DeliverInv => QueuesDeliver
  <2> SUFFICES ASSUME DeliverInv
               PROVE  QueuesDeliver
    OBVIOUS
  <2>1. DeliveredOnce
    BY DEF DeliverInv, Delivers, DeliveredOnce, Sum
  <2>2. DeliveredInOrder
    <3> SUFFICES ASSUME NEW role \in {"steer", "followUp"}
                 PROVE  InOrderOf((transcript \o pendingMessages)
                                    \o (IF role = "steer" THEN steeringQueue ELSE followUpQueue), role)
      BY DEF DeliveredInOrder, InOrderOf
    <3>1. CASE role = "steer"
      BY <3>1 DEF DeliverInv, Delivers
    <3>2. CASE role = "followUp"
      BY <3>2 DEF DeliverInv, Delivers
    <3> QED
      BY <3>1, <3>2
  <2> QED
    BY <2>1, <2>2 DEF QueuesDeliver
<1> QED
  BY <1>1, <1>2, <1>3, CopiesAndCalls, PTL DEF Spec
=============================================================================
