-------------------------- MODULE AgentHarnessProofs --------------------------
(***************************************************************************)
(* For any prompts, messages, writes and failures: the harness says "turn" *)
(* while a run works, if no prompt is called before an earlier call has    *)
(* returned; and if nothing is, what is written or queued is in one place, *)
(* and the provider is asked with what the session holds.                  *)
(*                                                                         *)
(* The runs take turns (AloneOK), and a run that fails after it settled    *)
(* only goes on to settle again (RunOK).  An append has the leaf for its   *)
(* parent when it ends, because nothing else is appended meanwhile (FlyOK).*)
(***************************************************************************)
EXTENDS AgentHarness, SequenceTheorems, FiniteSetTheorems, TLAPS

Kind == {"failure", "reply", "results", "continuation", "compaction"}
Entry == Prompt \cup Message \cup Write \cup Kind
Recordable == Prompt \cup Message \cup Kind

Label ==
  {"none", "starting", "taken", "recording", "model", "turn end", "save point", "snapshot",
   "poll", "poll follow-up", "drained", "flushing", "settled", "done"}

Run ==
  [list : Seq(Recordable), then : Label \cup {"tools"},
   back : {"save point", "settle", "snapshot", "finally"},
   reply : {"none", "calls", "length", "final", "stop"}, context : Seq(Entry),
   thrown : BOOLEAN, failing : BOOLEAN, rejected : BOOLEAN, aborted : BOOLEAN,
   continued : BOOLEAN, replaced : BOOLEAN, replies : Nat]

HTypeOK ==
  /\ phase \in {"idle", "turn", "structural"}
  /\ pending \in Seq(Write)
  /\ steerQueue \in Seq(Message) /\ followUpQueue \in Seq(Message)
  /\ nextTurnQueue \in Seq(Message)
  /\ branch \in Seq(Entry)
  /\ flying \in [Prompt \cup Write -> [entry : Entry \cup {None}, base : Seq(Entry)]]
  /\ pc \in [Prompt -> Label]
  /\ run \in [Prompt -> Run]
  /\ late \in [Prompt -> BOOLEAN]
  /\ accepted \subseteq Write
  /\ queued \subseteq Message

AloneOK == \A p, q \in Prompt : Active(p) /\ Active(q) => p = q

RunOK(p) ==
  /\ pc[p] \in {"none", "starting", "taken"} =>
       /\ run[p].then = "poll" /\ run[p].back = "save point"
       /\ ~run[p].failing /\ ~run[p].continued
  /\ run[p].list # <<>> => pc[p] \in {"taken", "recording", "drained"}
  /\ pc[p] \in {"taken", "drained"} => run[p].list \in Seq(Message)
  /\ run[p].back = "finally" => pc[p] \in {"flushing", "done"}
  /\ run[p].rejected => run[p].back = "finally"
  /\ pc[p] = "recording" => run[p].then \in {"poll", "model", "tools", "turn end"}
  /\ pc[p] = "drained" => run[p].then \in {"poll", "poll follow-up"}
  /\ run[p].failing =>
       /\ run[p].reply = "stop"
       /\ pc[p] \in {"recording", "turn end", "flushing", "save point", "settled", "done"}
       /\ pc[p] = "recording" => run[p].then = "turn end"
       /\ pc[p] = "flushing" => run[p].back # "snapshot"
  /\ late[p] => run[p].failing
  /\ flying[p] # NoAppend =>
       \/ pc[p] = "recording" /\ run[p].list # <<>> /\ flying[p].entry = Head(run[p].list)
       \/ pc[p] = "flushing" /\ pending # <<>> /\ flying[p].entry = Head(pending)

PInv == HTypeOK /\ AloneOK /\ (\A p \in Prompt : RunOK(p)) /\ PhaseIsTurn

\* One append at a time, of an entry whose parent is the leaf.
FlyOK ==
  /\ \A a, b \in Prompt \cup Write : flying[a] # NoAppend /\ flying[b] # NoAppend => a = b
  /\ \A a \in Prompt \cup Write : flying[a] # NoAppend => flying[a].base = branch
  /\ phase # "idle" => ~WritesInFlight
  /\ phase = "structural" => \A a \in Prompt \cup Write : flying[a] = NoAppend

WritesOK ==
  \A w \in Write :
    /\ flying[w] # NoAppend =>
         flying[w].entry = w /\ w \in accepted /\ Count(w, pending) = 0 /\ Count(w, branch) = 0
    /\ w \notin accepted => Count(w, pending) = 0 /\ Count(w, branch) = 0
    /\ w \in accepted => flying[w] # NoAppend \/ w \in left \/ Count(w, pending) + Count(w, branch) = 1

Held(m) == \E p \in Prompt : run[p].list # <<>> /\ m \in Range(run[p].list)

One(b) == IF b THEN 1 ELSE 0

Elsewhere(m) ==
  Count(m, steerQueue) + Count(m, followUpQueue) + Count(m, nextTurnQueue) + Count(m, branch)
    + One(m \in left) + One(m \in dropped)

MessagesOK ==
  \A m \in Message :
    /\ Elsewhere(m) + One(Held(m)) = One(m \in queued)
    /\ \A p \in Prompt : Count(m, run[p].list) <= 1

ContextOK(p) ==
  /\ pc[p] = "taken" => run[p].context = branch
  /\ pc[p] = "recording" /\ run[p].then \in {"poll", "model"} /\ ~run[p].continued =>
       run[p].context = branch \o run[p].list
  /\ pc[p] \in {"poll", "poll follow-up", "drained", "model"} /\ ~run[p].continued =>
       run[p].context = branch

KInv == FlyOK /\ WritesOK /\ MessagesOK /\ \A p \in Prompt : ContextOK(p)

-----------------------------------------------------------------------------
(* A run takes a step.                                                     *)

LEMMA SingleSeq ==
  ASSUME NEW S, NEW x \in S PROVE <<x>> \in Seq(S) /\ Head(<<x>>) = x /\ Tail(<<x>>) = <<>>
  OBVIOUS

LEMMA Flights ==
  /\ NoAppend \in [entry : Entry \cup {None}, base : Seq(Entry)]
  /\ \A e \in Entry, b \in Seq(Entry) :
       [entry |-> e, base |-> b] \in [entry : Entry \cup {None}, base : Seq(Entry)]
<1>1. <<>> \in Seq(Entry)
  BY EmptySeq
<1> QED
  BY <1>1 DEF NoAppend

LEMMA SetRun ==
  ASSUME HTypeOK, NEW p \in Prompt, NEW r \in Run, run' = [run EXCEPT ![p] = r]
  PROVE  /\ run' \in [Prompt -> Run] /\ run'[p] = r
         /\ \A q \in Prompt \ {p} : run'[q] = run[q]
  BY DEF HTypeOK

LEMMA GoFacts ==
  ASSUME HTypeOK, NEW p \in Prompt, NEW label \in Label, Go(p, label)
  PROVE  /\ pc' \in [Prompt -> Label] /\ pc'[p] = label
         /\ \A q \in Prompt \ {p} : pc'[q] = pc[q]
  BY DEF HTypeOK, Go

Apart(p) == \A q \in Prompt \ {p} : ~Active(q)

LEMMA Turns ==
  ASSUME "prompt" \notin Detached, NEW p \in Prompt, MayStep(p)
  PROVE  phase # "structural" /\ Apart(p)
  BY DEF MayStep, Apart

\* Nothing of the other runs changes.
Others(p) ==
  \A q \in Prompt \ {p} :
    pc'[q] = pc[q] /\ run'[q] = run[q] /\ late'[q] = late[q] /\ flying'[q] = flying[q]

LEMMA OwnStep ==
  ASSUME PInv, NEW p \in Prompt, Apart(p), Others(p), HTypeOK', RunOK(p)',
         \/ phase' = phase /\ (Busy(p)' <=> Busy(p))
         \/ phase' = "idle" /\ ~Busy(p)'
  PROVE  PInv'
<1>1. AloneOK'
  BY DEF AloneOK, Active, Apart, Others
<1>2. ASSUME NEW q \in Prompt \ {p} PROVE RunOK(q)' /\ ~Busy(q) /\ ~Busy(q)'
  <2>1. RunOK(q) /\ ~Active(q)
    BY DEF PInv, Apart
  <2>2. flying[q] = NoAppend
    BY <2>1 DEF RunOK, Active
  <2> QED
    BY <2>1, <2>2 DEF Others, RunOK, Busy, Active
<1>3. PhaseIsTurn'
  <2>1. phase = "turn" <=> Busy(p)
    BY <1>2 DEF PInv, PhaseIsTurn
  <2>2. phase' = "turn" <=> Busy(p)'
    BY <2>1
  <2> QED
    BY <1>2, <2>2 DEF PhaseIsTurn
<1> QED
  BY <1>1, <1>2, <1>3 DEF PInv

LEMMA StartPromptPInv ==
  ASSUME PInv, "prompt" \notin Detached, NEW p \in Prompt, StartPrompt(p) PROVE PInv'
<1>1. /\ pc[p] = "none" /\ (\A q \in Prompt : ~Active(q)) /\ phase' = "turn"
      /\ Go(p, "starting")
      /\ UNCHANGED <<pending, steerQueue, followUpQueue, nextTurnQueue, branch, left, flying, run,
                     late, accepted, queued>>
  BY DEF StartPrompt, queues, session, Active
<1>2. HTypeOK /\ RunOK(p)
  BY DEF PInv
<1>3. /\ pc' \in [Prompt -> Label] /\ pc'[p] = "starting"
      /\ \A q \in Prompt \ {p} : pc'[q] = pc[q]
  BY <1>1, <1>2, GoFacts DEF Label
<1>4. HTypeOK'
  BY <1>1, <1>2, <1>3 DEF HTypeOK
<1>5. RunOK(p)'
  BY <1>1, <1>2, <1>3 DEF RunOK
<1>6. Busy(p)'
  BY <1>1, <1>2, <1>3 DEF Busy, Active, RunOK
<1>7. ASSUME NEW q \in Prompt \ {p} PROVE RunOK(q)' /\ ~Active(q)'
  BY <1>1, <1>3 DEF PInv, RunOK, Active
<1> QED
  BY <1>1, <1>4, <1>5, <1>6, <1>7 DEF PInv, AloneOK, PhaseIsTurn

LEMMA TakeNextTurnPInv ==
  ASSUME PInv, "prompt" \notin Detached, NEW p \in Prompt, TakeNextTurn(p) PROVE PInv'
<1> DEFINE r == [run[p] EXCEPT !.context = branch, !.list = nextTurnQueue]
<1>1. /\ pc[p] = "starting" /\ MayStep(p) /\ run' = [run EXCEPT ![p] = r]
      /\ nextTurnQueue' = <<>> /\ Go(p, "taken")
      /\ UNCHANGED <<phase, pending, steerQueue, followUpQueue, branch, left, flying, late,
                     accepted, queued>>
  BY DEF TakeNextTurn, session
<1>2. HTypeOK /\ RunOK(p)
  BY DEF PInv
<1>3. /\ r \in Run /\ r.list = nextTurnQueue /\ nextTurnQueue \in Seq(Message)
      /\ r.then = run[p].then /\ r.back = run[p].back /\ r.failing = run[p].failing
      /\ r.continued = run[p].continued /\ r.rejected = run[p].rejected
  <2>1. nextTurnQueue \in Seq(Recordable) /\ branch \in Seq(Entry) /\ run[p] \in Run
    BY <1>2, SeqMonotonic DEF HTypeOK, Recordable
  <2> QED
    BY <1>2, <2>1 DEF Run, HTypeOK
<1> HIDE DEF r
<1>4. /\ run' \in [Prompt -> Run] /\ run'[p] = r /\ \A q \in Prompt \ {p} : run'[q] = run[q]
  BY <1>1, <1>2, <1>3, SetRun
<1>5. /\ pc' \in [Prompt -> Label] /\ pc'[p] = "taken" /\ \A q \in Prompt \ {p} : pc'[q] = pc[q]
  BY <1>1, <1>2, GoFacts DEF Label
<1>6. HTypeOK'
  BY <1>1, <1>2, <1>4, <1>5 DEF HTypeOK
<1>7. RunOK(p)'
  BY <1>1, <1>2, <1>3, <1>4, <1>5 DEF RunOK
<1>8. Busy(p)' <=> Busy(p)
  BY <1>1, <1>3, <1>4, <1>5 DEF Busy, Active
<1> QED
  BY <1>1, <1>4, <1>5, <1>6, <1>7, <1>8, Turns, OwnStep DEF Others

\* A prompt that rejects before its run has begun.
LEMMA EndsPInv ==
  ASSUME PInv, NEW p \in Prompt, Apart(p), pc[p] \in {"starting", "taken"}, Go(p, "done"),
         phase' = "idle", NEW r \in Run, run' = [run EXCEPT ![p] = r],
         r.list = <<>>, r.back = run[p].back, r.failing = run[p].failing,
         r.rejected = run[p].rejected,
         nextTurnQueue' \in Seq(Message),
         UNCHANGED <<pending, steerQueue, followUpQueue, branch, flying, late, accepted, queued>>
  PROVE  PInv'
<1>1. HTypeOK /\ RunOK(p)
  BY DEF PInv
<1>2. /\ run' \in [Prompt -> Run] /\ run'[p] = r /\ \A q \in Prompt \ {p} : run'[q] = run[q]
  BY <1>1, SetRun
<1>3. /\ pc' \in [Prompt -> Label] /\ pc'[p] = "done" /\ \A q \in Prompt \ {p} : pc'[q] = pc[q]
  BY <1>1, GoFacts DEF Label
<1>4. HTypeOK'
  BY <1>1, <1>2, <1>3 DEF HTypeOK
<1>5. RunOK(p)'
  BY <1>1, <1>2, <1>3 DEF RunOK
<1>6. ~Busy(p)'
  BY <1>3 DEF Busy, Active
<1> QED
  BY <1>2, <1>3, <1>4, <1>5, <1>6, OwnStep DEF Others

LEMMA NotStartedPInv ==
  ASSUME PInv, "prompt" \notin Detached, NEW p \in Prompt,
         StartFails(p) \/ NextTurnRollsBack(p) \/ HookFails(p)
  PROVE  PInv'
<1>1. HTypeOK /\ RunOK(p) /\ run[p] \in Run
  BY DEF PInv, HTypeOK
<1> DEFINE r == [run[p] EXCEPT !.list = <<>>]
<1>2. /\ r \in Run /\ r.list = <<>> /\ r.back = run[p].back /\ r.failing = run[p].failing
      /\ r.rejected = run[p].rejected
  <2>1. <<>> \in Seq(Recordable)
    OBVIOUS
  <2> QED
    BY <1>1, <2>1 DEF Run
<1>3. CASE StartFails(p)
  <2>1. /\ pc[p] = "starting" /\ MayStep(p) /\ Go(p, "done") /\ phase' = "idle"
        /\ UNCHANGED <<pending, steerQueue, followUpQueue, nextTurnQueue, branch, flying, late, run,
                       accepted, queued>>
    BY <1>3 DEF StartFails, Reject, queues, session
  <2>2. run' = [run EXCEPT ![p] = run[p]] /\ run[p].list = <<>> /\ nextTurnQueue' \in Seq(Message)
    BY <1>1, <2>1 DEF HTypeOK, RunOK
  <2> QED
    BY <1>1, <2>1, <2>2, Turns, EndsPInv
<1>4. CASE NextTurnRollsBack(p)
  <2>1. /\ pc[p] = "taken" /\ MayStep(p) /\ Go(p, "done") /\ phase' = "idle"
        /\ run' = [run EXCEPT ![p] = r] /\ nextTurnQueue' = run[p].list \o nextTurnQueue
        /\ UNCHANGED <<pending, steerQueue, followUpQueue, branch, flying, late, accepted, queued>>
    BY <1>4 DEF NextTurnRollsBack, session
  <2>2. run[p].list \in Seq(Message) /\ nextTurnQueue \in Seq(Message)
    BY <1>1, <2>1 DEF HTypeOK, RunOK
  <2>3. nextTurnQueue' \in Seq(Message)
    BY <2>1, <2>2, ConcatProperties
  <2> QED
    BY <1>2, <2>1, <2>3, Turns, EndsPInv
<1>5. CASE HookFails(p)
  <2>1. /\ pc[p] = "taken" /\ MayStep(p) /\ Go(p, "done") /\ phase' = "idle"
        /\ run' = [run EXCEPT ![p] = r]
        /\ UNCHANGED <<pending, steerQueue, followUpQueue, nextTurnQueue, branch, flying, late,
                       accepted, queued>>
    BY <1>5 DEF HookFails, queues, session
  <2>2. nextTurnQueue' \in Seq(Message)
    BY <1>1, <2>1 DEF HTypeOK
  <2> QED
    BY <1>2, <2>1, <2>2, Turns, EndsPInv
<1> QED
  BY <1>3, <1>4, <1>5

\* The run goes on with r, at label.
GoesOn(p, r, label) ==
  /\ run[p].back # "finally" /\ r.back # "finally"
  /\ r.failing = run[p].failing /\ r.rejected = run[p].rejected
  /\ r.list # <<>> => label \in {"recording", "drained"}
  /\ label = "drained" => r.list \in Seq(Message) /\ r.then \in {"poll", "poll follow-up"}
  /\ label = "recording" => r.then \in {"poll", "model", "tools", "turn end"}
  /\ r.failing =>
       /\ r.reply = "stop" /\ label \in {"recording", "turn end", "flushing", "save point"}
       /\ label = "recording" => r.then = "turn end"
       /\ label = "flushing" => r.back # "snapshot"

LEMMA GoOnPInv ==
  ASSUME PInv, "prompt" \notin Detached, NEW p \in Prompt, MayStep(p), Active(p),
         NEW r \in Run, run' = [run EXCEPT ![p] = r],
         NEW label \in Label \ {"none", "starting", "taken", "settled", "done"},
         pc' = [pc EXCEPT ![p] = label],
         UNCHANGED <<phase, late, accepted, queued>>,
         pending' \in Seq(Write), branch' \in Seq(Entry), steerQueue' \in Seq(Message),
         followUpQueue' \in Seq(Message), nextTurnQueue' \in Seq(Message),
         NEW f \in [entry : Entry \cup {None}, base : Seq(Entry)],
         flying' = [flying EXCEPT ![p] = f],
         GoesOn(p, r, label),
         f # NoAppend =>
           \/ label = "recording" /\ r.list # <<>> /\ f.entry = Head(r.list)
           \/ label = "flushing" /\ pending' # <<>> /\ f.entry = Head(pending')
  PROVE  PInv'
<1>1. HTypeOK /\ RunOK(p)
  BY DEF PInv
<1>2. /\ run' \in [Prompt -> Run] /\ run'[p] = r /\ \A q \in Prompt \ {p} : run'[q] = run[q]
  BY <1>1, SetRun
<1>3. /\ pc' \in [Prompt -> Label] /\ pc'[p] = label /\ \A q \in Prompt \ {p} : pc'[q] = pc[q]
  BY <1>1 DEF HTypeOK
<1>4. /\ flying' \in [Prompt \cup Write -> [entry : Entry \cup {None}, base : Seq(Entry)]]
      /\ flying'[p] = f /\ \A q \in Prompt \ {p} : flying'[q] = flying[q]
  BY <1>1 DEF HTypeOK
<1>5. HTypeOK'
  BY <1>1, <1>2, <1>3, <1>4 DEF HTypeOK
<1>6. RunOK(p)'
  BY <1>1, <1>2, <1>3, <1>4 DEF RunOK, GoesOn
<1>7. Busy(p)' <=> Busy(p)
  BY <1>2, <1>3 DEF Busy, Active, GoesOn
<1> QED
  BY <1>2, <1>3, <1>4, <1>5, <1>6, <1>7, Turns, OwnStep DEF Others

\* The fields of a run.
LEMMA RunFields ==
  ASSUME HTypeOK, NEW p \in Prompt
  PROVE  /\ run[p] \in Run /\ run[p].list \in Seq(Recordable) /\ run[p].context \in Seq(Entry)
         /\ run[p].then \in Label \cup {"tools"}
         /\ run[p].back \in {"save point", "settle", "snapshot", "finally"}
         /\ run[p].reply \in {"none", "calls", "length", "final", "stop"}
         /\ run[p].replies \in Nat
         /\ flying[p] \in [entry : Entry \cup {None}, base : Seq(Entry)]
         /\ NoAppend \in [entry : Entry \cup {None}, base : Seq(Entry)]
         /\ <<>> \in Seq(Recordable) /\ <<>> \in Seq(Entry)
         /\ flying = [flying EXCEPT ![p] = flying[p]] /\ run = [run EXCEPT ![p] = run[p]]
<1>1. run[p] \in Run /\ flying[p] \in [entry : Entry \cup {None}, base : Seq(Entry)]
  BY DEF HTypeOK
<1>2. <<>> \in Seq(Recordable) /\ <<>> \in Seq(Entry)
  OBVIOUS
<1>3. NoAppend \in [entry : Entry \cup {None}, base : Seq(Entry)]
  BY <1>2 DEF NoAppend
<1>4. flying = [flying EXCEPT ![p] = flying[p]] /\ run = [run EXCEPT ![p] = run[p]]
  BY DEF HTypeOK
<1> QED
  BY <1>1, <1>2, <1>3, <1>4 DEF Run

LEMMA StartLoopPInv ==
  ASSUME PInv, "prompt" \notin Detached, NEW p \in Prompt, StartLoop(p) PROVE PInv'
<1> DEFINE list == run[p].list \o <<p>>
           context == run[p].context \o run[p].list \o <<p>>
           r == [run[p] EXCEPT !.list = list, !.context = context]
<1>1. /\ pc[p] = "taken" /\ MayStep(p) /\ pc' = [pc EXCEPT ![p] = "recording"]
      /\ run' = [run EXCEPT ![p] = r]
      /\ UNCHANGED <<phase, pending, steerQueue, followUpQueue, nextTurnQueue, branch, flying,
                     late, accepted, queued>>
  BY DEF StartLoop, queues, session, Go
<1>2. HTypeOK /\ RunOK(p)
  BY DEF PInv
<1>3. list \in Seq(Recordable) /\ context \in Seq(Entry)
  <2>a. run[p].list \in Seq(Recordable) /\ run[p].context \in Seq(Entry)
    BY <1>2, RunFields
  <2>b. p \in Recordable /\ Recordable \subseteq Entry
    BY DEF Recordable, Entry
  <2>c. <<p>> \in Seq(Recordable)
    BY <2>b, SingleSeq
  <2>1. run[p].list \in Seq(Recordable) /\ <<p>> \in Seq(Recordable)
    BY <2>a, <2>c
  <2>2. run[p].context \in Seq(Entry) /\ run[p].list \in Seq(Entry) /\ <<p>> \in Seq(Entry)
    BY <2>a, <2>b, <2>c, SeqMonotonic
  <2>3. run[p].context \o run[p].list \in Seq(Entry)
    BY <2>2, ConcatProperties
  <2> QED
    BY <2>1, <2>2, <2>3, ConcatProperties
<1>4. run[p] \in Run
  BY <1>2, RunFields
<1> HIDE DEF list, context
<1>5. /\ r \in Run /\ r.then = run[p].then /\ r.back = run[p].back /\ r.failing = run[p].failing
      /\ r.rejected = run[p].rejected
  BY <1>3, <1>4 DEF Run
<1> HIDE DEF r
<1>6. /\ r.then = "poll" /\ r.back = "save point" /\ ~r.failing /\ flying[p] = NoAppend
  BY <1>1, <1>2, <1>5 DEF RunOK
<1>7. /\ flying' = [flying EXCEPT ![p] = flying[p]]
      /\ flying[p] \in [entry : Entry \cup {None}, base : Seq(Entry)]
  BY <1>1, <1>2, RunFields
<1>8. /\ pending' \in Seq(Write) /\ branch' \in Seq(Entry) /\ steerQueue' \in Seq(Message)
      /\ followUpQueue' \in Seq(Message) /\ nextTurnQueue' \in Seq(Message)
  BY <1>1, <1>2 DEF HTypeOK
<1>9. "recording" \in Label \ {"none", "starting", "taken", "settled", "done"} /\ Active(p)
  BY <1>1 DEF Label, Active
<1>10. GoesOn(p, r, "recording")
  BY <1>1, <1>2, <1>5, <1>6 DEF GoesOn, RunOK
<1> QED
  BY <1>1, <1>5, <1>6, <1>7, <1>8, <1>9, <1>10, GoOnPInv

\* The run throws.
LEMMA ThrowPInv ==
  ASSUME PInv, "prompt" \notin Detached, NEW p \in Prompt, MayStep(p), Throw(p),
         pc[p] \in {"recording", "model", "snapshot", "save point", "drained", "flushing", "settled"},
         run[p].back # "finally",
         UNCHANGED <<phase, accepted, queued>>,
         pending' \in Seq(Write), branch' \in Seq(Entry), steerQueue' \in Seq(Message),
         followUpQueue' \in Seq(Message), nextTurnQueue' \in Seq(Message)
  PROVE  PInv'
<1>1. HTypeOK /\ RunOK(p)
  BY DEF PInv
<1>2. /\ flying' = [flying EXCEPT ![p] = NoAppend]
      /\ late' = [late EXCEPT ![p] = late[p] \/ pc[p] = "settled"]
  BY DEF Throw
<1>3. /\ flying' \in [Prompt \cup Write -> [entry : Entry \cup {None}, base : Seq(Entry)]]
      /\ flying'[p] = NoAppend /\ \A q \in Prompt \ {p} : flying'[q] = flying[q]
  BY <1>1, <1>2, RunFields DEF HTypeOK
<1>4. /\ late' \in [Prompt -> BOOLEAN] /\ late'[p] = (late[p] \/ pc[p] = "settled")
      /\ \A q \in Prompt \ {p} : late'[q] = late[q]
  BY <1>1, <1>2 DEF HTypeOK
<1>5. run[p] \in Run
  BY <1>1, RunFields
<1>6. CASE run[p].failing
  <2> DEFINE r == [run[p] EXCEPT !.rejected = TRUE, !.back = "finally", !.list = <<>>]
  <2>1. run' = [run EXCEPT ![p] = r] /\ Go(p, "flushing")
    BY <1>6 DEF Throw
  <2>a. <<>> \in Seq(Recordable)
    BY EmptySeq
  <2>2. /\ r \in Run /\ r.rejected = TRUE /\ r.back = "finally" /\ r.list = <<>>
        /\ r.failing = run[p].failing /\ r.reply = run[p].reply
    BY <1>5, <2>a DEF Run
  <2> HIDE DEF r
  <2>3. /\ run' \in [Prompt -> Run] /\ run'[p] = r /\ \A q \in Prompt \ {p} : run'[q] = run[q]
    BY <1>1, <2>1, <2>2, SetRun
  <2>4. /\ pc' \in [Prompt -> Label] /\ pc'[p] = "flushing" /\ \A q \in Prompt \ {p} : pc'[q] = pc[q]
    BY <1>1, <2>1, GoFacts DEF Label
  <2>5. HTypeOK'
    BY <1>1, <1>3, <1>4, <2>3, <2>4 DEF HTypeOK
  <2>6. RunOK(p)'
    BY <1>1, <1>3, <1>6, <2>2, <2>3, <2>4 DEF RunOK
  <2>7. Busy(p)' <=> Busy(p)
    BY <1>4, <2>2, <2>3, <2>4 DEF Busy, Active
  <2> QED
    BY <1>3, <1>4, <2>3, <2>4, <2>5, <2>6, <2>7, Turns, OwnStep DEF Others
<1>7. CASE ~run[p].failing
  <2> DEFINE r == [run[p] EXCEPT !.failing = TRUE, !.reply = "stop", !.thrown = FALSE,
                                 !.list = <<"failure">>, !.then = "turn end"]
  <2>1. run' = [run EXCEPT ![p] = r] /\ Go(p, "recording")
    BY <1>7 DEF Throw
  <2>b. "failure" \in Recordable
    BY DEF Recordable, Kind
  <2>2. <<"failure">> \in Seq(Recordable)
    BY <2>b, SingleSeq
  <2>3. /\ r \in Run /\ r.failing = TRUE /\ r.reply = "stop" /\ r.then = "turn end"
        /\ r.list = <<"failure">> /\ r.back = run[p].back /\ r.rejected = run[p].rejected
    BY <1>5, <2>2 DEF Run, Label
  <2> HIDE DEF r
  <2>4. /\ run' \in [Prompt -> Run] /\ run'[p] = r /\ \A q \in Prompt \ {p} : run'[q] = run[q]
    BY <1>1, <2>1, <2>3, SetRun
  <2>5. /\ pc' \in [Prompt -> Label] /\ pc'[p] = "recording" /\ \A q \in Prompt \ {p} : pc'[q] = pc[q]
    BY <1>1, <2>1, GoFacts DEF Label
  <2>6. HTypeOK'
    BY <1>1, <1>3, <1>4, <2>4, <2>5 DEF HTypeOK
  <2>7. RunOK(p)'
    BY <1>1, <1>3, <2>3, <2>4, <2>5 DEF RunOK
  <2>8. Busy(p)' <=> Busy(p)
    BY <1>4, <2>3, <2>4, <2>5 DEF Busy, Active
  <2> QED
    BY <1>3, <1>4, <2>4, <2>5, <2>6, <2>7, <2>8, Turns, OwnStep DEF Others
<1> QED
  BY <1>6, <1>7

\* The run goes on, with nothing of it in flight.
LEMMA MovesPInv ==
  ASSUME PInv, "prompt" \notin Detached, NEW p \in Prompt, MayStep(p), Active(p),
         flying[p] = NoAppend, NEW r \in Run, run' = [run EXCEPT ![p] = r],
         NEW label \in Label \ {"none", "starting", "taken", "settled", "done"}, Go(p, label),
         UNCHANGED <<phase, late, accepted, queued, flying, branch, pending, nextTurnQueue>>,
         steerQueue' \in Seq(Message), followUpQueue' \in Seq(Message),
         GoesOn(p, r, label)
  PROVE  PInv'
<1>1. HTypeOK
  BY DEF PInv
<1>2. /\ flying' = [flying EXCEPT ![p] = flying[p]]
      /\ flying[p] \in [entry : Entry \cup {None}, base : Seq(Entry)]
  BY <1>1, RunFields
<1>3. pending' \in Seq(Write) /\ branch' \in Seq(Entry) /\ nextTurnQueue' \in Seq(Message)
  BY <1>1 DEF HTypeOK
<1>4. pc' = [pc EXCEPT ![p] = label]
  BY DEF Go
<1>5. UNCHANGED <<phase, late, accepted, queued>>
  OBVIOUS
<1> DEFINE f == flying[p]
<1>6. /\ f \in [entry : Entry \cup {None}, base : Seq(Entry)] /\ f = NoAppend
      /\ flying' = [flying EXCEPT ![p] = f]
  BY <1>2
<1> HIDE DEF f
<1> QED
  BY <1>3, <1>4, <1>5, <1>6, GoOnPInv

\* An append of the run begins or ends.
LEMMA AppendsPInv ==
  ASSUME PInv, "prompt" \notin Detached, NEW p \in Prompt, MayStep(p),
         pc[p] \in {"recording", "flushing"},
         UNCHANGED <<phase, pc, run, late, accepted, queued, steerQueue, followUpQueue,
                     nextTurnQueue>>,
         pending' \in Seq(Write), branch' \in Seq(Entry),
         NEW f \in [entry : Entry \cup {None}, base : Seq(Entry)],
         flying' = [flying EXCEPT ![p] = f],
         f # NoAppend =>
           \/ pc[p] = "recording" /\ run[p].list # <<>> /\ f.entry = Head(run[p].list)
           \/ pc[p] = "flushing" /\ pending' # <<>> /\ f.entry = Head(pending')
  PROVE  PInv'
<1>1. HTypeOK /\ RunOK(p)
  BY DEF PInv
<1>2. /\ flying' \in [Prompt \cup Write -> [entry : Entry \cup {None}, base : Seq(Entry)]]
      /\ flying'[p] = f /\ \A q \in Prompt \ {p} : flying'[q] = flying[q]
  BY <1>1 DEF HTypeOK
<1>3. HTypeOK'
  BY <1>1, <1>2 DEF HTypeOK
<1>4. RunOK(p)'
  BY <1>1, <1>2 DEF RunOK
<1>5. Busy(p)' <=> Busy(p)
  BY DEF Busy, Active
<1> QED
  BY <1>2, <1>3, <1>4, <1>5, Turns, OwnStep DEF Others

LEMMA AppendMessagePInv ==
  ASSUME PInv, "prompt" \notin Detached, NEW p \in Prompt, AppendMessage(p) PROVE PInv'
<1> DEFINE f == [entry |-> Head(run[p].list), base |-> branch]
<1>1. /\ pc[p] = "recording" /\ run[p].list # <<>> /\ MayStep(p)
      /\ flying' = [flying EXCEPT ![p] = f]
      /\ UNCHANGED <<phase, pc, run, late, accepted, queued, steerQueue, followUpQueue,
                     nextTurnQueue, pending, branch>>
  BY DEF AppendMessage, calls, Outside, queues
<1>2. HTypeOK
  BY DEF PInv
<1>3. run[p].list \in Seq(Recordable) /\ Recordable \subseteq Entry
  BY <1>2, RunFields DEF Recordable, Entry
<1>4. f \in [entry : Entry \cup {None}, base : Seq(Entry)] /\ f.entry = Head(run[p].list)
  BY <1>1, <1>2, <1>3 DEF HTypeOK
<1>5. pending' \in Seq(Write) /\ branch' \in Seq(Entry)
  BY <1>1, <1>2 DEF HTypeOK
<1> HIDE DEF f
<1> QED
  BY <1>1, <1>4, <1>5, AppendsPInv

LEMMA FlushNextPInv ==
  ASSUME PInv, "prompt" \notin Detached, NEW p \in Prompt, FlushNext(p) PROVE PInv'
<1> DEFINE f == [entry |-> Head(pending), base |-> branch]
<1>1. /\ pc[p] = "flushing" /\ pending # <<>> /\ MayStep(p)
      /\ flying' = [flying EXCEPT ![p] = f]
      /\ UNCHANGED <<phase, pc, run, late, accepted, queued, steerQueue, followUpQueue,
                     nextTurnQueue, pending, branch>>
  BY DEF FlushNext, calls, Outside, queues
<1>2. HTypeOK
  BY DEF PInv
<1>3. pending \in Seq(Write) /\ Write \subseteq Entry /\ branch \in Seq(Entry)
  BY <1>2 DEF HTypeOK, Entry
<1>4. f \in [entry : Entry \cup {None}, base : Seq(Entry)] /\ f.entry = Head(pending)
  BY <1>1, <1>3
<1> HIDE DEF f
<1> QED
  BY <1>1, <1>3, <1>4, AppendsPInv

LEMMA FlushAppendedPInv ==
  ASSUME PInv, "prompt" \notin Detached, NEW p \in Prompt, FlushAppended(p) PROVE PInv'
<1>1. /\ pc[p] = "flushing" /\ flying[p] # NoAppend /\ MayStep(p)
      /\ branch' = Append(flying[p].base, flying[p].entry)
      /\ flying' = [flying EXCEPT ![p] = NoAppend]
      /\ pending' = IF pending = <<>> THEN <<>> ELSE Tail(pending)
      /\ UNCHANGED <<phase, pc, run, late, accepted, queued, steerQueue, followUpQueue,
                     nextTurnQueue>>
  BY Zenon DEF FlushAppended, calls, queues
<1>2. HTypeOK /\ RunOK(p)
  BY DEF PInv
<1>3. flying[p].entry = Head(pending) /\ pending # <<>>
  BY <1>1, <1>2 DEF RunOK
<1>4. pending' \in Seq(Write) /\ Head(pending) \in Write
  BY <1>1, <1>2, <1>3 DEF HTypeOK
<1>5. flying[p].base \in Seq(Entry) /\ flying[p].entry \in Entry
  BY <1>2, <1>3, <1>4, RunFields DEF Entry
<1>6. branch' \in Seq(Entry)
  BY <1>1, <1>5, AppendProperties
<1>7. NoAppend \in [entry : Entry \cup {None}, base : Seq(Entry)]
  BY <1>2, RunFields
<1> QED
  BY <1>1, <1>4, <1>6, <1>7, AppendsPInv

LEMMA AppendedPInv ==
  ASSUME PInv, "prompt" \notin Detached, NEW p \in Prompt, Appended(p) PROVE PInv'
<1>1. /\ pc[p] = "recording" /\ flying[p] # NoAppend /\ MayStep(p)
      /\ branch' = Append(flying[p].base, flying[p].entry)
      /\ UNCHANGED <<phase, accepted, queued, steerQueue, followUpQueue, nextTurnQueue, pending>>
  BY Zenon DEF Appended, Outside, queues
<1>2. HTypeOK /\ RunOK(p)
  BY DEF PInv
<1>3. flying[p].entry = Head(run[p].list) /\ run[p].list # <<>>
  BY <1>1, <1>2 DEF RunOK
<1>4. run[p].list \in Seq(Recordable) /\ Recordable \subseteq Entry /\ run[p] \in Run
  BY <1>2, RunFields DEF Recordable, Entry
<1>a. Head(run[p].list) \in Recordable
  BY <1>3, <1>4
<1>b. flying[p] \in [entry : Entry \cup {None}, base : Seq(Entry)]
  BY <1>2, RunFields
<1>5. flying[p].base \in Seq(Entry) /\ flying[p].entry \in Entry
  BY <1>3, <1>4, <1>a, <1>b
<1>6. branch' \in Seq(Entry)
  BY <1>1, <1>5, AppendProperties
<1>7. /\ pending' \in Seq(Write) /\ steerQueue' \in Seq(Message)
      /\ followUpQueue' \in Seq(Message) /\ nextTurnQueue' \in Seq(Message)
  BY <1>1, <1>2 DEF HTypeOK
<1>8. run[p].back # "finally" /\ Active(p)
  BY <1>1, <1>2 DEF RunOK, Active
<1> DEFINE r == [run[p] EXCEPT !.list = Tail(run[p].list)]
<1>9. CASE flying' = [flying EXCEPT ![p] = NoAppend] /\ run' = [run EXCEPT ![p] = r]
           /\ UNCHANGED <<pc, late>>
  <2>1. Tail(run[p].list) \in Seq(Recordable)
    BY <1>3, <1>4
  <2>2. /\ r \in Run /\ r.then = run[p].then /\ r.back = run[p].back /\ r.reply = run[p].reply
        /\ r.failing = run[p].failing /\ r.rejected = run[p].rejected
    BY <1>4, <2>1 DEF Run
  <2> HIDE DEF r
  <2>3. GoesOn(p, r, "recording")
    BY <1>1, <1>2, <1>8, <2>2 DEF GoesOn, RunOK
  <2>4. NoAppend \in [entry : Entry \cup {None}, base : Seq(Entry)]
    BY <1>2, RunFields
  <2>5. pc' = [pc EXCEPT ![p] = "recording"]
    BY <1>1, <1>2, <1>9 DEF HTypeOK
  <2>6. "recording" \in Label \ {"none", "starting", "taken", "settled", "done"}
    BY DEF Label
  <2> QED
    BY <1>1, <1>6, <1>7, <1>8, <1>9, <2>2, <2>3, <2>4, <2>5, <2>6, GoOnPInv
<1>10. CASE Throw(p)
  BY <1>1, <1>6, <1>7, <1>8, <1>10, ThrowPInv
<1>11. \/ flying' = [flying EXCEPT ![p] = NoAppend] /\ run' = [run EXCEPT ![p] = r]
          /\ UNCHANGED <<pc, late>>
       \/ Throw(p)
  BY Zenon DEF Appended
<1> QED
  BY <1>9, <1>10, <1>11

\* What a step of the loop may do without touching the queues.
LEMMA LoopPInv ==
  ASSUME PInv, "prompt" \notin Detached, NEW p \in Prompt, MayStep(p),
         pc[p] \in {"recording", "model", "turn end", "save point", "snapshot", "poll",
                    "poll follow-up", "drained", "flushing"},
         run[p].back # "finally", flying[p] = NoAppend,
         NEW r \in Run, run' = [run EXCEPT ![p] = r],
         NEW label \in Label \ {"none", "starting", "taken", "settled", "done"}, Go(p, label),
         GoesOn(p, r, label), UNCHANGED <<session, late, Outside>>
  PROVE  PInv'
<1>1. Active(p)
  BY DEF Active
<1>2. UNCHANGED <<phase, late, accepted, queued, flying, branch, pending, nextTurnQueue,
                  steerQueue, followUpQueue>>
  BY DEF session, Outside, queues
<1>3. steerQueue' \in Seq(Message) /\ followUpQueue' \in Seq(Message)
  BY <1>2 DEF PInv, HTypeOK
<1> QED
  BY <1>1, <1>2, <1>3, MovesPInv

LEMMA RecordedPInv ==
  ASSUME PInv, "prompt" \notin Detached, NEW p \in Prompt, Recorded(p) PROVE PInv'
<1>1. /\ pc[p] = "recording" /\ run[p].list = <<>> /\ MayStep(p)
      /\ UNCHANGED <<session, late, Outside>>
  BY Zenon DEF Recorded
<1>2. HTypeOK /\ RunOK(p) /\ run[p] \in Run
  BY RunFields DEF PInv
<1>3. /\ flying[p] = NoAppend /\ run[p].back # "finally" /\ run = [run EXCEPT ![p] = run[p]]
      /\ run[p].failing => run[p].reply = "stop" /\ run[p].then = "turn end"
  BY <1>1, <1>2, RunFields DEF RunOK
<1>4. CASE run[p].then \in {"poll", "model"} /\ Go(p, run[p].then) /\ run' = run
  <2>1. GoesOn(p, run[p], run[p].then)
    BY <1>1, <1>3, <1>4 DEF GoesOn
  <2>2. run[p].then \in Label \ {"none", "starting", "taken", "settled", "done"}
    BY <1>4 DEF Label
  <2>3. run' = [run EXCEPT ![p] = run[p]]
    BY <1>3, <1>4
  <2> QED
    BY <1>1, <1>2, <1>3, <1>4, <2>1, <2>2, <2>3, LoopPInv
<1> DEFINE r == [run[p] EXCEPT !.list = <<"results">>, !.then = "turn end",
                               !.context = Append(run[p].context, "results")]
<1>5. CASE run[p].then = "tools" /\ run' = [run EXCEPT ![p] = r] /\ pc' = pc
  <2>1. "results" \in Recordable /\ "results" \in Entry
    BY DEF Recordable, Entry, Kind
  <2>2. <<"results">> \in Seq(Recordable)
    BY <2>1, SingleSeq
  <2>3. Append(run[p].context, "results") \in Seq(Entry)
    BY <1>2, <2>1, RunFields, AppendProperties
  <2>4. /\ r \in Run /\ r.then = "turn end" /\ r.back = run[p].back /\ r.reply = run[p].reply
        /\ r.failing = run[p].failing /\ r.rejected = run[p].rejected
    BY <1>2, <2>2, <2>3 DEF Run, Label
  <2> HIDE DEF r
  <2>5. GoesOn(p, r, "recording")
    BY <1>3, <1>5, <2>4 DEF GoesOn
  <2>6. Go(p, "recording")
    BY <1>1, <1>2, <1>5 DEF HTypeOK, Go
  <2>7. "recording" \in Label \ {"none", "starting", "taken", "settled", "done"}
    BY DEF Label
  <2> QED
    BY <1>1, <1>3, <1>5, <2>4, <2>5, <2>6, <2>7, LoopPInv
<1>6. CASE run[p].then = "turn end" /\ Go(p, "turn end") /\ run' = run
  <2>1. GoesOn(p, run[p], "turn end")
    BY <1>1, <1>3, <1>6 DEF GoesOn
  <2>2. "turn end" \in Label \ {"none", "starting", "taken", "settled", "done"}
    BY DEF Label
  <2>3. run' = [run EXCEPT ![p] = run[p]]
    BY <1>3, <1>6
  <2> QED
    BY <1>1, <1>2, <1>3, <1>6, <2>1, <2>2, <2>3, LoopPInv
<1>7. \/ run[p].then \in {"poll", "model"} /\ Go(p, run[p].then) /\ run' = run
      \/ run[p].then = "tools" /\ run' = [run EXCEPT ![p] = r] /\ pc' = pc
      \/ run[p].then = "turn end" /\ Go(p, "turn end") /\ run' = run
  BY Zenon DEF Recorded
<1> QED
  BY <1>4, <1>5, <1>6, <1>7

LEMMA ProviderRepliesPInv ==
  ASSUME PInv, "prompt" \notin Detached, NEW p \in Prompt, ProviderReplies(p) PROVE PInv'
<1>1. /\ pc[p] = "model" /\ MayStep(p) /\ Go(p, "recording") /\ UNCHANGED <<session, late, Outside>>
  BY Zenon DEF ProviderReplies
<1>2. HTypeOK /\ RunOK(p) /\ run[p] \in Run
  BY RunFields DEF PInv
<1>3. flying[p] = NoAppend /\ run[p].back # "finally" /\ ~run[p].failing
  BY <1>1, <1>2 DEF RunOK
<1>4. PICK reply \in {"calls", "length", "final", "stop"} :
        run' = [run EXCEPT ![p].reply = reply,
                           ![p].replies = IF reply \in {"calls", "length"} THEN @ + 1 ELSE @,
                           ![p].list = <<"reply">>, ![p].context = Append(@, "reply"),
                           ![p].then = IF reply = "calls" THEN "tools" ELSE "turn end"]
  BY Zenon DEF ProviderReplies
<1> DEFINE replies == IF reply \in {"calls", "length"} THEN run[p].replies + 1 ELSE run[p].replies
           context == Append(run[p].context, "reply")
           then == IF reply = "calls" THEN "tools" ELSE "turn end"
           r == [run[p] EXCEPT !.reply = reply, !.replies = replies, !.list = <<"reply">>,
                               !.context = context, !.then = then]
<1>5. run' = [run EXCEPT ![p] = r]
  BY <1>4, Zenon
<1>d. run[p].replies \in Nat
  BY <1>2, RunFields
<1>e. replies \in Nat
  BY <1>d
<1>6. replies \in Nat /\ then \in Label \cup {"tools"} /\ then \in {"tools", "turn end"}
  BY <1>e DEF Label
<1>7. "reply" \in Recordable /\ "reply" \in Entry
  BY DEF Recordable, Entry, Kind
<1>a. <<"reply">> \in Seq(Recordable)
  BY <1>7, SingleSeq
<1>b. run[p].context \in Seq(Entry)
  BY <1>2, RunFields
<1>c. context \in Seq(Entry)
  BY <1>7, <1>b, AppendProperties
<1>8. <<"reply">> \in Seq(Recordable) /\ context \in Seq(Entry)
  BY <1>a, <1>c
<1> HIDE DEF replies, context, then
<1>9. /\ r \in Run /\ r.back = run[p].back /\ r.then = then
      /\ r.failing = run[p].failing /\ r.rejected = run[p].rejected
  BY <1>2, <1>6, <1>8 DEF Run
<1> HIDE DEF r
<1>10. GoesOn(p, r, "recording")
  BY <1>3, <1>6, <1>9 DEF GoesOn
<1>11. "recording" \in Label \ {"none", "starting", "taken", "settled", "done"}
  BY DEF Label
<1> QED
  BY <1>1, <1>3, <1>5, <1>9, <1>10, <1>11, LoopPInv

LEMMA TurnEndsPInv ==
  ASSUME PInv, "prompt" \notin Detached, NEW p \in Prompt, TurnEnds(p) PROVE PInv'
<1>1. /\ pc[p] = "turn end" /\ MayStep(p) /\ UNCHANGED <<session, late, Outside>>
  BY Zenon DEF TurnEnds
<1>2. HTypeOK /\ RunOK(p) /\ run[p] \in Run
  BY RunFields DEF PInv
<1>3. flying[p] = NoAppend /\ run[p].back # "finally" /\ run[p].list = <<>>
  BY <1>1, <1>2 DEF RunOK
<1>4. PICK thrown \in BOOLEAN :
        /\ Go(p, "flushing")
        /\ run' = [run EXCEPT ![p] = [run[p] EXCEPT !.back = "save point", !.thrown = thrown]]
  <2>1. CASE Flush(p, "save point")
    <3>1. run[p].thrown \in BOOLEAN
      BY <1>2 DEF Run
    <3>2. run[p] = [run[p] EXCEPT !.thrown = run[p].thrown]
      BY <1>2 DEF Run
    <3>3. [run[p] EXCEPT !.back = "save point"]
            = [run[p] EXCEPT !.back = "save point", !.thrown = run[p].thrown]
      BY <1>2 DEF Run
    <3> QED
      BY <2>1, <3>1, <3>3, Zenon DEF Flush
  <2>2. CASE /\ Go(p, "flushing")
             /\ run' = [run EXCEPT ![p].back = "save point", ![p].thrown = TRUE]
    BY <2>2, Zenon
  <2> QED
    BY <2>1, <2>2, Zenon DEF TurnEnds
<1> DEFINE r == [run[p] EXCEPT !.back = "save point", !.thrown = thrown]
<1>5. /\ r \in Run /\ r.back = "save point" /\ r.then = run[p].then /\ r.list = run[p].list
      /\ r.failing = run[p].failing /\ r.rejected = run[p].rejected /\ r.reply = run[p].reply
  BY <1>2 DEF Run
<1>6. run' = [run EXCEPT ![p] = r]
  BY <1>4
<1> HIDE DEF r
<1>7. GoesOn(p, r, "flushing")
  BY <1>1, <1>2, <1>3, <1>5 DEF GoesOn, RunOK
<1>8. "flushing" \in Label \ {"none", "starting", "taken", "settled", "done"}
  BY DEF Label
<1> QED
  BY <1>1, <1>3, <1>4, <1>5, <1>6, <1>7, <1>8, LoopPInv

\* The run flushes the pending writes.
LEMMA FlushPInv ==
  ASSUME PInv, "prompt" \notin Detached, NEW p \in Prompt, MayStep(p),
         pc[p] \in {"save point", "poll follow-up"},
         NEW back \in {"settle", "snapshot"}, Flush(p, back),
         back = "snapshot" => run[p].reply # "stop",
         UNCHANGED <<session, late, Outside>>
  PROVE  PInv'
<1>1. HTypeOK /\ RunOK(p) /\ run[p] \in Run
  BY RunFields DEF PInv
<1>2. flying[p] = NoAppend /\ run[p].back # "finally" /\ run[p].list = <<>>
  BY <1>1 DEF RunOK
<1> DEFINE r == [run[p] EXCEPT !.back = back]
<1>3. run' = [run EXCEPT ![p] = r] /\ Go(p, "flushing")
  BY Zenon DEF Flush
<1>4. /\ r \in Run /\ r.back = back /\ r.then = run[p].then /\ r.list = run[p].list
      /\ r.failing = run[p].failing /\ r.rejected = run[p].rejected /\ r.reply = run[p].reply
  BY <1>1 DEF Run
<1> HIDE DEF r
<1>5. GoesOn(p, r, "flushing")
  BY <1>1, <1>2, <1>4 DEF GoesOn, RunOK
<1>6. "flushing" \in Label \ {"none", "starting", "taken", "settled", "done"}
  BY DEF Label
<1> QED
  BY <1>2, <1>3, <1>4, <1>5, <1>6, LoopPInv

LEMMA SavePointPInv ==
  ASSUME PInv, "prompt" \notin Detached, NEW p \in Prompt, SavePoint(p) PROVE PInv'
<1>1. /\ pc[p] = "save point" /\ MayStep(p) /\ UNCHANGED <<session, late, Outside>>
  BY Zenon DEF SavePoint
<1>2. HTypeOK /\ RunOK(p) /\ run[p] \in Run
  BY RunFields DEF PInv
<1>3. flying[p] = NoAppend /\ run[p].back # "finally" /\ run[p].list = <<>>
  BY <1>1, <1>2 DEF RunOK
<1>4. CASE run[p].reply = "stop" /\ Flush(p, "settle")
  BY <1>1, <1>4, FlushPInv
<1>5. CASE run[p].reply \in {"calls", "final"} /\ Flush(p, "snapshot")
  BY <1>1, <1>5, FlushPInv
<1> DEFINE r == [run[p] EXCEPT !.list = <<"continuation">>, !.then = "model",
                               !.context = Append(run[p].context, "continuation"),
                               !.continued = TRUE]
<1>6. CASE run[p].reply = "length" /\ run' = [run EXCEPT ![p] = r] /\ Go(p, "recording")
  <2>1. "continuation" \in Recordable /\ "continuation" \in Entry
    BY DEF Recordable, Entry, Kind
  <2>2. <<"continuation">> \in Seq(Recordable)
    BY <2>1, SingleSeq
  <2>3. run[p].context \in Seq(Entry)
    BY <1>2, RunFields
  <2>4. Append(run[p].context, "continuation") \in Seq(Entry)
    BY <2>1, <2>3, AppendProperties
  <2>5. /\ r \in Run /\ r.then = "model" /\ r.back = run[p].back /\ r.reply = run[p].reply
        /\ r.failing = run[p].failing /\ r.rejected = run[p].rejected
    BY <1>2, <2>2, <2>4 DEF Run, Label
  <2> HIDE DEF r
  <2>6. GoesOn(p, r, "recording")
    BY <1>2, <1>3, <1>6, <2>5 DEF GoesOn, RunOK
  <2>7. "recording" \in Label \ {"none", "starting", "taken", "settled", "done"}
    BY DEF Label
  <2> QED
    BY <1>1, <1>3, <1>6, <2>5, <2>6, <2>7, LoopPInv
<1>7. \/ run[p].reply = "stop" /\ Flush(p, "settle")
      \/ run[p].reply = "length" /\ run' = [run EXCEPT ![p] = r] /\ Go(p, "recording")
      \/ run[p].reply \in {"calls", "final"} /\ Flush(p, "snapshot")
  BY Zenon DEF SavePoint
<1> QED
  BY <1>4, <1>5, <1>6, <1>7

LEMMA SnapshotPInv ==
  ASSUME PInv, "prompt" \notin Detached, NEW p \in Prompt, Snapshot(p) PROVE PInv'
<1> DEFINE r == [run[p] EXCEPT !.context = branch, !.continued = FALSE]
<1>1. /\ pc[p] = "snapshot" /\ MayStep(p) /\ UNCHANGED <<session, late, Outside>>
      /\ run' = [run EXCEPT ![p] = r] /\ Go(p, "poll")
  BY Zenon DEF Snapshot
<1>2. HTypeOK /\ RunOK(p) /\ run[p] \in Run /\ branch \in Seq(Entry)
  BY RunFields DEF PInv, HTypeOK
<1>3. flying[p] = NoAppend /\ run[p].back # "finally" /\ run[p].list = <<>> /\ ~run[p].failing
  BY <1>1, <1>2 DEF RunOK
<1>4. /\ r \in Run /\ r.back = run[p].back /\ r.then = run[p].then /\ r.list = run[p].list
      /\ r.failing = run[p].failing /\ r.rejected = run[p].rejected
  BY <1>2 DEF Run
<1> HIDE DEF r
<1>5. GoesOn(p, r, "poll")
  BY <1>3, <1>4 DEF GoesOn
<1>6. "poll" \in Label \ {"none", "starting", "taken", "settled", "done"}
  BY DEF Label
<1> QED
  BY <1>1, <1>3, <1>4, <1>5, <1>6, LoopPInv

LEMMA DrainedPInv ==
  ASSUME PInv, "prompt" \notin Detached, NEW p \in Prompt, Drained(p) PROVE PInv'
<1> DEFINE context == run[p].context \o run[p].list
           r == [run[p] EXCEPT !.then = "model", !.context = context]
<1>1. /\ pc[p] = "drained" /\ MayStep(p) /\ UNCHANGED <<session, late, Outside>>
      /\ run' = [run EXCEPT ![p] = r] /\ Go(p, "recording")
  BY Zenon DEF Drained
<1>2. HTypeOK /\ RunOK(p) /\ run[p] \in Run
  BY RunFields DEF PInv
<1>3. flying[p] = NoAppend /\ run[p].back # "finally" /\ ~run[p].failing
  BY <1>1, <1>2 DEF RunOK
<1>4. context \in Seq(Entry)
  <2>1. run[p].list \in Seq(Message) /\ Message \subseteq Entry /\ run[p].context \in Seq(Entry)
    BY <1>1, <1>2, RunFields DEF RunOK, Entry
  <2>2. run[p].list \in Seq(Entry)
    BY <2>1, SeqMonotonic
  <2> QED
    BY <2>1, <2>2, ConcatProperties
<1> HIDE DEF context
<1>5. /\ r \in Run /\ r.back = run[p].back /\ r.then = "model"
      /\ r.failing = run[p].failing /\ r.rejected = run[p].rejected
  BY <1>2, <1>4 DEF Run, Label
<1> HIDE DEF r
<1>6. GoesOn(p, r, "recording")
  BY <1>3, <1>5 DEF GoesOn
<1>7. "recording" \in Label \ {"none", "starting", "taken", "settled", "done"}
  BY DEF Label
<1> QED
  BY <1>1, <1>3, <1>5, <1>6, <1>7, LoopPInv

\* A step of the run fails, and the run throws.
LEMMA RunThrowsPInv ==
  ASSUME PInv, "prompt" \notin Detached, NEW p \in Prompt,
         RunFails(p) \/ SavePointFails(p) \/ AppendFails(p) \/ SettledFails(p)
  PROVE  PInv'
<1>1. /\ pc[p] \in {"recording", "model", "snapshot", "save point", "settled"}
      /\ MayStep(p) /\ Throw(p) /\ UNCHANGED <<branch, Outside>>
  BY Zenon DEF RunFails, SavePointFails, AppendFails, SettledFails
<1>2. HTypeOK /\ RunOK(p)
  BY DEF PInv
<1>3. UNCHANGED <<phase, accepted, queued, pending, branch, steerQueue, followUpQueue,
                  nextTurnQueue>>
  BY <1>1 DEF Outside, queues
<1>4. run[p].back # "finally"
  BY <1>1, <1>2 DEF RunOK
<1>5. /\ pending' \in Seq(Write) /\ branch' \in Seq(Entry) /\ steerQueue' \in Seq(Message)
      /\ followUpQueue' \in Seq(Message) /\ nextTurnQueue' \in Seq(Message)
  BY <1>2, <1>3 DEF HTypeOK
<1> QED
  BY <1>1, <1>3, <1>4, <1>5, ThrowPInv

LEMMA DrainRollsBackPInv ==
  ASSUME PInv, "prompt" \notin Detached, NEW p \in Prompt, DrainRollsBack(p) PROVE PInv'
<1>1. /\ pc[p] = "drained" /\ MayStep(p) /\ Throw(p)
      /\ UNCHANGED <<phase, accepted, queued, pending, branch, nextTurnQueue>>
      /\ steerQueue' \in {steerQueue, run[p].list \o steerQueue}
      /\ followUpQueue' \in {followUpQueue, run[p].list \o followUpQueue}
  BY Zenon DEF DrainRollsBack
<1>2. HTypeOK /\ RunOK(p)
  BY DEF PInv
<1>3. run[p].back # "finally" /\ run[p].list \in Seq(Message)
  BY <1>1, <1>2 DEF RunOK
<1>4. /\ pending' \in Seq(Write) /\ branch' \in Seq(Entry) /\ nextTurnQueue' \in Seq(Message)
      /\ steerQueue \in Seq(Message) /\ followUpQueue \in Seq(Message)
  BY <1>1, <1>2 DEF HTypeOK
<1>a. run[p].list \o steerQueue \in Seq(Message) /\ run[p].list \o followUpQueue \in Seq(Message)
  BY <1>3, <1>4, ConcatProperties
<1>5. steerQueue' \in Seq(Message) /\ followUpQueue' \in Seq(Message)
  BY <1>1, <1>4, <1>a
<1> QED
  BY <1>1, <1>3, <1>4, <1>5, ThrowPInv

\* What is taken from a queue, and what is left of it.
LEMMA TakenRest ==
  ASSUME NEW S, NEW queue \in Seq(S), queue # <<>>, NEW taken \in Taken(queue)
  PROVE  /\ taken \in Seq(S) /\ taken # <<>> /\ Rest(queue, taken) \in Seq(S)
         /\ queue = taken \o Rest(queue, taken)
<1>1. CASE taken = <<Head(queue)>>
  <2>1. Head(queue) \in S /\ Tail(queue) \in Seq(S) /\ Len(queue) \in Nat /\ Len(queue) >= 1
    BY HeadTailProperties, EmptySeq
  <2>2. Rest(queue, taken) = Tail(queue)
    BY <1>1, <2>1, TailIsSubSeq DEF Rest
  <2>3. queue = <<Head(queue)>> \o Tail(queue)
    BY <2>1
  <2> QED
    BY <1>1, <2>1, <2>2, <2>3, SingleSeq
<1>2. CASE taken = queue
  <2>1. Rest(queue, taken) = <<>>
    BY <1>2, SubSeqProperties DEF Rest
  <2>2. queue \o <<>> = queue
    BY ConcatEmptySeq
  <2> QED
    BY <1>2, <2>1, <2>2, EmptySeq
<1> QED
  BY <1>1, <1>2 DEF Taken

\* The run drains a queue.
LEMMA DrainPInv ==
  ASSUME PInv, "prompt" \notin Detached, NEW p \in Prompt, MayStep(p),
         pc[p] \in {"poll", "poll follow-up"},
         NEW messages \in Seq(Message), Drain(p, messages),
         steerQueue' \in Seq(Message), followUpQueue' \in Seq(Message),
         UNCHANGED <<phase, pending, nextTurnQueue, session, late, accepted, queued>>
  PROVE  PInv'
<1> DEFINE r == [run[p] EXCEPT !.list = messages, !.replaced = FALSE, !.then = pc[p]]
<1>1. run' = [run EXCEPT ![p] = r] /\ Go(p, "drained")
  BY Zenon DEF Drain
<1>2. HTypeOK /\ RunOK(p) /\ run[p] \in Run
  BY RunFields DEF PInv
<1>3. flying[p] = NoAppend /\ run[p].back # "finally" /\ ~run[p].failing /\ Active(p)
  BY <1>2 DEF RunOK, Active
<1>4. messages \in Seq(Recordable)
  BY SeqMonotonic DEF Recordable
<1>5. /\ r \in Run /\ r.back = run[p].back /\ r.then = pc[p] /\ r.list = messages
      /\ r.failing = run[p].failing /\ r.rejected = run[p].rejected
  BY <1>2, <1>4 DEF Run, Label
<1> HIDE DEF r
<1>6. GoesOn(p, r, "drained")
  BY <1>3, <1>5 DEF GoesOn
<1>7. "drained" \in Label \ {"none", "starting", "taken", "settled", "done"}
  BY DEF Label
<1>8. UNCHANGED <<phase, late, accepted, queued, flying, branch, pending, nextTurnQueue>>
  BY DEF session
<1> QED
  BY <1>1, <1>3, <1>5, <1>6, <1>7, <1>8, MovesPInv

LEMMA PollPInv ==
  ASSUME PInv, "prompt" \notin Detached, NEW p \in Prompt, Poll(p) PROVE PInv'
<1>1. /\ pc[p] = "poll" /\ MayStep(p)
      /\ UNCHANGED <<phase, pending, followUpQueue, nextTurnQueue, session, late, accepted,
                     queued>>
  BY Zenon DEF Poll
<1>2. HTypeOK /\ RunOK(p) /\ run[p] \in Run
  BY RunFields DEF PInv
<1>3. steerQueue \in Seq(Message) /\ followUpQueue' \in Seq(Message)
  BY <1>1, <1>2 DEF HTypeOK
<1>4. CASE steerQueue # <<>> /\ \E taken \in Taken(steerQueue) :
                 Drain(p, taken) /\ steerQueue' = Rest(steerQueue, taken)
  <2>1. PICK taken \in Taken(steerQueue) :
          Drain(p, taken) /\ steerQueue' = Rest(steerQueue, taken)
    BY <1>4
  <2>2. taken \in Seq(Message) /\ steerQueue' \in Seq(Message)
    BY <1>3, <1>4, <2>1, TakenRest
  <2> QED
    BY <1>1, <1>3, <2>1, <2>2, DrainPInv
<1>5. CASE /\ Go(p, IF run[p].reply = "final" THEN "poll follow-up" ELSE "model")
           /\ UNCHANGED <<run, steerQueue>>
  <2>1. PICK label \in {"poll follow-up", "model"} : Go(p, label)
    BY <1>5, Zenon
  <2>2. flying[p] = NoAppend /\ run[p].back # "finally" /\ ~run[p].failing /\ run[p].list = <<>>
    BY <1>1, <1>2 DEF RunOK
  <2>3. GoesOn(p, run[p], label)
    BY <2>2 DEF GoesOn
  <2>4. label \in Label \ {"none", "starting", "taken", "settled", "done"}
    BY DEF Label
  <2>5. run' = [run EXCEPT ![p] = run[p]] /\ Active(p)
    BY <1>1, <1>2, <1>5, RunFields DEF Active
  <2>6. UNCHANGED <<phase, late, accepted, queued, flying, branch, pending, nextTurnQueue>>
    BY <1>1 DEF session
  <2>7. steerQueue' \in Seq(Message)
    BY <1>3, <1>5
  <2> QED
    BY <1>1, <1>2, <1>3, <2>1, <2>2, <2>3, <2>4, <2>5, <2>6, <2>7, MovesPInv
<1> QED
  BY <1>4, <1>5, Zenon DEF Poll

LEMMA PollFollowUpPInv ==
  ASSUME PInv, "prompt" \notin Detached, NEW p \in Prompt, PollFollowUp(p) PROVE PInv'
<1>1. /\ pc[p] = "poll follow-up" /\ MayStep(p)
      /\ UNCHANGED <<phase, pending, steerQueue, nextTurnQueue, controller, runPromise, session,
                     late, structural, aborts, accepted, queued>>
  BY Zenon DEF PollFollowUp, counters
<1>2. HTypeOK
  BY DEF PInv
<1>3. followUpQueue \in Seq(Message) /\ steerQueue' \in Seq(Message)
  BY <1>1, <1>2 DEF HTypeOK
<1>4. CASE followUpQueue # <<>> /\ \E taken \in Taken(followUpQueue) :
                 Drain(p, taken) /\ followUpQueue' = Rest(followUpQueue, taken)
  <2>1. PICK taken \in Taken(followUpQueue) :
          Drain(p, taken) /\ followUpQueue' = Rest(followUpQueue, taken)
    BY <1>4
  <2>2. taken \in Seq(Message) /\ followUpQueue' \in Seq(Message)
    BY <1>3, <1>4, <2>1, TakenRest
  <2> QED
    BY <1>1, <1>3, <2>1, <2>2, DrainPInv
<1>5. CASE Flush(p, "settle") /\ UNCHANGED followUpQueue
  <2>1. UNCHANGED <<session, late, Outside>>
    BY <1>1, <1>5 DEF Outside, queues
  <2> QED
    BY <1>1, <1>5, <2>1, FlushPInv
<1> QED
  BY <1>4, <1>5, Zenon DEF PollFollowUp

\* The end of a prompt.
LEMMA FinishPInv ==
  ASSUME PInv, "prompt" \notin Detached, NEW p \in Prompt, MayStep(p), pc[p] = "flushing",
         Go(p, "done"), phase' = "idle" \/ (phase' = phase /\ ~Busy(p)),
         flying' = [flying EXCEPT ![p] = NoAppend],
         UNCHANGED <<run, late, pending, branch, steerQueue, followUpQueue, nextTurnQueue, accepted,
                     queued>>
  PROVE  PInv'
<1>1. HTypeOK /\ RunOK(p)
  BY DEF PInv
<1>2. /\ flying' \in [Prompt \cup Write -> [entry : Entry \cup {None}, base : Seq(Entry)]]
      /\ flying'[p] = NoAppend /\ \A q \in Prompt \ {p} : flying'[q] = flying[q]
  BY <1>1, RunFields DEF HTypeOK
<1>3. /\ pc' \in [Prompt -> Label] /\ pc'[p] = "done" /\ \A q \in Prompt \ {p} : pc'[q] = pc[q]
  BY <1>1, GoFacts DEF Label
<1>4. HTypeOK'
  BY <1>1, <1>2, <1>3 DEF HTypeOK
<1>5. RunOK(p)'
  BY <1>1, <1>2, <1>3 DEF RunOK
<1>6. ~Busy(p)'
  BY <1>3 DEF Busy, Active
<1> QED
  BY <1>2, <1>3, <1>4, <1>5, <1>6, Turns, OwnStep DEF Others

LEMMA FlushFailsPInv ==
  ASSUME PInv, "prompt" \notin Detached, NEW p \in Prompt, FlushFails(p) PROVE PInv'
<1>1. /\ pc[p] = "flushing" /\ MayStep(p)
      /\ UNCHANGED <<pending, branch, steerQueue, followUpQueue, nextTurnQueue, accepted, queued>>
  BY Zenon DEF FlushFails, queues
<1>2. CASE run[p].back = "finally"
  <2>1. /\ Go(p, "done") /\ phase' = "idle" /\ flying' = [flying EXCEPT ![p] = NoAppend]
        /\ UNCHANGED <<run, late>>
    BY <1>2, Zenon DEF FlushFails, Finish
  <2> QED
    BY <1>1, <2>1, FinishPInv
<1>3. CASE run[p].back # "finally"
  <2>1. Throw(p) /\ phase' = phase
    BY <1>3, Zenon DEF FlushFails
  <2>2. /\ pending' \in Seq(Write) /\ branch' \in Seq(Entry) /\ steerQueue' \in Seq(Message)
        /\ followUpQueue' \in Seq(Message) /\ nextTurnQueue' \in Seq(Message)
    BY <1>1 DEF PInv, HTypeOK
  <2> QED
    BY <1>1, <1>3, <2>1, <2>2, ThrowPInv
<1> QED
  BY <1>2, <1>3

LEMMA FlushedPInv ==
  ASSUME PInv, "prompt" \notin Detached, NEW p \in Prompt, Flushed(p) PROVE PInv'
<1>1. /\ pc[p] = "flushing" /\ flying[p] = NoAppend /\ MayStep(p)
      /\ UNCHANGED <<pending, branch, steerQueue, followUpQueue, nextTurnQueue, accepted, queued>>
  BY Zenon DEF Flushed, queues
<1>2. HTypeOK /\ RunOK(p) /\ run[p] \in Run
  BY RunFields DEF PInv
<1>3. /\ pending' \in Seq(Write) /\ branch' \in Seq(Entry) /\ steerQueue' \in Seq(Message)
      /\ followUpQueue' \in Seq(Message) /\ nextTurnQueue' \in Seq(Message)
  BY <1>1, <1>2 DEF HTypeOK
<1>4. /\ run = [run EXCEPT ![p] = run[p]] /\ flying = [flying EXCEPT ![p] = NoAppend]
      /\ run[p].list = <<>>
  BY <1>1, <1>2, RunFields DEF RunOK
<1>5. CASE run[p].back = "save point" /\ run[p].thrown /\ Throw(p) /\ phase' = phase
  BY <1>1, <1>3, <1>5, ThrowPInv
<1>6. CASE /\ run[p].back \in {"save point", "snapshot"} /\ Go(p, run[p].back)
           /\ UNCHANGED <<phase, run, late, flying>>
  <2>1. GoesOn(p, run[p], run[p].back)
    BY <1>1, <1>2, <1>4, <1>6 DEF GoesOn, RunOK
  <2>2. run[p].back \in Label \ {"none", "starting", "taken", "settled", "done"}
    BY <1>6 DEF Label
  <2>3. run' = [run EXCEPT ![p] = run[p]] /\ Active(p)
    BY <1>1, <1>4, <1>6 DEF Active
  <2> QED
    BY <1>1, <1>2, <1>3, <1>6, <2>1, <2>2, <2>3, MovesPInv
<1>7. CASE /\ run[p].back = "settle" /\ phase' = "idle" /\ Go(p, "settled")
           /\ UNCHANGED <<run, late, flying>>
  <2>1. /\ pc' \in [Prompt -> Label] /\ pc'[p] = "settled" /\ \A q \in Prompt \ {p} : pc'[q] = pc[q]
    BY <1>2, <1>7, GoFacts DEF Label
  <2>2. HTypeOK'
    BY <1>1, <1>2, <1>7, <2>1 DEF HTypeOK
  <2>3. RunOK(p)'
    BY <1>1, <1>2, <1>4, <1>7, <2>1 DEF RunOK
  <2>4. ~Busy(p)'
    BY <2>1 DEF Busy, Active
  <2> QED
    BY <1>1, <1>7, <2>1, <2>2, <2>3, <2>4, Turns, OwnStep DEF Others
<1>8. CASE run[p].back = "finally" /\ Finish(p, run[p].rejected) /\ UNCHANGED <<run, late, flying>>
  <2>1. Go(p, "done") /\ phase' = IF run[p].rejected THEN "idle" ELSE phase
    BY <1>8, Zenon DEF Finish
  <2>2. ~run[p].rejected => ~Busy(p)
    BY <1>8 DEF Busy
  <2>3. phase' = "idle" \/ (phase' = phase /\ ~Busy(p))
    BY <2>1, <2>2
  <2>4. flying' = [flying EXCEPT ![p] = NoAppend]
    BY <1>4, <1>8
  <2> QED
    BY <1>1, <1>8, <2>1, <2>3, <2>4, FinishPInv
<1>9. \/ run[p].back = "save point" /\ run[p].thrown /\ Throw(p) /\ phase' = phase
      \/ /\ run[p].back \in {"save point", "snapshot"} /\ Go(p, run[p].back)
         /\ UNCHANGED <<phase, run, late, flying>>
      \/ /\ run[p].back = "settle" /\ phase' = "idle" /\ Go(p, "settled")
         /\ UNCHANGED <<run, late, flying>>
      \/ run[p].back = "finally" /\ Finish(p, run[p].rejected) /\ UNCHANGED <<run, late, flying>>
  BY Zenon DEF Flushed
<1> QED
  BY <1>5, <1>6, <1>7, <1>8, <1>9

LEMMA SettledPInv ==
  ASSUME PInv, "prompt" \notin Detached, NEW p \in Prompt, Settled(p) PROVE PInv'
<1> DEFINE r == [run[p] EXCEPT !.back = "finally"]
<1>1. /\ pc[p] = "settled" /\ MayStep(p) /\ run' = [run EXCEPT ![p] = r] /\ Go(p, "flushing")
      /\ UNCHANGED <<phase, late, flying, pending, branch, steerQueue, followUpQueue,
                     nextTurnQueue, accepted, queued>>
  BY DEF Settled, Flush, session, Outside, queues
<1>2. HTypeOK /\ RunOK(p) /\ run[p] \in Run
  BY RunFields DEF PInv
<1>3. /\ r \in Run /\ r.back = "finally" /\ r.list = run[p].list /\ r.failing = run[p].failing
      /\ r.rejected = run[p].rejected /\ r.reply = run[p].reply
  BY <1>2 DEF Run
<1> HIDE DEF r
<1>4. /\ run' \in [Prompt -> Run] /\ run'[p] = r /\ \A q \in Prompt \ {p} : run'[q] = run[q]
  BY <1>1, <1>2, <1>3, SetRun
<1>5. /\ pc' \in [Prompt -> Label] /\ pc'[p] = "flushing" /\ \A q \in Prompt \ {p} : pc'[q] = pc[q]
  BY <1>1, <1>2, GoFacts DEF Label
<1>6. HTypeOK'
  BY <1>1, <1>2, <1>4, <1>5 DEF HTypeOK
<1>7. RunOK(p)'
  BY <1>1, <1>2, <1>3, <1>4, <1>5 DEF RunOK
<1>8. ~Busy(p) /\ ~Busy(p)'
  BY <1>1, <1>2, <1>3, <1>4, <1>5 DEF Busy, Active, RunOK
<1> QED
  BY <1>1, <1>4, <1>5, <1>6, <1>7, <1>8, Turns, OwnStep DEF Others

-----------------------------------------------------------------------------
(* Callers.                                                                *)

\* What matters of a run is left.
Same(p) ==
  /\ run'[p].list = run[p].list /\ run'[p].then = run[p].then /\ run'[p].back = run[p].back
  /\ run'[p].failing = run[p].failing /\ run'[p].rejected = run[p].rejected
  /\ run'[p].reply = run[p].reply /\ run'[p].continued = run[p].continued
  /\ run'[p].context = run[p].context

LEMMA AsidePInv ==
  ASSUME PInv, HTypeOK', UNCHANGED <<pc, late>>, \A p \in Prompt : Same(p) /\ flying'[p] = flying[p],
         pending # <<>> => pending' # <<>> /\ Head(pending') = Head(pending),
         phase' = "turn" <=> phase = "turn"
  PROVE  PInv'
<1>1. ASSUME NEW p \in Prompt PROVE RunOK(p)' /\ (Busy(p)' <=> Busy(p))
  <2>1. RunOK(p) /\ Same(p) /\ flying'[p] = flying[p]
    BY DEF PInv
  <2>2. RunOK(p)'
    BY <2>1 DEF RunOK, Same
  <2>3. Busy(p)' <=> Busy(p)
    BY <2>1 DEF Busy, Active, Same
  <2> QED
    BY <2>2, <2>3
<1>2. AloneOK'
  BY DEF PInv, AloneOK, Active
<1>3. PhaseIsTurn'
  BY <1>1 DEF PInv, PhaseIsTurn
<1> QED
  BY <1>1, <1>2, <1>3 DEF PInv

LEMMA MessagePInv ==
  ASSUME PInv, NEW m \in Message, Steer(m) \/ FollowUp(m) \/ NextTurn(m) PROVE PInv'
<1>1. /\ UNCHANGED <<phase, pending, branch, flying, pc, run, late, accepted>>
      /\ queued' = queued \cup {m}
      /\ steerQueue' \in {steerQueue, Append(steerQueue, m)}
      /\ followUpQueue' \in {followUpQueue, Append(followUpQueue, m)}
      /\ nextTurnQueue' \in {nextTurnQueue, Append(nextTurnQueue, m)}
  BY DEF Steer, FollowUp, NextTurn, NewMessage, session, calls
<1>2. HTypeOK
  BY DEF PInv
<1>a. ASSUME NEW q \in Seq(Message) PROVE Append(q, m) \in Seq(Message)
  BY AppendProperties
<1>b. /\ steerQueue \in Seq(Message) /\ followUpQueue \in Seq(Message)
      /\ nextTurnQueue \in Seq(Message)
  BY <1>2 DEF HTypeOK
<1>3. /\ steerQueue' \in Seq(Message) /\ followUpQueue' \in Seq(Message)
      /\ nextTurnQueue' \in Seq(Message)
  BY <1>1, <1>a, <1>b
<1>4. HTypeOK'
  BY <1>1, <1>2, <1>3 DEF HTypeOK
<1> QED
  BY <1>1, <1>4, AsidePInv DEF Same

LEMMA QueueWritePInv ==
  ASSUME PInv, NEW w \in Write, QueueWrite(w) PROVE PInv'
<1>1. /\ accepted' = accepted \cup {w} /\ pending' = Append(pending, w)
      /\ UNCHANGED <<phase, branch, flying, pc, run, late, steerQueue, followUpQueue,
                     nextTurnQueue, queued>>
  BY DEF QueueWrite, queues, session, calls
<1>2. HTypeOK /\ pending \in Seq(Write)
  BY DEF PInv, HTypeOK
<1>3. pending' \in Seq(Write) /\ (pending # <<>> => pending' # <<>> /\ Head(pending') = Head(pending))
  BY <1>1, <1>2, AppendProperties
<1>4. HTypeOK'
  BY <1>1, <1>2, <1>3 DEF HTypeOK
<1> QED
  BY <1>1, <1>3, <1>4, AsidePInv DEF Same

LEMMA WritePInv ==
  ASSUME PInv, NEW w \in Write, BeginWrite(w) \/ EndWrite(w) PROVE PInv'
<1> DEFINE g == [entry |-> w, base |-> branch]
<1>1. /\ UNCHANGED <<phase, pending, pc, run, late, steerQueue, followUpQueue, nextTurnQueue,
                     queued>>
      /\ flying' \in {[flying EXCEPT ![w] = g], [flying EXCEPT ![w] = NoAppend]}
      /\ branch' \in {branch, Append(flying[w].base, w)}
      /\ accepted' \in {accepted, accepted \cup {w}, accepted \ {w}}
  BY Zenon DEF BeginWrite, EndWrite, queues, calls
<1>2. HTypeOK
  BY DEF PInv
<1>3. w \in Entry /\ w \notin Prompt /\ branch \in Seq(Entry) /\ flying[w].base \in Seq(Entry)
  BY <1>2, EntriesAssumption DEF HTypeOK, Entry
<1>4. g \in [entry : Entry \cup {None}, base : Seq(Entry)]
  BY <1>3, Flights
<1>5. NoAppend \in [entry : Entry \cup {None}, base : Seq(Entry)]
  BY Flights
<1> HIDE DEF g
<1>a. Append(flying[w].base, w) \in Seq(Entry)
  BY <1>3, AppendProperties
<1>6. branch' \in Seq(Entry) /\ accepted' \subseteq Write
  BY <1>1, <1>2, <1>3, <1>a DEF HTypeOK
<1>b. flying' \in [Prompt \cup Write -> [entry : Entry \cup {None}, base : Seq(Entry)]]
  BY <1>1, <1>2, <1>4, <1>5 DEF HTypeOK
<1>7. HTypeOK'
  BY <1>1, <1>2, <1>6, <1>b DEF HTypeOK
<1>8. \A p \in Prompt : flying'[p] = flying[p]
  BY <1>1, <1>2, <1>3 DEF HTypeOK
<1> QED
  BY <1>1, <1>7, <1>8, AsidePInv DEF Same

LEMMA StructuralPInv ==
  ASSUME PInv, BeginStructural \/ EndStructural PROVE PInv'
<1>1. /\ UNCHANGED <<pending, flying, pc, run, late, steerQueue, followUpQueue, nextTurnQueue,
                     accepted, queued>>
      /\ phase \in {"idle", "structural"} /\ phase' \in {"idle", "structural"}
  BY DEF BeginStructural, EndStructural, queues, session, calls
<1>2. HTypeOK /\ branch \in Seq(Entry)
  BY DEF PInv, HTypeOK
<1>3. \/ branch' = branch
      \/ branch' = Append(branch, "compaction")
      \/ \E n \in 0 .. Len(branch) - 1 : branch' = SubSeq(branch, 1, n)
  BY Zenon DEF BeginStructural, EndStructural, session
<1>4. branch' \in Seq(Entry)
  <2>1. "compaction" \in Entry
    BY DEF Entry, Kind
  <2>2. CASE branch' = Append(branch, "compaction")
    BY <1>2, <2>1, <2>2, AppendProperties
  <2>3. ASSUME NEW n \in 0 .. Len(branch) - 1, branch' = SubSeq(branch, 1, n)
        PROVE  branch' \in Seq(Entry)
    BY <1>2, <2>3, SubSeqProperties
  <2> QED
    BY <1>2, <1>3, <2>2, <2>3
<1>5. HTypeOK'
  BY <1>1, <1>2, <1>4 DEF HTypeOK
<1> QED
  BY <1>1, <1>5, AsidePInv DEF Same

LEMMA AbortPInv ==
  ASSUME PInv, Abort PROVE PInv'
<1> DEFINE r(p) == [run[p] EXCEPT !.replaced = TRUE, !.aborted = @ \/ p = controller]
<1>1. /\ steerQueue' = <<>> /\ followUpQueue' = <<>>
      /\ UNCHANGED <<phase, pending, nextTurnQueue, branch, flying, pc, late, accepted, queued>>
  BY DEF Abort, session
<1>2. run' = [p \in Prompt |-> r(p)]
  BY Zenon DEF Abort
<1>3. HTypeOK
  BY DEF PInv
<1>4. ASSUME NEW p \in Prompt
      PROVE  /\ r(p) \in Run /\ r(p).list = run[p].list /\ r(p).then = run[p].then
             /\ r(p).back = run[p].back /\ r(p).failing = run[p].failing
             /\ r(p).rejected = run[p].rejected /\ r(p).reply = run[p].reply
             /\ r(p).continued = run[p].continued /\ r(p).context = run[p].context
  <2>1. run[p] \in Run /\ (run[p].aborted \/ p = controller) \in BOOLEAN
    BY <1>3, RunFields
  <2> QED
    BY <2>1 DEF Run
<1> HIDE DEF r
<1>5. run' \in [Prompt -> Run] /\ \A p \in Prompt : Same(p)
  BY <1>2, <1>4 DEF Same
<1>6. HTypeOK'
  BY <1>1, <1>3, <1>5, EmptySeq DEF HTypeOK
<1> QED
  BY <1>1, <1>5, <1>6, AsidePInv

LEMMA NextPInv ==
  ASSUME PInv, "prompt" \notin Detached, [Next]_hvars PROVE PInv'
<1>1. ASSUME NEW p \in Prompt, StartPrompt(p) \/ Step(p) PROVE PInv'
  <2>1. CASE StartPrompt(p)
    BY <2>1, StartPromptPInv
  <2>2. CASE TakeNextTurn(p)
    BY <2>2, TakeNextTurnPInv
  <2>3. CASE StartFails(p) \/ NextTurnRollsBack(p) \/ HookFails(p)
    BY <2>3, NotStartedPInv
  <2>4. CASE StartLoop(p)
    BY <2>4, StartLoopPInv
  <2>5. CASE AppendMessage(p)
    BY <2>5, AppendMessagePInv
  <2>6. CASE Appended(p)
    BY <2>6, AppendedPInv
  <2>7. CASE Recorded(p)
    BY <2>7, RecordedPInv
  <2>8. CASE ProviderReplies(p)
    BY <2>8, ProviderRepliesPInv
  <2>9. CASE RunFails(p) \/ SavePointFails(p) \/ AppendFails(p) \/ SettledFails(p)
    BY <2>9, RunThrowsPInv
  <2>10. CASE TurnEnds(p)
    BY <2>10, TurnEndsPInv
  <2>11. CASE SavePoint(p)
    BY <2>11, SavePointPInv
  <2>12. CASE Snapshot(p)
    BY <2>12, SnapshotPInv
  <2>13. CASE Poll(p)
    BY <2>13, PollPInv
  <2>14. CASE PollFollowUp(p)
    BY <2>14, PollFollowUpPInv
  <2>15. CASE Drained(p)
    BY <2>15, DrainedPInv
  <2>16. CASE DrainRollsBack(p)
    BY <2>16, DrainRollsBackPInv
  <2>17. CASE FlushNext(p)
    BY <2>17, FlushNextPInv
  <2>18. CASE FlushAppended(p)
    BY <2>18, FlushAppendedPInv
  <2>19. CASE FlushFails(p)
    BY <2>19, FlushFailsPInv
  <2>20. CASE Flushed(p)
    BY <2>20, FlushedPInv
  <2>21. CASE Settled(p)
    BY <2>21, SettledPInv
  <2> QED
    BY <1>1, <2>1, <2>2, <2>3, <2>4, <2>5, <2>6, <2>7, <2>8, <2>9, <2>10, <2>11, <2>12, <2>13,
       <2>14, <2>15, <2>16, <2>17, <2>18, <2>19, <2>20, <2>21 DEF Step
<1>2. ASSUME NEW m \in Message, Steer(m) \/ FollowUp(m) \/ NextTurn(m) PROVE PInv'
  BY <1>2, MessagePInv
<1>3. ASSUME NEW w \in Write, QueueWrite(w) \/ BeginWrite(w) \/ EndWrite(w) PROVE PInv'
  BY <1>3, QueueWritePInv, WritePInv
<1>4. CASE BeginStructural \/ EndStructural
  BY <1>4, StructuralPInv
<1>5. CASE Abort
  BY <1>5, AbortPInv
<1>6. CASE UNCHANGED hvars
  BY <1>6 DEF hvars, queues, session, calls, counters, PInv, HTypeOK, AloneOK, Active, RunOK,
       PhaseIsTurn, Busy
<1> QED
  BY <1>1, <1>2, <1>3, <1>4, <1>5, <1>6 DEF Next

LEMMA InitPInv == Init => PInv
<1> SUFFICES ASSUME Init PROVE PInv
  OBVIOUS
<1>1. <<>> \in Seq(Entry) /\ <<>> \in Seq(Recordable) /\ <<>> \in Seq(Write) /\ <<>> \in Seq(Message)
  BY EmptySeq
<1>2. NewRun \in Run
  BY <1>1 DEF NewRun, Run, Label
<1>3. HTypeOK
  BY <1>1, <1>2, Flights DEF Init, HTypeOK, Label
<1>4. AloneOK /\ PhaseIsTurn
  BY DEF Init, AloneOK, PhaseIsTurn, Busy, Active
<1>5. ASSUME NEW p \in Prompt PROVE RunOK(p)
  BY DEF Init, RunOK, NewRun
<1> QED
  BY <1>3, <1>4, <1>5 DEF PInv

\* If no prompt, compaction or navigation is called before the call before it
\* has returned, the phase of the harness is "turn" from the start of a run to
\* its agent_end, whatever fails or is written meanwhile, and at no other time:
\* executeTurn's error paths and the end of a run that failed late leave no
\* phase behind that refuses the next prompt.
THEOREM PhaseFollowsRuns ==
  ASSUME "prompt" \notin Detached
  PROVE  Spec => []PhaseIsTurn
<1>1. Init => PInv
  BY InitPInv
<1>2. PInv /\ [Next]_hvars => PInv'
  BY NextPInv
<1>3. PInv => PhaseIsTurn
  BY DEF PInv
<1> QED
  BY <1>1, <1>2, <1>3, PTL DEF Spec

-----------------------------------------------------------------------------
(* How often an entry is in a sequence.                                    *)

Where(x, s) == {i \in 1 .. Len(s) : s[i] = x}

LEMMA CountIs ==
  ASSUME NEW S, NEW s \in Seq(S), NEW x
  PROVE  /\ IsFiniteSet(Where(x, s)) /\ Count(x, s) = Cardinality(Where(x, s))
         /\ Count(x, s) \in Nat
         /\ Count(x, s) = 0 <=> x \notin Range(s)
<1>1. Len(s) \in Nat /\ DOMAIN s = 1 .. Len(s)
  OBVIOUS
<1>2. IsFiniteSet(1 .. Len(s))
  BY <1>1, FS_Interval
<1>3. Where(x, s) \subseteq 1 .. Len(s)
  BY DEF Where
<1>4. IsFiniteSet(Where(x, s))
  BY <1>2, <1>3, FS_Subset
<1>5. Count(x, s) = Cardinality(Where(x, s))
  BY <1>1 DEF Count, Where
<1>6. Where(x, s) = {} <=> x \notin Range(s)
  BY <1>1 DEF Where, Range
<1> QED
  BY <1>4, <1>5, <1>6, FS_CardinalityType, FS_EmptySet

LEMMA CountConcat ==
  ASSUME NEW S, NEW s \in Seq(S), NEW t \in Seq(S), NEW x
  PROVE  Count(x, s \o t) = Count(x, s) + Count(x, t)
<1> DEFINE A == Where(x, s)
           B == Where(x, t)
           C == {i \in Len(s) + 1 .. Len(s) + Len(t) : t[i - Len(s)] = x}
           f == [i \in B |-> i + Len(s)]
<1>1. /\ Len(s) \in Nat /\ Len(t) \in Nat /\ s \o t \in Seq(S) /\ Len(s \o t) = Len(s) + Len(t)
      /\ \A i \in 1 .. Len(s) + Len(t) : (s \o t)[i] = IF i <= Len(s) THEN s[i] ELSE t[i - Len(s)]
  BY ConcatProperties, Zenon, LenProperties
<1>2. IsFiniteSet(A) /\ IsFiniteSet(B)
  BY CountIs
<1>3. f \in Bijection(B, C)
  <2>1. f \in [B -> C]
    BY <1>1 DEF Where
  <2>2. \A i, j \in B : f[i] = f[j] => i = j
    BY <1>1 DEF Where
  <2>3. ASSUME NEW c \in C PROVE \E i \in B : f[i] = c
    <3>1. c - Len(s) \in B
      BY <1>1 DEF Where
    <3>2. f[c - Len(s)] = c
      BY <1>1, <3>1
    <3> QED
      BY <3>1, <3>2
  <2> QED
    BY <2>1, <2>2, <2>3 DEF Bijection, Injection, Surjection, IsInjective
<1>4. IsFiniteSet(C) /\ Cardinality(C) = Cardinality(B)
  <2>1. ExistsBijection(B, C)
    BY <1>3 DEF ExistsBijection
  <2> QED
    BY <1>2, <2>1, FS_Bijection
<1>5. Where(x, s \o t) = A \cup C
  BY <1>1 DEF Where
<1>6. A \cap C = {}
  BY <1>1 DEF Where
<1>7. /\ Cardinality(A) \in Nat /\ Cardinality(C) \in Nat
      /\ Cardinality(A \cup C) = Cardinality(A) + Cardinality(C) - Cardinality(A \cap C)
  BY <1>2, <1>4, FS_Union, FS_CardinalityType
<1>8. Cardinality(A \cup C) = Cardinality(A) + Cardinality(B)
  <2>1. Cardinality(A \cap C) = 0
    BY <1>6, FS_EmptySet, Zenon
  <2> HIDE DEF A, B, C
  <2> QED
    BY <1>4, <1>7, <2>1
<1>9. Count(x, s \o t) = Cardinality(A \cup C)
  <2>1. Count(x, s \o t) = Cardinality(Where(x, s \o t))
    BY <1>1, CountIs
  <2> QED
    BY <1>5, <2>1
<1>10. Count(x, s) = Cardinality(A) /\ Count(x, t) = Cardinality(B)
  BY CountIs
<1> QED
  BY <1>8, <1>9, <1>10

LEMMA CountSingle ==
  ASSUME NEW x, NEW e
  PROVE  Count(x, <<e>>) = One(e = x) /\ Count(x, <<>>) = 0
<1>1. Cardinality({}) = 0 /\ Cardinality({1}) = 1
  BY FS_Singleton, FS_EmptySet
<1>2. {i \in DOMAIN <<>> : <<>>[i] = x} = {}
  OBVIOUS
<1>3. {i \in DOMAIN <<e>> : <<e>>[i] = x} = IF e = x THEN {1} ELSE {}
  OBVIOUS
<1>4. Count(x, <<e>>) = Cardinality(IF e = x THEN {1} ELSE {}) /\ Count(x, <<>>) = Cardinality({})
  BY <1>2, <1>3 DEF Count
<1> QED
  BY <1>1, <1>4 DEF One

LEMMA CountAppend ==
  ASSUME NEW S, NEW s \in Seq(S), NEW e \in S, NEW x
  PROVE  Count(x, Append(s, e)) = Count(x, s) + One(e = x)
<1>1. Append(s, e) = s \o <<e>> /\ <<e>> \in Seq(S)
  BY AppendIsConcat, SingleSeq
<1>2. Count(x, s \o <<e>>) = Count(x, s) + Count(x, <<e>>)
  BY <1>1, CountConcat
<1> QED
  BY <1>1, <1>2, CountSingle

LEMMA CountHead ==
  ASSUME NEW S, NEW s \in Seq(S), s # <<>>, NEW x
  PROVE  Count(x, s) = One(Head(s) = x) + Count(x, Tail(s))
<1>1. Head(s) \in S /\ Tail(s) \in Seq(S)
  BY HeadTailProperties
<1>2. s = <<Head(s)>> \o Tail(s)
  BY <1>1
<1>3. <<Head(s)>> \in Seq(S)
  BY <1>1, SingleSeq
<1> DEFINE first == <<Head(s)>>
           rest == Tail(s)
<1> HIDE DEF first, rest
<1>4. Count(x, first \o rest) = Count(x, first) + Count(x, rest)
  BY <1>1, <1>3, CountConcat DEF first, rest
<1>5. Count(x, first) = One(Head(s) = x)
  BY CountSingle DEF first
<1> QED
  BY <1>2, <1>4, <1>5 DEF first, rest

\* An entry is before the cut, or after it.
LEMMA CountCut ==
  ASSUME NEW S, NEW s \in Seq(S), NEW n \in 0 .. Len(s) - 1, NEW x
  PROVE  Count(x, s) = Count(x, SubSeq(s, 1, n)) + Count(x, SubSeq(s, n + 1, Len(s)))
<1>1. Len(s) \in Nat /\ n \in Nat /\ \A i \in 1 .. Len(s) : s[i] \in S
  OBVIOUS
<1>2. SubSeq(s, 1, n) \in Seq(S) /\ SubSeq(s, n + 1, Len(s)) \in Seq(S)
  <2>1. \A i \in 1 .. n : s[i] \in S
    BY <1>1
  <2>2. \A i \in n + 1 .. Len(s) : s[i] \in S
    BY <1>1
  <2> QED
    BY <1>1, <2>1, <2>2, SubSeqProperties
<1>3. SubSeq(s, 1, n) \o SubSeq(s, n + 1, Len(s)) = SubSeq(s, 1, Len(s))
  BY <1>1, ConcatAdjacentSubSeq
<1>4. SubSeq(s, 1, Len(s)) = s
  BY <1>1
<1> DEFINE before == SubSeq(s, 1, n)
           after == SubSeq(s, n + 1, Len(s))
<1> HIDE DEF before, after
<1>5. Count(x, before \o after) = Count(x, before) + Count(x, after)
  BY <1>2, CountConcat DEF before, after
<1> QED
  BY <1>3, <1>4, <1>5 DEF before, after

-----------------------------------------------------------------------------
(* The appends of a run, when callers await their calls.                   *)

Still(p) ==
  /\ flying' \in {flying, [flying EXCEPT ![p] = NoAppend]}
  /\ UNCHANGED <<branch, pending>>

Begins(p) ==
  /\ \E f : f.base = branch /\ flying' = [flying EXCEPT ![p] = f]
  /\ UNCHANGED <<branch, pending>>

Ends(p) ==
  /\ flying[p] # NoAppend
  /\ flying' = [flying EXCEPT ![p] = NoAppend]
  /\ \/ /\ run[p].list # <<>>
        /\ branch' = Append(flying[p].base, Head(run[p].list))
        /\ pending' = pending
     \/ /\ pending # <<>>
        /\ branch' = Append(flying[p].base, Head(pending))
        /\ pending' = Tail(pending)

LEMMA StepShape ==
  ASSUME PInv, NEW p \in Prompt, Step(p)
  PROVE  /\ MayStep(p) /\ phase' \in {phase, "idle"} /\ UNCHANGED <<left, accepted, queued>>
         /\ Still(p) \/ Begins(p) \/ Ends(p)
<1> DEFINE G == /\ MayStep(p) /\ phase' \in {phase, "idle"} /\ UNCHANGED <<left, accepted, queued>>
                /\ Still(p) \/ Begins(p) \/ Ends(p)
<1>1. RunOK(p)
  BY DEF PInv
<1>2. CASE TakeNextTurn(p) \/ StartLoop(p)
  BY <1>2, Zenon DEF TakeNextTurn, StartLoop, session, Still
<1>3. CASE StartFails(p) \/ NextTurnRollsBack(p) \/ HookFails(p)
  BY <1>3, Zenon DEF StartFails, NextTurnRollsBack, HookFails, Reject, session, Still
<1>4. CASE AppendMessage(p) \/ FlushNext(p)
  <2>1. PICK e : flying' = [flying EXCEPT ![p] = [entry |-> e, base |-> branch]]
    BY <1>4, Zenon DEF AppendMessage, FlushNext
  <2>2. [entry |-> e, base |-> branch].base = branch
    OBVIOUS
  <2>3. MayStep(p) /\ UNCHANGED <<phase, left, accepted, queued, branch, pending>>
    BY <1>4, Zenon DEF AppendMessage, FlushNext, Outside
  <2> QED
    BY <2>1, <2>2, <2>3, Zenon DEF Begins
<1>5. CASE RunFails(p) \/ SavePointFails(p) \/ AppendFails(p) \/ SettledFails(p)
  BY <1>5, Zenon DEF RunFails, SavePointFails, AppendFails, SettledFails, Throw, Outside, Still
<1>6. CASE DrainRollsBack(p)
  BY <1>6, Zenon DEF DrainRollsBack, Throw, Still
<1>7. CASE Appended(p)
  <2>1. /\ pc[p] = "recording" /\ flying[p] # NoAppend /\ MayStep(p)
        /\ branch' = Append(flying[p].base, flying[p].entry)
        /\ flying' = [flying EXCEPT ![p] = NoAppend]
        /\ UNCHANGED <<phase, left, accepted, queued, pending>>
    BY <1>7, Zenon DEF Appended, Throw, Outside
  <2>2. run[p].list # <<>> /\ flying[p].entry = Head(run[p].list)
    BY <1>1, <2>1 DEF RunOK
  <2> QED
    BY <2>1, <2>2 DEF Ends
<1>8. CASE FlushAppended(p)
  <2>1. /\ pc[p] = "flushing" /\ flying[p] # NoAppend /\ MayStep(p)
        /\ branch' = Append(flying[p].base, flying[p].entry)
        /\ flying' = [flying EXCEPT ![p] = NoAppend]
        /\ pending' = IF pending = <<>> THEN <<>> ELSE Tail(pending)
        /\ UNCHANGED <<phase, left, accepted, queued>>
    BY <1>8, Zenon DEF FlushAppended
  <2>2. pending # <<>> /\ flying[p].entry = Head(pending)
    BY <1>1, <2>1 DEF RunOK
  <2> QED
    BY <2>1, <2>2 DEF Ends
<1>9. CASE Recorded(p) \/ ProviderReplies(p) \/ TurnEnds(p) \/ SavePoint(p) \/ Snapshot(p)
  BY <1>9, Zenon DEF Recorded, ProviderReplies, TurnEnds, SavePoint, Snapshot, session, Outside,
       Still
<1>10. CASE Drained(p) \/ Settled(p)
  BY <1>10, Zenon DEF Drained, Settled, session, Outside, Still
<1>11. CASE Poll(p) \/ PollFollowUp(p)
  BY <1>11, Zenon DEF Poll, PollFollowUp, session, Still
<1>12. CASE FlushFails(p)
  BY <1>12, Zenon DEF FlushFails, Throw, Finish, Still
<1>13. CASE Flushed(p)
  BY <1>13, Zenon DEF Flushed, Throw, Finish, Still
<1> HIDE DEF G
<1>14. G
  BY <1>2, <1>3, <1>4, <1>5, <1>6, <1>7, <1>8, <1>9, <1>10, <1>11, <1>12, <1>13 DEF Step, G
<1> QED
  BY <1>14 DEF G

\* Nothing else is in flight.
LEMMA OnlyFlight ==
  ASSUME PInv, Detached = {}, NEW p \in Prompt, MayStep(p)
  PROVE  /\ phase # "structural"
         /\ \A a \in Prompt \cup Write : a # p => flying[a] = NoAppend
<1>1. phase # "structural" /\ Apart(p)
  BY Turns
<1>2. ~WritesInFlight
  BY DEF MayStep
<1>3. ASSUME NEW q \in Prompt \ {p} PROVE flying[q] = NoAppend
  BY <1>1 DEF Apart, Active, PInv, RunOK
<1> QED
  BY <1>1, <1>2, <1>3 DEF WritesInFlight

LEMMA StepFly ==
  ASSUME PInv, FlyOK, Detached = {}, NEW p \in Prompt, Step(p) PROVE FlyOK'
<1>1. /\ MayStep(p) /\ phase' \in {phase, "idle"}
      /\ Still(p) \/ Begins(p) \/ Ends(p)
  BY StepShape
<1>2. /\ phase # "structural"
      /\ \A a \in Prompt \cup Write : a # p => flying[a] = NoAppend
  BY <1>1, OnlyFlight
<1>3. flying \in [Prompt \cup Write -> [entry : Entry \cup {None}, base : Seq(Entry)]]
  BY DEF PInv, HTypeOK
<1>4. \A a \in Prompt \cup Write : a # p => flying'[a] = NoAppend
  BY <1>1, <1>2, <1>3 DEF Still, Begins, Ends
<1>5. flying'[p] = NoAppend \/ flying'[p].base = branch'
  BY <1>1, <1>3 DEF Still, Begins, Ends, FlyOK
<1>6. p \notin Write
  BY EntriesAssumption
<1>7. ~WritesInFlight'
  BY <1>4, <1>6 DEF WritesInFlight
<1> QED
  BY <1>1, <1>2, <1>4, <1>5, <1>7 DEF FlyOK

LEMMA CallerFly ==
  ASSUME PInv, FlyOK, Detached = {},
         \/ \E p \in Prompt : StartPrompt(p)
         \/ \E m \in Message : Steer(m) \/ FollowUp(m) \/ NextTurn(m)
         \/ \E w \in Write : QueueWrite(w) \/ BeginWrite(w) \/ EndWrite(w)
         \/ BeginStructural \/ EndStructural \/ Abort \/ UNCHANGED hvars
  PROVE  FlyOK'
<1>1. flying \in [Prompt \cup Write -> [entry : Entry \cup {None}, base : Seq(Entry)]]
  BY DEF PInv, HTypeOK
<1>2. CASE \E p \in Prompt : StartPrompt(p)
  <2>1. /\ phase' = "turn" /\ UNCHANGED <<branch, flying>>
        /\ \A a \in Prompt \cup Write : flying[a] = NoAppend
    BY <1>1, <1>2 DEF StartPrompt, MayCall, session
  <2> QED
    BY <2>1 DEF FlyOK, WritesInFlight
<1>3. CASE \E m \in Message : Steer(m) \/ FollowUp(m) \/ NextTurn(m)
  <2>1. UNCHANGED <<phase, branch, flying>>
    BY <1>3 DEF Steer, FollowUp, NextTurn, NewMessage, session
  <2> QED
    BY <2>1 DEF FlyOK, WritesInFlight
<1>4. ASSUME NEW w \in Write, QueueWrite(w) PROVE FlyOK'
  <2>1. UNCHANGED <<phase, branch, flying>>
    BY <1>4 DEF QueueWrite, session
  <2> QED
    BY <2>1 DEF FlyOK, WritesInFlight
<1>5. ASSUME NEW w \in Write, BeginWrite(w) PROVE FlyOK'
  <2>1. /\ phase = "idle" /\ UNCHANGED <<phase, branch>>
        /\ flying' = [flying EXCEPT ![w] = [entry |-> w, base |-> branch]]
        /\ \A a \in Prompt \cup Write : flying[a] = NoAppend
    BY <1>1, <1>5 DEF BeginWrite, MayCall
  <2>2. /\ flying'[w].base = branch
        /\ \A a \in Prompt \cup Write : a # w => flying'[a] = NoAppend
    BY <1>1, <2>1
  <2> QED
    BY <2>1, <2>2 DEF FlyOK
<1>6. ASSUME NEW w \in Write, EndWrite(w) PROVE FlyOK'
  <2>1. /\ flying[w] # NoAppend /\ flying' = [flying EXCEPT ![w] = NoAppend] /\ phase' = phase
    BY <1>6 DEF EndWrite
  <2>2. \A a \in Prompt \cup Write : flying'[a] = NoAppend
    BY <1>1, <2>1 DEF FlyOK
  <2> QED
    BY <2>2 DEF FlyOK, WritesInFlight
<1>7. CASE BeginStructural
  <2>1. UNCHANGED <<branch, flying>> /\ \A a \in Prompt \cup Write : flying[a] = NoAppend
    BY <1>1, <1>7 DEF BeginStructural, MayCall, session
  <2> QED
    BY <2>1 DEF FlyOK, WritesInFlight
<1>8. CASE EndStructural
  <2>1. phase = "structural" /\ flying' = flying
    BY <1>8 DEF EndStructural
  <2> QED
    BY <2>1 DEF FlyOK, WritesInFlight
<1>9. CASE Abort
  <2>1. UNCHANGED <<phase, branch, flying>>
    BY <1>9 DEF Abort, session
  <2> QED
    BY <2>1 DEF FlyOK, WritesInFlight
<1>10. CASE UNCHANGED hvars
  BY <1>10 DEF hvars, session, FlyOK, WritesInFlight
<1> QED
  BY <1>2, <1>3, <1>4, <1>5, <1>6, <1>7, <1>8, <1>9, <1>10

-----------------------------------------------------------------------------
(* The writes.                                                             *)

LEMMA StepWrites ==
  ASSUME PInv, FlyOK, WritesOK, Detached = {}, NEW p \in Prompt, Step(p) PROVE WritesOK'
<1>1. /\ MayStep(p) /\ UNCHANGED <<left, accepted>>
      /\ Still(p) \/ Begins(p) \/ Ends(p)
  BY StepShape
<1>2. \A a \in Prompt \cup Write : a # p => flying[a] = NoAppend
  BY <1>1, OnlyFlight
<1>3. /\ HTypeOK /\ pending \in Seq(Write) /\ branch \in Seq(Entry)
      /\ flying \in [Prompt \cup Write -> [entry : Entry \cup {None}, base : Seq(Entry)]]
  BY DEF PInv, HTypeOK
<1>4. SUFFICES ASSUME NEW w \in Write
               PROVE  /\ w \notin accepted => Count(w, pending)' = 0 /\ Count(w, branch)' = 0
                      /\ w \in accepted =>
                           w \in left \/ Count(w, pending)' + Count(w, branch)' = 1
                      /\ flying'[w] = NoAppend
  BY <1>1 DEF WritesOK
<1>5. w \in Entry /\ w # p /\ w \notin Recordable
  BY EntriesAssumption DEF Entry, Recordable, Kind
<1>6. flying[w] = NoAppend /\ flying'[w] = NoAppend
  BY <1>1, <1>2, <1>3, <1>5 DEF Still, Begins, Ends
<1>7. /\ w \notin accepted => Count(w, pending) = 0 /\ Count(w, branch) = 0
      /\ w \in accepted => w \in left \/ Count(w, pending) + Count(w, branch) = 1
      /\ Count(w, pending) \in Nat /\ Count(w, branch) \in Nat
  BY <1>3, <1>6, CountIs DEF WritesOK
<1>8. CASE UNCHANGED <<branch, pending>>
  BY <1>6, <1>7, <1>8
<1>9. CASE Ends(p)
  <2>1. flying[p].base = branch
    BY <1>9 DEF Ends, FlyOK
  <2>2. CASE /\ run[p].list # <<>> /\ branch' = Append(branch, Head(run[p].list))
             /\ pending' = pending
    <3>1. run[p].list \in Seq(Recordable) /\ Recordable \subseteq Entry
      BY <1>3, RunFields DEF Recordable, Entry
    <3>2. Head(run[p].list) \in Entry /\ Head(run[p].list) # w
      BY <1>5, <2>2, <3>1
    <3>3. Count(w, branch') = Count(w, branch) + One(Head(run[p].list) = w)
      BY <1>3, <2>2, <3>2, CountAppend
    <3> QED
      BY <1>6, <1>7, <2>2, <3>2, <3>3 DEF One
  <2>3. CASE /\ pending # <<>> /\ branch' = Append(branch, Head(pending))
             /\ pending' = Tail(pending)
    <3>1. Head(pending) \in Write /\ Head(pending) \in Entry /\ Tail(pending) \in Seq(Write)
      BY <1>3, <2>3 DEF Entry
    <3>2. Count(w, branch') = Count(w, branch) + One(Head(pending) = w)
      BY <1>3, <2>3, <3>1, CountAppend
    <3>3. Count(w, pending) = One(Head(pending) = w) + Count(w, pending')
      BY <1>3, <2>3, CountHead
    <3>4. Count(w, pending') \in Nat
      BY <2>3, <3>1, CountIs
    <3> QED
      BY <1>6, <1>7, <3>2, <3>3, <3>4 DEF One
  <2> QED
    BY <1>9, <2>1, <2>2, <2>3 DEF Ends
<1> QED
  BY <1>1, <1>8, <1>9 DEF Still, Begins

LEMMA CallerWrites ==
  ASSUME PInv, FlyOK, WritesOK, Detached = {},
         \/ \E p \in Prompt : StartPrompt(p)
         \/ \E m \in Message : Steer(m) \/ FollowUp(m) \/ NextTurn(m)
         \/ \E w \in Write : QueueWrite(w) \/ BeginWrite(w) \/ EndWrite(w)
         \/ BeginStructural \/ EndStructural \/ Abort \/ UNCHANGED hvars
  PROVE  WritesOK'
<1>1. /\ pending \in Seq(Write) /\ branch \in Seq(Entry)
      /\ flying \in [Prompt \cup Write -> [entry : Entry \cup {None}, base : Seq(Entry)]]
      /\ \A w \in Write : w \in Entry /\ w # "compaction" /\ w \notin Prompt
  BY EntriesAssumption DEF PInv, HTypeOK, Entry
<1>2. CASE UNCHANGED <<pending, branch, left, flying, accepted>>
  BY <1>2 DEF WritesOK
<1>3. ASSUME NEW w \in Write, QueueWrite(w) PROVE WritesOK'
  <2>1. /\ phase # "idle" /\ w \notin accepted /\ accepted' = accepted \cup {w}
        /\ pending' = Append(pending, w) /\ UNCHANGED <<branch, left, flying>>
    BY <1>3 DEF QueueWrite, session
  <2>2. \A v \in Write : flying[v] = NoAppend
    BY <2>1 DEF FlyOK, WritesInFlight
  <2>3. ASSUME NEW v \in Write
        PROVE  /\ Count(v, pending') = Count(v, pending) + One(w = v)
               /\ Count(v, pending) \in Nat /\ Count(v, branch) \in Nat
    BY <1>1, <2>1, CountAppend, CountIs
  <2> QED
    BY <2>1, <2>2, <2>3 DEF WritesOK, One
<1>4. ASSUME NEW w \in Write, BeginWrite(w) PROVE WritesOK'
  <2>1. /\ w \notin accepted /\ accepted' = accepted \cup {w}
        /\ flying' = [flying EXCEPT ![w] = [entry |-> w, base |-> branch]]
        /\ UNCHANGED <<pending, branch, left>>
    BY <1>4 DEF BeginWrite
  <2>2. flying'[w].entry = w /\ flying'[w] # NoAppend
    <3>1. w # None
      BY EntriesAssumption
    <3>2. flying'[w] = [entry |-> w, base |-> branch]
      BY <1>1, <2>1
    <3>3. NoAppend.entry = None
      BY DEF NoAppend
    <3> QED
      BY <3>1, <3>2, <3>3
  <2>3. \A v \in Write : v # w => flying'[v] = flying[v]
    BY <1>1, <2>1
  <2>4. \A v \in Write : v # w => (v \in accepted' <=> v \in accepted)
    BY <2>1
  <2> QED
    BY <2>1, <2>2, <2>3, <2>4 DEF WritesOK
<1>5. ASSUME NEW w \in Write, EndWrite(w) PROVE WritesOK'
  <2>1. /\ flying[w] # NoAppend /\ flying' = [flying EXCEPT ![w] = NoAppend]
        /\ UNCHANGED <<pending, left>>
        /\ \/ branch' = Append(branch, w) /\ accepted' = accepted
           \/ branch' = branch /\ accepted' = accepted \ {w}
    BY <1>5 DEF EndWrite, FlyOK
  <2>2. \A v \in Write : v # w => flying[v] = NoAppend
    BY <2>1 DEF FlyOK
  <2>3. \A v \in Write : flying'[v] = NoAppend
    BY <1>1, <2>1, <2>2
  <2>4. w \in accepted /\ Count(w, pending) = 0 /\ Count(w, branch) = 0
    BY <2>1 DEF WritesOK
  <2>5. ASSUME NEW v \in Write
        PROVE  /\ Count(v, Append(branch, w)) = Count(v, branch) + One(w = v)
               /\ Count(v, pending) \in Nat /\ Count(v, branch) \in Nat
    BY <1>1, CountAppend, CountIs
  <2>6. CASE branch' = Append(branch, w) /\ accepted' = accepted
    BY <2>1, <2>2, <2>3, <2>4, <2>5, <2>6 DEF WritesOK, One
  <2>7. CASE branch' = branch /\ accepted' = accepted \ {w}
    BY <2>1, <2>2, <2>3, <2>4, <2>7 DEF WritesOK
  <2> QED
    BY <2>1, <2>6, <2>7
<1>6. CASE EndStructural
  <2>1. phase = "structural" /\ UNCHANGED <<pending, flying, accepted>>
    BY <1>6 DEF EndStructural
  <2>2. \A v \in Write : flying[v] = NoAppend /\ flying'[v] = NoAppend
    BY <2>1 DEF FlyOK
  <2>3. ASSUME NEW v \in Write PROVE Count(v, pending) \in Nat /\ Count(v, branch) \in Nat
    BY <1>1, CountIs
  <2>4. CASE branch' = Append(branch, "compaction") /\ left' = left
    <3>1. "compaction" \in Entry
      BY DEF Entry, Kind
    <3>2. ASSUME NEW v \in Write PROVE Count(v, branch') = Count(v, branch) + One("compaction" = v)
      BY <1>1, <2>4, <3>1, CountAppend
    <3>3. ASSUME NEW v \in Write PROVE Count(v, branch') = Count(v, branch)
      BY <1>1, <2>3, <3>2 DEF One
    <3> QED
      BY <2>1, <2>2, <2>4, <3>3 DEF WritesOK
  <2>5. ASSUME NEW n \in 0 .. Len(branch) - 1, branch' = SubSeq(branch, 1, n),
               left' = left \cup Range(SubSeq(branch, n + 1, Len(branch)))
        PROVE  WritesOK'
    <3> DEFINE rest == SubSeq(branch, n + 1, Len(branch))
    <3>1. branch' \in Seq(Entry) /\ rest \in Seq(Entry)
      <4>1. \A i \in n + 1 .. Len(branch) : branch[i] \in Entry
        BY <1>1
      <4>2. \A i \in 1 .. n : branch[i] \in Entry
        BY <1>1
      <4>3. rest \in Seq(Entry)
        BY <1>1, <4>1, SubSeqProperties
      <4>4. SubSeq(branch, 1, n) \in Seq(Entry)
        BY <1>1, <4>2, SubSeqProperties
      <4> QED
        BY <2>5, <4>3, <4>4
    <3>2. ASSUME NEW v \in Write PROVE Count(v, branch) = Count(v, branch') + Count(v, rest)
      BY <1>1, <2>5, CountCut
    <3> HIDE DEF rest
    <3>3. ASSUME NEW v \in Write
          PROVE  /\ Count(v, branch') \in Nat /\ Count(v, rest) \in Nat
                 /\ Count(v, rest) = 0 \/ v \in left'
      <4>1. Count(v, rest) \in Nat /\ (Count(v, rest) = 0 <=> v \notin Range(rest))
        BY <3>1, CountIs
      <4>2. Count(v, branch') \in Nat
        BY <3>1, CountIs
      <4> QED
        BY <2>5, <4>1, <4>2 DEF rest
    <3>4. left \subseteq left'
      BY <2>5
    <3> QED
      BY <2>1, <2>2, <2>3, <3>2, <3>3, <3>4 DEF WritesOK
  <2> QED
    BY <1>2, <1>6, <2>1, <2>4, <2>5, Zenon DEF EndStructural
<1>7. CASE \/ \E p \in Prompt : StartPrompt(p)
           \/ \E m \in Message : Steer(m) \/ FollowUp(m) \/ NextTurn(m)
           \/ BeginStructural \/ Abort \/ UNCHANGED hvars
  <2>1. UNCHANGED <<pending, branch, left, flying, accepted>>
    BY <1>7, Zenon DEF StartPrompt, Steer, FollowUp, NextTurn, NewMessage, BeginStructural, Abort,
         hvars, session
  <2> QED
    BY <1>2, <2>1
<1> QED
  BY <1>3, <1>4, <1>5, <1>6, <1>7

-----------------------------------------------------------------------------
(* What the agent loop knows of the session.                               *)

\* Where no context is needed.
Unasked(p) ==
  \/ pc'[p] \notin {"taken", "recording", "poll", "poll follow-up", "drained", "model"}
  \/ pc'[p] = "recording" /\ run'[p].then \notin {"poll", "model"}

Keeps(p) == (\A q \in Prompt \ {p} : pc'[q] = pc[q]) /\ ContextOK(p)'

LEMMA UnaskedContext ==
  ASSUME NEW p \in Prompt, \A q \in Prompt \ {p} : pc'[q] = pc[q], Unasked(p) PROVE Keeps(p)
BY DEF Unasked, ContextOK, Keeps

LEMMA LeavesContext ==
  ASSUME HTypeOK, NEW p \in Prompt,
         NEW label \in Label \ {"taken", "recording", "poll", "poll follow-up", "drained", "model"},
         Go(p, label)
  PROVE  Keeps(p)
BY GoFacts, UnaskedContext DEF Unasked

LEMMA ThrowContext ==
  ASSUME HTypeOK, NEW p \in Prompt, Throw(p) PROVE Keeps(p)
<1>1. CASE run[p].failing
  <2>1. Go(p, "flushing")
    BY <1>1 DEF Throw
  <2>2. "flushing" \in Label \ {"taken", "recording", "poll", "poll follow-up", "drained", "model"}
    BY DEF Label
  <2> QED
    BY <2>1, <2>2, LeavesContext
<1>2. CASE ~run[p].failing
  <2> DEFINE r == [run[p] EXCEPT !.failing = TRUE, !.reply = "stop", !.thrown = FALSE,
                                 !.list = <<"failure">>, !.then = "turn end"]
  <2>1. run' = [run EXCEPT ![p] = r] /\ Go(p, "recording")
    BY <1>2 DEF Throw
  <2>2. r.then = "turn end"
    BY RunFields DEF Run
  <2> HIDE DEF r
  <2>3. run'[p].then = "turn end"
    BY <2>1, <2>2 DEF HTypeOK
  <2>4. pc'[p] = "recording" /\ \A q \in Prompt \ {p} : pc'[q] = pc[q]
    BY <2>1, GoFacts DEF Label
  <2> QED
    BY <2>3, <2>4, UnaskedContext DEF Unasked
<1> QED
  BY <1>1, <1>2

LEMMA StartContext ==
  ASSUME PInv, NEW p \in Prompt, ContextOK(p),
         TakeNextTurn(p) \/ StartFails(p) \/ NextTurnRollsBack(p) \/ HookFails(p) \/ StartLoop(p)
  PROVE  Keeps(p)
<1>1. HTypeOK /\ RunOK(p) /\ run[p] \in Run /\ branch \in Seq(Entry)
  BY RunFields DEF PInv, HTypeOK
<1>2. CASE TakeNextTurn(p)
  <2> DEFINE r == [run[p] EXCEPT !.context = branch, !.list = nextTurnQueue]
  <2>1. run' = [run EXCEPT ![p] = r] /\ Go(p, "taken") /\ branch' = branch
    BY <1>2 DEF TakeNextTurn, session
  <2>2. r.context = branch
    BY <1>1 DEF Run
  <2> HIDE DEF r
  <2>3. run'[p].context = branch'
    BY <1>1, <2>1, <2>2 DEF HTypeOK
  <2>4. pc'[p] = "taken" /\ \A q \in Prompt \ {p} : pc'[q] = pc[q]
    BY <1>1, <2>1, GoFacts DEF Label
  <2> QED
    BY <2>3, <2>4 DEF Keeps, ContextOK
<1>3. CASE StartFails(p) \/ NextTurnRollsBack(p) \/ HookFails(p)
  <2>1. Go(p, "done")
    BY <1>3, Zenon DEF StartFails, NextTurnRollsBack, HookFails, Reject
  <2> QED
    BY <1>1, <2>1, LeavesContext DEF Label
<1>4. CASE StartLoop(p)
  <2> DEFINE list == run[p].list \o <<p>>
             context == run[p].context \o run[p].list \o <<p>>
             r == [run[p] EXCEPT !.list = list, !.context = context]
  <2>1. /\ pc[p] = "taken" /\ run' = [run EXCEPT ![p] = r] /\ Go(p, "recording")
        /\ branch' = branch
    BY <1>4 DEF StartLoop, session
  <2>2. context = branch \o list
    <3>1. run[p].context = branch
      BY <2>1 DEF ContextOK
    <3>2. run[p].list \in Seq(Recordable) /\ p \in Recordable /\ Recordable \subseteq Entry
      BY <1>1, RunFields DEF Recordable, Entry
    <3>3. run[p].list \in Seq(Entry) /\ <<p>> \in Seq(Entry)
      BY <3>2, SeqMonotonic, SingleSeq
    <3> DEFINE before == run[p].list
               last == <<p>>
    <3>4. before \in Seq(Entry) /\ last \in Seq(Entry)
      BY <3>3
    <3> HIDE DEF before, last
    <3>5. (branch \o before) \o last = branch \o (before \o last)
      BY <1>1, <3>4, ConcatAssociative
    <3> QED
      BY <3>1, <3>5 DEF before, last
  <2> HIDE DEF list, context
  <2>3. r.context = context /\ r.list = list
    BY <1>1 DEF Run
  <2> HIDE DEF r
  <2>4. run'[p].context = branch' \o run'[p].list
    BY <1>1, <2>1, <2>2, <2>3 DEF HTypeOK
  <2>5. pc'[p] = "recording" /\ \A q \in Prompt \ {p} : pc'[q] = pc[q]
    BY <1>1, <2>1, GoFacts DEF Label
  <2> QED
    BY <2>4, <2>5 DEF Keeps, ContextOK
<1> QED
  BY <1>2, <1>3, <1>4

LEMMA RecordContext ==
  ASSUME PInv, FlyOK, NEW p \in Prompt, ContextOK(p),
         AppendMessage(p) \/ Appended(p) \/ Recorded(p)
  PROVE  Keeps(p)
<1>1. HTypeOK /\ RunOK(p) /\ run[p] \in Run /\ branch \in Seq(Entry)
  BY RunFields DEF PInv, HTypeOK
<1>2. run[p].list \in Seq(Recordable) /\ Recordable \subseteq Entry
  BY <1>1, RunFields DEF Recordable, Entry
<1>3. run[p].list \in Seq(Entry)
  BY <1>2, SeqMonotonic
<1>4. CASE AppendMessage(p)
  BY <1>4, Zenon DEF AppendMessage, calls, Keeps, ContextOK
<1>5. CASE Appended(p)
  <2>1. /\ pc[p] = "recording" /\ flying[p] # NoAppend
        /\ branch' = Append(flying[p].base, flying[p].entry)
    BY <1>5, Zenon DEF Appended
  <2>2. run[p].list # <<>> /\ flying[p].entry = Head(run[p].list) /\ flying[p].base = branch
    BY <1>1, <2>1 DEF RunOK, FlyOK
  <2> DEFINE r == [run[p] EXCEPT !.list = Tail(run[p].list)]
  <2>3. CASE run' = [run EXCEPT ![p] = r] /\ pc' = pc
    <3>1. /\ r.list = Tail(run[p].list) /\ r.context = run[p].context /\ r.then = run[p].then
          /\ r.continued = run[p].continued
      BY <1>1 DEF Run
    <3> HIDE DEF r
    <3>2. run'[p] = r
      BY <1>1, <2>3 DEF HTypeOK
    <3>3. branch \o run[p].list = branch' \o Tail(run[p].list)
      <4> DEFINE first == Head(run[p].list)
                 rest == Tail(run[p].list)
      <4>1. first \in Entry /\ rest \in Seq(Entry)
        BY <1>3, <2>2, HeadTailProperties
      <4>2. run[p].list = <<first>> \o rest
        BY <1>3, <2>2
      <4>3. branch' = branch \o <<first>>
        BY <1>1, <2>1, <2>2, <4>1, AppendIsConcat
      <4> HIDE DEF first, rest
      <4>4. (branch \o <<first>>) \o rest = branch \o (<<first>> \o rest)
        BY <1>1, <4>1, SingleSeq, ConcatAssociative
      <4> QED
        BY <4>2, <4>3, <4>4 DEF rest
    <3> QED
      BY <2>1, <2>3, <3>1, <3>2, <3>3 DEF Keeps, ContextOK
  <2>4. CASE Throw(p)
    BY <1>1, <2>4, ThrowContext
  <2> QED
    BY <1>5, <2>3, <2>4, Zenon DEF Appended
<1>6. CASE Recorded(p)
  <2>1. pc[p] = "recording" /\ run[p].list = <<>> /\ branch' = branch
    BY <1>6, Zenon DEF Recorded, session
  <2>2. branch \o run[p].list = branch
    BY <1>1, <2>1, ConcatEmptySeq
  <2>3. CASE run[p].then \in {"poll", "model"} /\ Go(p, run[p].then) /\ run' = run
    <3>1. pc'[p] = run[p].then /\ \A q \in Prompt \ {p} : pc'[q] = pc[q]
      BY <1>1, <2>3, GoFacts DEF Label
    <3> QED
      BY <2>1, <2>2, <2>3, <3>1 DEF Keeps, ContextOK
  <2> DEFINE r == [run[p] EXCEPT !.list = <<"results">>, !.then = "turn end",
                                 !.context = Append(run[p].context, "results")]
  <2>4. CASE run' = [run EXCEPT ![p] = r] /\ pc' = pc
    <3>1. r.then = "turn end"
      BY <1>1 DEF Run
    <3> HIDE DEF r
    <3>2. run'[p].then = "turn end"
      BY <1>1, <2>4, <3>1 DEF HTypeOK
    <3> QED
      BY <2>1, <2>4, <3>2, UnaskedContext DEF Unasked
  <2>5. CASE Go(p, "turn end")
    BY <1>1, <2>5, LeavesContext DEF Label
  <2> QED
    BY <1>6, <2>3, <2>4, <2>5, Zenon DEF Recorded
<1> QED
  BY <1>4, <1>5, <1>6

LEMMA LoopContext ==
  ASSUME PInv, NEW p \in Prompt, ContextOK(p),
         ProviderReplies(p) \/ TurnEnds(p) \/ SavePoint(p) \/ Snapshot(p) \/ Drained(p)
  PROVE  Keeps(p)
<1>1. HTypeOK /\ RunOK(p) /\ run[p] \in Run /\ branch \in Seq(Entry)
  BY RunFields DEF PInv, HTypeOK
<1>2. CASE ProviderReplies(p)
  <2>1. PICK r : /\ run' = [run EXCEPT ![p] = r] /\ r.then \in {"tools", "turn end"}
    <3>1. PICK reply \in {"calls", "length", "final", "stop"} :
            run' = [run EXCEPT ![p].reply = reply,
                               ![p].replies = IF reply \in {"calls", "length"} THEN @ + 1 ELSE @,
                               ![p].list = <<"reply">>, ![p].context = Append(@, "reply"),
                               ![p].then = IF reply = "calls" THEN "tools" ELSE "turn end"]
      BY <1>2, Zenon DEF ProviderReplies
    <3> DEFINE replies == IF reply \in {"calls", "length"} THEN run[p].replies + 1 ELSE run[p].replies
               context == Append(run[p].context, "reply")
               then == IF reply = "calls" THEN "tools" ELSE "turn end"
               r == [run[p] EXCEPT !.reply = reply, !.replies = replies, !.list = <<"reply">>,
                                   !.context = context, !.then = then]
    <3>2. run' = [run EXCEPT ![p] = r]
      BY <3>1, Zenon
    <3>3. then \in {"tools", "turn end"}
      OBVIOUS
    <3> HIDE DEF replies, context, then
    <3>4. r.then = then
      BY <1>1 DEF Run
    <3> QED
      BY <3>2, <3>3, <3>4
  <2>2. run'[p].then \in {"tools", "turn end"}
    BY <1>1, <2>1 DEF HTypeOK
  <2>3. pc'[p] = "recording" /\ \A q \in Prompt \ {p} : pc'[q] = pc[q]
    BY <1>1, <1>2, GoFacts DEF ProviderReplies, Label
  <2> QED
    BY <2>2, <2>3, UnaskedContext DEF Unasked
<1>3. CASE TurnEnds(p)
  <2>1. Go(p, "flushing")
    BY <1>3, Zenon DEF TurnEnds, Flush
  <2> QED
    BY <1>1, <2>1, LeavesContext DEF Label
<1>4. CASE SavePoint(p)
  <2> DEFINE r == [run[p] EXCEPT !.list = <<"continuation">>, !.then = "model",
                                 !.context = Append(run[p].context, "continuation"),
                                 !.continued = TRUE]
  <2>1. CASE Go(p, "flushing")
    BY <1>1, <2>1, LeavesContext DEF Label
  <2>2. CASE run' = [run EXCEPT ![p] = r] /\ Go(p, "recording")
    <3>1. r.continued = TRUE
      BY <1>1 DEF Run
    <3> HIDE DEF r
    <3>2. run'[p].continued = TRUE
      BY <1>1, <2>2, <3>1 DEF HTypeOK
    <3>3. pc'[p] = "recording" /\ \A q \in Prompt \ {p} : pc'[q] = pc[q]
      BY <1>1, <2>2, GoFacts DEF Label
    <3> QED
      BY <3>2, <3>3 DEF Keeps, ContextOK
  <2> QED
    BY <1>4, <2>1, <2>2, Zenon DEF SavePoint, Flush
<1>5. CASE Snapshot(p)
  <2> DEFINE r == [run[p] EXCEPT !.context = branch, !.continued = FALSE]
  <2>1. run' = [run EXCEPT ![p] = r] /\ Go(p, "poll") /\ branch' = branch
    BY <1>5 DEF Snapshot, session
  <2>2. r.context = branch
    BY <1>1 DEF Run
  <2> HIDE DEF r
  <2>3. run'[p].context = branch'
    BY <1>1, <2>1, <2>2 DEF HTypeOK
  <2>4. pc'[p] = "poll" /\ \A q \in Prompt \ {p} : pc'[q] = pc[q]
    BY <1>1, <2>1, GoFacts DEF Label
  <2> QED
    BY <2>3, <2>4 DEF Keeps, ContextOK
<1>6. CASE Drained(p)
  <2> DEFINE context == run[p].context \o run[p].list
             r == [run[p] EXCEPT !.then = "model", !.context = context]
  <2>1. pc[p] = "drained" /\ run' = [run EXCEPT ![p] = r] /\ Go(p, "recording") /\ branch' = branch
    BY <1>6 DEF Drained, session
  <2>2. /\ r.context = run[p].context \o run[p].list /\ r.list = run[p].list
        /\ r.continued = run[p].continued
    BY <1>1 DEF Run
  <2> HIDE DEF r, context
  <2>3. run'[p] = r
    BY <1>1, <2>1 DEF HTypeOK
  <2>4. pc'[p] = "recording" /\ \A q \in Prompt \ {p} : pc'[q] = pc[q]
    BY <1>1, <2>1, GoFacts DEF Label
  <2> QED
    BY <2>1, <2>2, <2>3, <2>4 DEF Keeps, ContextOK
<1> QED
  BY <1>2, <1>3, <1>4, <1>5, <1>6

LEMMA DrainContext ==
  ASSUME PInv, NEW p \in Prompt, ContextOK(p), Poll(p) \/ PollFollowUp(p)
  PROVE  Keeps(p)
<1>1. HTypeOK /\ RunOK(p) /\ run[p] \in Run /\ pc[p] \in {"poll", "poll follow-up"}
      /\ branch' = branch
  BY RunFields DEF PInv, Poll, PollFollowUp, session
<1>2. ASSUME NEW messages, Drain(p, messages) PROVE Keeps(p)
  <2> DEFINE r == [run[p] EXCEPT !.list = messages, !.replaced = FALSE, !.then = pc[p]]
  <2>1. run' = [run EXCEPT ![p] = r] /\ Go(p, "drained")
    BY <1>2, Zenon DEF Drain
  <2>2. r.context = run[p].context /\ r.continued = run[p].continued
    BY <1>1 DEF Run
  <2> HIDE DEF r
  <2>3. run'[p] = r
    BY <1>1, <2>1 DEF HTypeOK
  <2>4. pc'[p] = "drained" /\ \A q \in Prompt \ {p} : pc'[q] = pc[q]
    BY <1>1, <2>1, GoFacts DEF Label
  <2> QED
    BY <1>1, <2>2, <2>3, <2>4 DEF Keeps, ContextOK
<1>3. ASSUME NEW label \in {"poll follow-up", "model"}, Go(p, label), run' = run PROVE Keeps(p)
  <2>1. pc'[p] = label /\ \A q \in Prompt \ {p} : pc'[q] = pc[q]
    BY <1>1, <1>3, GoFacts DEF Label
  <2> QED
    BY <1>1, <1>3, <2>1 DEF Keeps, ContextOK
<1>4. CASE Go(p, "flushing")
  BY <1>1, <1>4, LeavesContext DEF Label
<1>5. \/ \E messages : Drain(p, messages)
      \/ \E label \in {"poll follow-up", "model"} : Go(p, label) /\ run' = run
      \/ Go(p, "flushing")
  <2>1. (IF run[p].reply = "final" THEN "poll follow-up" ELSE "model") \in {"poll follow-up", "model"}
    OBVIOUS
  <2> QED
    BY <2>1, Zenon DEF Poll, PollFollowUp, Flush
<1> QED
  BY <1>2, <1>3, <1>4, <1>5

LEMMA StepContext ==
  ASSUME PInv, FlyOK, \A q \in Prompt : ContextOK(q), Detached = {}, NEW p \in Prompt, Step(p)
  PROVE  \A q \in Prompt : ContextOK(q)'
<1>1. HTypeOK /\ RunOK(p) /\ ContextOK(p)
  BY DEF PInv
<1>2. Keeps(p)
  <2>1. CASE TakeNextTurn(p) \/ StartFails(p) \/ NextTurnRollsBack(p) \/ HookFails(p) \/ StartLoop(p)
    BY <1>1, <2>1, StartContext
  <2>2. CASE AppendMessage(p) \/ Appended(p) \/ Recorded(p)
    BY <1>1, <2>2, RecordContext
  <2>3. CASE ProviderReplies(p) \/ TurnEnds(p) \/ SavePoint(p) \/ Snapshot(p) \/ Drained(p)
    BY <1>1, <2>3, LoopContext
  <2>4. CASE Poll(p) \/ PollFollowUp(p)
    BY <1>1, <2>4, DrainContext
  <2>5. CASE RunFails(p) \/ SavePointFails(p) \/ AppendFails(p) \/ SettledFails(p) \/ DrainRollsBack(p)
    <3>1. Throw(p)
      BY <2>5, Zenon DEF RunFails, SavePointFails, AppendFails, SettledFails, DrainRollsBack
    <3> QED
      BY <1>1, <3>1, ThrowContext
  <2>6. CASE FlushNext(p) \/ FlushAppended(p)
    <3>1. pc[p] = "flushing" /\ pc' = pc
      BY <2>6, Zenon DEF FlushNext, FlushAppended, calls
    <3> QED
      BY <3>1, UnaskedContext DEF Unasked
  <2>7. CASE FlushFails(p) \/ Settled(p)
    <3>1. Throw(p) \/ Go(p, "done") \/ Go(p, "flushing")
      BY <2>7, Zenon DEF FlushFails, Finish, Settled, Flush
    <3> QED
      BY <1>1, <3>1, ThrowContext, LeavesContext DEF Label
  <2>8. CASE Flushed(p)
    <3>1. CASE Throw(p)
      BY <1>1, <3>1, ThrowContext
    <3>2. CASE run[p].back \in {"save point", "snapshot"} /\ Go(p, run[p].back)
      BY <1>1, <3>2, LeavesContext DEF Label
    <3>3. CASE Go(p, "settled") \/ Go(p, "done")
      BY <1>1, <3>3, LeavesContext DEF Label
    <3> QED
      BY <2>8, <3>1, <3>2, <3>3, Zenon DEF Flushed, Finish
  <2> QED
    BY <2>1, <2>2, <2>3, <2>4, <2>5, <2>6, <2>7, <2>8, Zenon DEF Step
<1>3. \A q \in Prompt \ {p} : ~Active(q)
  BY StepShape, OnlyFlight, Turns DEF Apart
<1>4. ASSUME NEW q \in Prompt \ {p} PROVE ContextOK(q)'
  <2>1. pc'[q] = pc[q] /\ pc[q] \in {"none", "settled", "done"}
    BY <1>2, <1>3 DEF Keeps, Active
  <2> QED
    BY <2>1 DEF ContextOK
<1> QED
  BY <1>2, <1>4 DEF Keeps

\* A run that needs the context works, and nobody else changes the session.
LEMMA CallerContext ==
  ASSUME PInv, FlyOK, \A p \in Prompt : ContextOK(p), Detached = {},
         \/ \E p \in Prompt : StartPrompt(p)
         \/ \E m \in Message : Steer(m) \/ FollowUp(m) \/ NextTurn(m)
         \/ \E w \in Write : QueueWrite(w) \/ BeginWrite(w) \/ EndWrite(w)
         \/ BeginStructural \/ EndStructural \/ Abort \/ UNCHANGED hvars
  PROVE  \A p \in Prompt : ContextOK(p)'
<1>1. SUFFICES ASSUME NEW p \in Prompt PROVE ContextOK(p)'
  OBVIOUS
<1>2. HTypeOK /\ RunOK(p) /\ ContextOK(p)
  BY DEF PInv
<1>3. CASE pc'[p] = pc[p] /\ Same(p) /\ branch' = branch
  BY <1>2, <1>3 DEF ContextOK, Same
<1>4. ASSUME NEW q \in Prompt, StartPrompt(q) PROVE ContextOK(p)'
  <2>1. pc' = [pc EXCEPT ![q] = "starting"] /\ run' = run /\ branch' = branch
    BY <1>4 DEF StartPrompt, Go, session
  <2>2. CASE p = q
    <3>1. pc'[p] = "starting"
      BY <1>2, <2>1, <2>2 DEF HTypeOK
    <3> QED
      BY <3>1 DEF ContextOK
  <2>3. CASE p # q
    BY <1>2, <1>3, <2>1, <2>3 DEF Same, HTypeOK
  <2> QED
    BY <2>2, <2>3
<1>5. CASE \/ \E m \in Message : Steer(m) \/ FollowUp(m) \/ NextTurn(m)
           \/ \E w \in Write : QueueWrite(w) \/ BeginWrite(w)
           \/ BeginStructural \/ UNCHANGED hvars
  <2>1. UNCHANGED <<pc, run, branch>>
    BY <1>5, Zenon DEF Steer, FollowUp, NextTurn, NewMessage, QueueWrite, BeginWrite,
         BeginStructural, session, calls, hvars
  <2> QED
    BY <1>3, <2>1 DEF Same
<1>6. CASE Abort
  <2> DEFINE r == [run[p] EXCEPT !.replaced = TRUE, !.aborted = @ \/ p = controller]
  <2>1. run' = [q \in Prompt |-> [run[q] EXCEPT !.replaced = TRUE, !.aborted = @ \/ q = controller]]
    BY <1>6, Zenon DEF Abort
  <2>2. run'[p] = r
    BY <2>1
  <2>3. run[p] \in Run
    BY <1>2, RunFields
  <2>4. /\ r.list = run[p].list /\ r.then = run[p].then
        /\ r.back = run[p].back /\ r.failing = run[p].failing
        /\ r.rejected = run[p].rejected /\ r.reply = run[p].reply
        /\ r.continued = run[p].continued /\ r.context = run[p].context
    BY <2>3 DEF Run
  <2> HIDE DEF r
  <2>5. Same(p) /\ UNCHANGED <<pc, branch>>
    BY <1>6, <2>2, <2>4, Zenon DEF Same, Abort, session
  <2> QED
    BY <1>3, <2>5
<1>7. CASE (\E w \in Write : EndWrite(w)) \/ EndStructural
  <2>1. phase # "turn" /\ UNCHANGED <<pc, run>>
    BY <1>7 DEF EndWrite, EndStructural, FlyOK, WritesInFlight, calls
  <2>2. ~Busy(p)
    BY <2>1 DEF PInv, PhaseIsTurn
  <2>3. \/ pc[p] \in {"none", "settled", "done"} \/ run[p].failing \/ run[p].back = "finally"
    BY <1>2, <2>2 DEF Busy, Active, RunOK
  <2>4. Unasked(p)
    BY <1>2, <2>1, <2>3 DEF RunOK, Unasked
  <2> QED
    BY <2>1, <2>4, UnaskedContext DEF Keeps
<1> QED
  BY <1>4, <1>5, <1>6, <1>7

-----------------------------------------------------------------------------
(* The queued messages.                                                    *)

LEMMA HeldCount ==
  ASSUME NEW lists, NEW p \in Prompt, lists[p].list \in Seq(Recordable),
         \A q \in Prompt \ {p} : lists[q].list = <<>>, NEW m, Count(m, lists[p].list) <= 1
  PROVE  One(\E q \in Prompt : lists[q].list # <<>> /\ m \in Range(lists[q].list))
           = Count(m, lists[p].list)
<1> DEFINE list == lists[p].list
           held == \E q \in Prompt : lists[q].list # <<>> /\ m \in Range(lists[q].list)
<1>1. Count(m, list) \in Nat /\ (Count(m, list) = 0 <=> m \notin Range(list))
  BY CountIs
<1>2. held <=> list # <<>> /\ m \in Range(list)
  OBVIOUS
<1>3. m \in Range(list) => list # <<>>
  BY DEF Range
<1>4. Count(m, list) \in {0, 1}
  BY <1>1
<1> HIDE DEF list, held
<1>5. One(held) = Count(m, list)
  BY <1>1, <1>2, <1>3, <1>4 DEF One
<1> QED
  BY <1>5 DEF list, held

\* A run moves messages, and gives none up unseen.
Balance(p) ==
  \A m \in Message :
    Elsewhere(m)' + Count(m, run[p].list)' = Elsewhere(m) + Count(m, run[p].list)

LEMMA ElsewhereIs ==
  ASSUME HTypeOK, NEW m
  PROVE  /\ Count(m, steerQueue) \in Nat /\ Count(m, followUpQueue) \in Nat
         /\ Count(m, nextTurnQueue) \in Nat /\ Count(m, branch) \in Nat
         /\ One(m \in left) \in {0, 1} /\ One(m \in dropped) \in {0, 1} /\ Elsewhere(m) \in Nat
<1>1. /\ steerQueue \in Seq(Message) /\ followUpQueue \in Seq(Message)
      /\ nextTurnQueue \in Seq(Message) /\ branch \in Seq(Entry)
  BY DEF HTypeOK
<1>a. ASSUME NEW q \in Seq(Message) PROVE Count(m, q) \in Nat
  BY CountIs
<1>b. Count(m, branch) \in Nat
  BY <1>1, CountIs
<1>2. /\ Count(m, steerQueue) \in Nat /\ Count(m, followUpQueue) \in Nat
      /\ Count(m, nextTurnQueue) \in Nat /\ Count(m, branch) \in Nat
  BY <1>1, <1>a, <1>b
<1>3. One(m \in left) \in {0, 1} /\ One(m \in dropped) \in {0, 1}
  BY DEF One
<1> QED
  BY <1>2, <1>3 DEF Elsewhere

LEMMA BalanceMessages ==
  ASSUME PInv, PInv', MessagesOK, NEW p \in Prompt, Apart(p), queued' = queued,
         \A q \in Prompt \ {p} : run'[q] = run[q], Balance(p)
  PROVE  MessagesOK'
<1>1. \A q \in Prompt \ {p} : run[q].list = <<>> /\ run'[q].list = <<>>
  <2>1. \A q \in Prompt : RunOK(q)
    BY DEF PInv
  <2> QED
    BY <2>1 DEF Apart, Active, RunOK
<1>2. run[p].list \in Seq(Recordable) /\ run'[p].list \in Seq(Recordable)
  <2>1. run[p].list \in Seq(Recordable)
    BY RunFields DEF PInv
  <2>2. run'[p] \in Run
    BY DEF PInv, HTypeOK
  <2> QED
    BY <2>1, <2>2 DEF Run
<1>3. SUFFICES ASSUME NEW m \in Message
               PROVE  /\ Elsewhere(m)' + One(Held(m)') = One(m \in queued)
                      /\ \A q \in Prompt : Count(m, run'[q].list) <= 1
  BY DEF MessagesOK
<1>4. One(Held(m)) = Count(m, run[p].list)
  BY <1>1, <1>2, HeldCount DEF MessagesOK, Held
<1>5. Elsewhere(m)' + Count(m, run'[p].list) = One(m \in queued)
  BY <1>4 DEF Balance, MessagesOK
<1>6. Elsewhere(m)' \in Nat
  <2>1. Count(m, steerQueue') \in Nat /\ Count(m, followUpQueue') \in Nat
        /\ Count(m, nextTurnQueue') \in Nat /\ Count(m, branch') \in Nat
    <3>1. /\ steerQueue' \in Seq(Message) /\ followUpQueue' \in Seq(Message)
          /\ nextTurnQueue' \in Seq(Message) /\ branch' \in Seq(Entry)
      BY DEF PInv, HTypeOK
    <3>2. ASSUME NEW q \in Seq(Message) PROVE Count(m, q) \in Nat
      BY CountIs
    <3>3. Count(m, branch') \in Nat
      BY <3>1, CountIs
    <3> QED
      BY <3>1, <3>2, <3>3
  <2>2. One(m \in left') \in {0, 1} /\ One(m \in dropped') \in {0, 1}
    BY DEF One
  <2> QED
    BY <2>1, <2>2 DEF Elsewhere
<1>7. Count(m, run'[p].list) \in Nat
  BY <1>2, CountIs
<1>8. Count(m, run'[p].list) <= 1
  BY <1>5, <1>6, <1>7 DEF One
<1>9. One(Held(m)') = Count(m, run'[p].list)
  BY <1>1, <1>2, <1>8, HeldCount DEF Held
<1>10. ASSUME NEW q \in Prompt PROVE Count(m, run'[q].list) <= 1
  <2>1. Count(m, <<>>) = 0
    BY CountSingle
  <2> QED
    BY <1>1, <1>8, <2>1
<1> QED
  BY <1>5, <1>9, <1>10

\* No message is in the list.
Fresh(list) == \A m \in Message : Count(m, list) = 0

LEMMA FreshLists ==
  Fresh(<<>>) /\ \A x \in Prompt \cup Kind : Fresh(<<x>>)
<1>1. Fresh(<<>>)
  BY CountSingle DEF Fresh
<1>2. ASSUME NEW x \in Prompt \cup Kind PROVE Fresh(<<x>>)
  BY CountSingle, EntriesAssumption DEF Fresh, Kind, One
<1> QED
  BY <1>1, <1>2

Queues == <<steerQueue, followUpQueue, nextTurnQueue, branch, left>>

Moves(p) == (\A q \in Prompt \ {p} : run'[q] = run[q]) /\ Balance(p)

LEMMA SetList ==
  ASSUME HTypeOK, NEW p \in Prompt, NEW r, run' = [run EXCEPT ![p] = r]
  PROVE  run'[p] = r /\ \A q \in Prompt \ {p} : run'[q] = run[q]
BY DEF HTypeOK

LEMMA SameBalance ==
  ASSUME NEW p \in Prompt, UNCHANGED <<Queues, dropped>>, run'[p].list = run[p].list
  PROVE  Balance(p)
BY DEF Queues, Balance, Elsewhere

LEMMA NewBalance ==
  ASSUME NEW p \in Prompt, UNCHANGED <<Queues, dropped>>, run[p].list = <<>>, Fresh(run'[p].list)
  PROVE  Balance(p)
BY FreshLists DEF Queues, Balance, Elsewhere, Fresh

\* A message in the list was not given up before.
LEMMA NotDropped ==
  ASSUME PInv, MessagesOK, NEW p \in Prompt, Apart(p), NEW m \in Message
  PROVE  /\ Count(m, run[p].list) \in {0, 1}
         /\ Count(m, run[p].list) = 1 => m \notin dropped
         /\ Count(m, run[p].list) = 0 <=> m \notin Range(run[p].list)
<1>1. HTypeOK /\ run[p].list \in Seq(Recordable)
  BY RunFields DEF PInv
<1>2. Count(m, run[p].list) \in Nat /\ (Count(m, run[p].list) = 0 <=> m \notin Range(run[p].list))
  BY <1>1, CountIs
<1>3. Count(m, run[p].list) <= 1 /\ Elsewhere(m) + One(Held(m)) = One(m \in queued)
  BY DEF MessagesOK
<1>4. m \in Range(run[p].list) => run[p].list # <<>>
  BY DEF Range
<1>5. Count(m, run[p].list) = 1 => Held(m)
  BY <1>2, <1>4 DEF Held
<1>6. Held(m) => Elsewhere(m) = 0
  BY <1>1, <1>3, ElsewhereIs DEF One
<1>7. Elsewhere(m) = 0 => One(m \in dropped) = 0
  BY <1>1, ElsewhereIs DEF Elsewhere
<1> QED
  BY <1>2, <1>3, <1>5, <1>6, <1>7 DEF One

LEMMA GiveUpBalance ==
  ASSUME PInv, MessagesOK, NEW p \in Prompt, Apart(p), UNCHANGED Queues, Drop(run[p].list),
         Fresh(run'[p].list)
  PROVE  Balance(p)
<1>1. SUFFICES ASSUME NEW m \in Message
               PROVE  Elsewhere(m)' + Count(m, run'[p].list) = Elsewhere(m) + Count(m, run[p].list)
  BY DEF Balance
<1>2. m \in dropped' <=> m \in dropped \/ m \in Range(run[p].list)
  BY DEF Drop
<1>3. One(m \in dropped') = One(m \in dropped) + Count(m, run[p].list)
  BY <1>2, NotDropped DEF One
<1>4. Count(m, run'[p].list) = 0
  BY DEF Fresh
<1>5. HTypeOK
  BY DEF PInv
<1> QED
  BY <1>3, <1>4, <1>5, NotDropped, ElsewhereIs DEF Queues, Elsewhere

LEMMA ThrowList ==
  ASSUME HTypeOK, NEW p \in Prompt, Throw(p)
  PROVE  Fresh(run'[p].list) /\ \A q \in Prompt \ {p} : run'[q] = run[q]
<1>1. run[p] \in Run /\ "failure" \in Kind
  BY RunFields DEF Kind
<1>2. CASE run[p].failing
  <2> DEFINE r == [run[p] EXCEPT !.rejected = TRUE, !.back = "finally", !.list = <<>>]
  <2>1. run' = [run EXCEPT ![p] = r]
    BY <1>2 DEF Throw
  <2>2. r.list = <<>>
    BY <1>1 DEF Run
  <2> HIDE DEF r
  <2>3. run'[p].list = <<>> /\ \A q \in Prompt \ {p} : run'[q] = run[q]
    BY <2>1, <2>2, SetList
  <2> QED
    BY <2>3, FreshLists
<1>3. CASE ~run[p].failing
  <2> DEFINE r == [run[p] EXCEPT !.failing = TRUE, !.reply = "stop", !.thrown = FALSE,
                                 !.list = <<"failure">>, !.then = "turn end"]
  <2>1. run' = [run EXCEPT ![p] = r]
    BY <1>3 DEF Throw
  <2>2. r.list = <<"failure">>
    BY <1>1 DEF Run
  <2> HIDE DEF r
  <2>3. run'[p].list = <<"failure">> /\ \A q \in Prompt \ {p} : run'[q] = run[q]
    BY <2>1, <2>2, SetList
  <2> QED
    BY <1>1, <2>3, FreshLists
<1> QED
  BY <1>2, <1>3

\* A run that throws where it has nothing to record.
LEMMA ThrowMoves ==
  ASSUME PInv, NEW p \in Prompt, Throw(p), UNCHANGED <<Queues, dropped>>, run[p].list = <<>>
  PROVE  Moves(p)
BY ThrowList, NewBalance DEF PInv, Moves

LEMMA StartMoves ==
  ASSUME PInv, MessagesOK, NEW p \in Prompt, Apart(p),
         TakeNextTurn(p) \/ StartFails(p) \/ NextTurnRollsBack(p) \/ HookFails(p) \/ StartLoop(p)
  PROVE  Moves(p)
<1>1. HTypeOK /\ RunOK(p) /\ run[p] \in Run
  BY RunFields DEF PInv
<1>2. Fresh(<<>>) /\ \A m : Count(m, <<>>) = 0
  BY FreshLists, CountSingle
<1>3. CASE TakeNextTurn(p)
  <2> DEFINE r == [run[p] EXCEPT !.context = branch, !.list = nextTurnQueue]
  <2>1. /\ pc[p] = "starting" /\ run' = [run EXCEPT ![p] = r] /\ nextTurnQueue' = <<>>
        /\ UNCHANGED <<steerQueue, followUpQueue, branch, left, dropped>>
    BY <1>3 DEF TakeNextTurn, session
  <2>2. r.list = nextTurnQueue
    BY <1>1 DEF Run
  <2> HIDE DEF r
  <2>3. run'[p].list = nextTurnQueue /\ \A q \in Prompt \ {p} : run'[q] = run[q]
    BY <1>1, <2>1, <2>2, SetList
  <2>4. run[p].list = <<>>
    BY <1>1, <2>1 DEF RunOK
  <2>5. Balance(p)
    BY <1>1, <1>2, <2>1, <2>3, <2>4, ElsewhereIs DEF Balance, Elsewhere
  <2> QED
    BY <2>3, <2>5 DEF Moves
<1>4. CASE StartFails(p)
  <2>1. UNCHANGED <<run, Queues, dropped>>
    BY <1>4, Zenon DEF StartFails, Reject, queues, session, Queues
  <2> QED
    BY <2>1, SameBalance DEF Moves
<1> DEFINE r == [run[p] EXCEPT !.list = <<>>]
<1>5. ASSUME run' = [run EXCEPT ![p] = r]
      PROVE  run'[p].list = <<>> /\ \A q \in Prompt \ {p} : run'[q] = run[q]
  <2>1. r.list = <<>>
    BY <1>1 DEF Run
  <2> HIDE DEF r
  <2> QED
    BY <1>1, <1>5, <2>1, SetList
<1>6. CASE NextTurnRollsBack(p)
  <2>1. /\ pc[p] = "taken" /\ run' = [run EXCEPT ![p] = r]
        /\ nextTurnQueue' = run[p].list \o nextTurnQueue
        /\ UNCHANGED <<steerQueue, followUpQueue, branch, left, dropped>>
    BY <1>6 DEF NextTurnRollsBack, session
  <2>2. run[p].list \in Seq(Message) /\ nextTurnQueue \in Seq(Message)
    BY <1>1, <2>1 DEF RunOK, HTypeOK
  <2> DEFINE list == run[p].list
  <2>3. list \in Seq(Message)
    BY <2>2
  <2> HIDE DEF list
  <2>4. \A m : Count(m, list \o nextTurnQueue) = Count(m, list) + Count(m, nextTurnQueue)
    BY <2>2, <2>3, CountConcat
  <2>5. \A m : Count(m, list) \in Nat
    BY <2>3, CountIs
  <2>6. run'[p].list = <<>> /\ \A q \in Prompt \ {p} : run'[q] = run[q]
    BY <1>5, <2>1
  <2>7. ASSUME NEW m \in Message
        PROVE  Elsewhere(m)' + Count(m, run'[p].list) = Elsewhere(m) + Count(m, list)
    <3>1. Count(m, nextTurnQueue') = Count(m, list) + Count(m, nextTurnQueue)
      BY <2>1, <2>4 DEF list
    <3>2. Count(m, run'[p].list) = 0
      BY <1>2, <2>6
    <3>3. /\ Count(m, steerQueue) \in Nat /\ Count(m, followUpQueue) \in Nat
          /\ Count(m, nextTurnQueue) \in Nat /\ Count(m, branch) \in Nat
          /\ One(m \in left) \in {0, 1} /\ One(m \in dropped) \in {0, 1}
      BY <1>1, ElsewhereIs
    <3>4. Elsewhere(m)' = Count(m, steerQueue) + Count(m, followUpQueue) + Count(m, nextTurnQueue')
                            + Count(m, branch) + One(m \in left) + One(m \in dropped)
      BY <2>1 DEF Elsewhere
    <3>5. Count(m, list) \in Nat
      BY <2>5
    <3> QED
      BY <3>1, <3>2, <3>3, <3>4, <3>5 DEF Elsewhere
  <2>8. Balance(p)
    BY <2>7 DEF Balance, list
  <2> QED
    BY <2>6, <2>8 DEF Moves
<1>7. CASE HookFails(p)
  <2>1. run' = [run EXCEPT ![p] = r] /\ Drop(run[p].list) /\ UNCHANGED Queues
    BY <1>7 DEF HookFails, queues, session, Queues
  <2>2. Balance(p)
    BY <1>2, <1>5, <2>1, GiveUpBalance
  <2> QED
    BY <1>5, <2>1, <2>2 DEF Moves
<1>8. CASE StartLoop(p)
  <2> DEFINE list == run[p].list \o <<p>>
             context == run[p].context \o run[p].list \o <<p>>
             s == [run[p] EXCEPT !.list = list, !.context = context]
  <2>1. run' = [run EXCEPT ![p] = s] /\ UNCHANGED <<Queues, dropped>>
    BY <1>8 DEF StartLoop, queues, session, Queues
  <2>2. s.list = list
    BY <1>1 DEF Run
  <2> HIDE DEF s, context
  <2>3. run'[p].list = list /\ \A q \in Prompt \ {p} : run'[q] = run[q]
    BY <1>1, <2>1, <2>2, SetList
  <2>4. run[p].list \in Seq(Recordable) /\ <<p>> \in Seq(Recordable)
    <3>1. run[p].list \in Seq(Recordable) /\ p \in Recordable
      BY <1>1, RunFields DEF Recordable
    <3> QED
      BY <3>1, SingleSeq
  <2>5. ASSUME NEW m \in Message PROVE Count(m, list) = Count(m, run[p].list)
    <3> DEFINE before == run[p].list
               last == <<p>>
    <3>1. before \in Seq(Recordable) /\ last \in Seq(Recordable)
      BY <2>4
    <3>2. Count(m, last) = 0
      BY FreshLists DEF Fresh
    <3> HIDE DEF before, last
    <3>3. Count(m, before \o last) = Count(m, before) + Count(m, last) /\ Count(m, before) \in Nat
      BY <3>1, CountConcat, CountIs
    <3> QED
      BY <3>2, <3>3 DEF before, last
  <2>6. Balance(p)
    BY <2>1, <2>3, <2>5 DEF Balance, Elsewhere, Queues
  <2> QED
    BY <2>3, <2>6 DEF Moves
<1> QED
  BY <1>3, <1>4, <1>6, <1>7, <1>8

LEMMA RecordMoves ==
  ASSUME PInv, FlyOK, MessagesOK, NEW p \in Prompt, Apart(p),
         AppendMessage(p) \/ AppendFails(p) \/ Appended(p) \/ Recorded(p)
  PROVE  Moves(p)
<1>1. HTypeOK /\ RunOK(p) /\ run[p] \in Run /\ branch \in Seq(Entry)
  BY RunFields DEF PInv, HTypeOK
<1>2. CASE AppendMessage(p)
  <2>1. UNCHANGED <<run, Queues, dropped>>
    BY <1>2, Zenon DEF AppendMessage, calls, Outside, queues, Queues
  <2> QED
    BY <2>1, SameBalance DEF Moves
<1>3. CASE AppendFails(p)
  <2>1. Drop(run[p].list) /\ Throw(p) /\ UNCHANGED Queues
    BY <1>3, Zenon DEF AppendFails, Outside, queues, Queues
  <2> QED
    BY <1>1, <2>1, ThrowList, GiveUpBalance DEF Moves
<1>4. CASE Appended(p)
  <2> DEFINE list == run[p].list
             first == Head(run[p].list)
             rest == Tail(run[p].list)
             r == [run[p] EXCEPT !.list = Tail(run[p].list)]
  <2>1. /\ pc[p] = "recording" /\ flying[p] # NoAppend
        /\ branch' = Append(flying[p].base, flying[p].entry)
        /\ UNCHANGED <<steerQueue, followUpQueue, nextTurnQueue, left>>
    BY <1>4, Zenon DEF Appended, Outside, queues
  <2>2. list # <<>> /\ branch' = Append(branch, first)
    BY <1>1, <2>1 DEF RunOK, FlyOK
  <2>3. list \in Seq(Recordable) /\ Recordable \subseteq Entry
    BY <1>1, RunFields DEF Recordable, Entry
  <2>4. first \in Entry /\ rest \in Seq(Recordable)
    BY <2>2, <2>3
  <2>5. \A m : Count(m, list) = One(first = m) + Count(m, rest) /\ Count(m, rest) \in Nat
    BY <2>2, <2>3, <2>4, CountHead, CountIs
  <2> HIDE DEF list, first, rest
  <2>6. \A m : Count(m, branch') = Count(m, branch) + One(first = m)
    BY <1>1, <2>2, <2>4, CountAppend
  <2>7. CASE run' = [run EXCEPT ![p] = r] /\ dropped' = dropped
    <3>1. r.list = rest
      BY <1>1 DEF Run, rest
    <3> HIDE DEF r
    <3>2. run'[p].list = rest /\ \A q \in Prompt \ {p} : run'[q] = run[q]
      BY <1>1, <2>7, <3>1, SetList
    <3>3. ASSUME NEW m \in Message
          PROVE  Elsewhere(m)' + Count(m, run'[p].list) = Elsewhere(m) + Count(m, list)
      <4>1. One(first = m) \in {0, 1}
        BY DEF One
      <4>2. Count(m, branch') = Count(m, branch) + One(first = m)
        BY <2>6
      <4>3. Count(m, list) = One(first = m) + Count(m, rest) /\ Count(m, rest) \in Nat
        BY <2>5
      <4>4. Count(m, run'[p].list) = Count(m, rest)
        BY <3>2
      <4>5. /\ Count(m, steerQueue) \in Nat /\ Count(m, followUpQueue) \in Nat
            /\ Count(m, nextTurnQueue) \in Nat /\ Count(m, branch) \in Nat
            /\ One(m \in left) \in {0, 1} /\ One(m \in dropped) \in {0, 1}
        BY <1>1, ElsewhereIs
      <4>6. Elsewhere(m)' = Count(m, steerQueue) + Count(m, followUpQueue) + Count(m, nextTurnQueue)
                              + Count(m, branch') + One(m \in left) + One(m \in dropped)
        BY <2>1, <2>7 DEF Elsewhere
      <4> QED
        BY <4>1, <4>2, <4>3, <4>4, <4>5, <4>6 DEF Elsewhere
    <3>4. Balance(p)
      BY <3>3 DEF Balance, list
    <3> QED
      BY <3>2, <3>4 DEF Moves
  <2>8. CASE Drop(rest) /\ Throw(p)
    <3>1. Fresh(run'[p].list) /\ \A q \in Prompt \ {p} : run'[q] = run[q]
      BY <1>1, <2>8, ThrowList
    <3>2. ASSUME NEW m \in Message
          PROVE  Elsewhere(m)' + Count(m, run'[p].list) = Elsewhere(m) + Count(m, list)
      <4>1. m \in dropped' <=> m \in dropped \/ m \in Range(rest)
        BY <2>8 DEF Drop
      <4>2. Count(m, rest) = 0 <=> m \notin Range(rest)
        BY <2>4, CountIs
      <4>3. Count(m, list) \in {0, 1} /\ (Count(m, list) = 1 => m \notin dropped)
        BY NotDropped DEF list
      <4>4. One(m \in dropped') = One(m \in dropped) + Count(m, rest)
        BY <2>5, <4>1, <4>2, <4>3 DEF One
      <4>5. Count(m, run'[p].list) = 0
        BY <3>1 DEF Fresh
      <4> QED
        <5>1. One(first = m) \in {0, 1}
          BY DEF One
        <5>2. Count(m, branch') = Count(m, branch) + One(first = m)
          BY <2>6
        <5>3. Count(m, list) = One(first = m) + Count(m, rest) /\ Count(m, rest) \in Nat
          BY <2>5
        <5>4. /\ Count(m, steerQueue) \in Nat /\ Count(m, followUpQueue) \in Nat
              /\ Count(m, nextTurnQueue) \in Nat /\ Count(m, branch) \in Nat
              /\ One(m \in left) \in {0, 1} /\ One(m \in dropped) \in {0, 1}
          BY <1>1, ElsewhereIs
        <5>5. Elsewhere(m)' = Count(m, steerQueue) + Count(m, followUpQueue)
                                + Count(m, nextTurnQueue) + Count(m, branch') + One(m \in left)
                                + One(m \in dropped')
          BY <2>1 DEF Elsewhere
        <5> QED
          BY <4>4, <4>5, <5>1, <5>2, <5>3, <5>4, <5>5 DEF Elsewhere
    <3>3. Balance(p)
      BY <3>2 DEF Balance, list
    <3> QED
      BY <3>1, <3>3 DEF Moves
  <2> QED
    BY <1>4, <2>7, <2>8, Zenon DEF Appended, rest
<1>5. CASE Recorded(p)
  <2> DEFINE r == [run[p] EXCEPT !.list = <<"results">>, !.then = "turn end",
                                 !.context = Append(run[p].context, "results")]
  <2>1. /\ run[p].list = <<>> /\ UNCHANGED <<Queues, dropped>>
        /\ run' = run \/ run' = [run EXCEPT ![p] = r]
    BY <1>5, Zenon DEF Recorded, session, Outside, queues, Queues
  <2>2. CASE run' = run
    BY <2>1, <2>2, SameBalance DEF Moves
  <2>3. CASE run' = [run EXCEPT ![p] = r]
    <3>1. r.list = <<"results">> /\ "results" \in Kind
      BY <1>1 DEF Run, Kind
    <3> HIDE DEF r
    <3>2. run'[p].list = <<"results">> /\ \A q \in Prompt \ {p} : run'[q] = run[q]
      BY <1>1, <2>3, <3>1, SetList
    <3>3. Fresh(run'[p].list)
      BY <3>1, <3>2, FreshLists
    <3> QED
      BY <2>1, <3>2, <3>3, NewBalance DEF Moves
  <2> QED
    BY <2>1, <2>2, <2>3
<1> QED
  BY <1>2, <1>3, <1>4, <1>5

LEMMA SameMoves ==
  ASSUME HTypeOK, NEW p \in Prompt, NEW r, run' = [run EXCEPT ![p] = r], r.list = run[p].list,
         UNCHANGED <<Queues, dropped>>
  PROVE  Moves(p)
<1>1. run'[p].list = run[p].list /\ \A q \in Prompt \ {p} : run'[q] = run[q]
  BY SetList
<1> QED
  BY <1>1, SameBalance DEF Moves

LEMMA NewMoves ==
  ASSUME HTypeOK, NEW p \in Prompt, NEW r, run' = [run EXCEPT ![p] = r], run[p].list = <<>>,
         NEW x \in Kind, r.list = <<x>>, UNCHANGED <<Queues, dropped>>
  PROVE  Moves(p)
<1>1. run'[p].list = <<x>> /\ \A q \in Prompt \ {p} : run'[q] = run[q]
  BY SetList
<1>2. Fresh(run'[p].list)
  BY <1>1, FreshLists
<1> QED
  BY <1>1, <1>2, NewBalance DEF Moves

LEMMA LoopMoves ==
  ASSUME PInv, NEW p \in Prompt,
         \/ ProviderReplies(p) \/ TurnEnds(p) \/ SavePoint(p) \/ Snapshot(p) \/ Drained(p)
         \/ RunFails(p) \/ SavePointFails(p) \/ Settled(p) \/ SettledFails(p)
  PROVE  Moves(p)
<1>1. HTypeOK /\ RunOK(p) /\ run[p] \in Run
  BY RunFields DEF PInv
<1>2. UNCHANGED <<Queues, dropped>>
  BY Zenon DEF ProviderReplies, TurnEnds, SavePoint, Snapshot, Drained, RunFails, SavePointFails,
     Settled, SettledFails, session, Outside, queues, Queues
<1>3. CASE ProviderReplies(p)
  <2>1. PICK reply \in {"calls", "length", "final", "stop"} :
          run' = [run EXCEPT ![p].reply = reply,
                             ![p].replies = IF reply \in {"calls", "length"} THEN @ + 1 ELSE @,
                             ![p].list = <<"reply">>, ![p].context = Append(@, "reply"),
                             ![p].then = IF reply = "calls" THEN "tools" ELSE "turn end"]
    BY <1>3, Zenon DEF ProviderReplies
  <2> DEFINE replies == IF reply \in {"calls", "length"} THEN run[p].replies + 1 ELSE run[p].replies
             context == Append(run[p].context, "reply")
             then == IF reply = "calls" THEN "tools" ELSE "turn end"
             r == [run[p] EXCEPT !.reply = reply, !.replies = replies, !.list = <<"reply">>,
                                 !.context = context, !.then = then]
  <2>2. run' = [run EXCEPT ![p] = r]
    BY <2>1, Zenon
  <2> HIDE DEF replies, context, then
  <2>3. r.list = <<"reply">> /\ "reply" \in Kind
    BY <1>1 DEF Run, Kind
  <2> HIDE DEF r
  <2>4. run[p].list = <<>>
    BY <1>1, <1>3 DEF RunOK, ProviderReplies
  <2> QED
    BY <1>1, <1>2, <2>2, <2>3, <2>4, NewMoves
<1>4. ASSUME NEW back, run' = [run EXCEPT ![p].back = back] PROVE Moves(p)
  <2> DEFINE r == [run[p] EXCEPT !.back = back]
  <2>1. run' = [run EXCEPT ![p] = r]
    BY <1>4, Zenon
  <2>2. r.list = run[p].list
    BY <1>1 DEF Run
  <2> HIDE DEF r
  <2> QED
    BY <1>1, <1>2, <2>1, <2>2, SameMoves
<1>5. CASE TurnEnds(p)
  <2> DEFINE r == [run[p] EXCEPT !.back = "save point", !.thrown = TRUE]
  <2>1. CASE Flush(p, "save point")
    BY <1>4, <2>1, Zenon DEF Flush
  <2>2. CASE run' = [run EXCEPT ![p] = r]
    <3>1. r.list = run[p].list
      BY <1>1 DEF Run
    <3> HIDE DEF r
    <3> QED
      BY <1>1, <1>2, <2>2, <3>1, SameMoves
  <2> QED
    BY <1>5, <2>1, <2>2, Zenon DEF TurnEnds
<1>6. CASE SavePoint(p)
  <2> DEFINE r == [run[p] EXCEPT !.list = <<"continuation">>, !.then = "model",
                                 !.context = Append(run[p].context, "continuation"),
                                 !.continued = TRUE]
  <2>1. CASE run' = [run EXCEPT ![p] = r]
    <3>1. r.list = <<"continuation">> /\ "continuation" \in Kind
      BY <1>1 DEF Run, Kind
    <3> HIDE DEF r
    <3>2. run[p].list = <<>>
      BY <1>1, <1>6 DEF RunOK, SavePoint
    <3> QED
      BY <1>1, <1>2, <2>1, <3>1, <3>2, NewMoves
  <2>2. CASE \E back : run' = [run EXCEPT ![p].back = back]
    BY <1>4, <2>2
  <2> QED
    BY <1>6, <2>1, <2>2, Zenon DEF SavePoint, Flush
<1>7. CASE Snapshot(p)
  <2> DEFINE r == [run[p] EXCEPT !.context = branch, !.continued = FALSE]
  <2>1. run' = [run EXCEPT ![p] = r]
    BY <1>7 DEF Snapshot
  <2>2. r.list = run[p].list
    BY <1>1 DEF Run
  <2> HIDE DEF r
  <2> QED
    BY <1>1, <1>2, <2>1, <2>2, SameMoves
<1>8. CASE Drained(p)
  <2> DEFINE context == run[p].context \o run[p].list
             r == [run[p] EXCEPT !.then = "model", !.context = context]
  <2>1. run' = [run EXCEPT ![p] = r]
    BY <1>8 DEF Drained
  <2> HIDE DEF context
  <2>2. r.list = run[p].list
    BY <1>1 DEF Run
  <2> HIDE DEF r
  <2> QED
    BY <1>1, <1>2, <2>1, <2>2, SameMoves
<1>9. CASE RunFails(p) \/ SavePointFails(p) \/ SettledFails(p)
  <2>1. Throw(p) /\ pc[p] \in {"model", "snapshot", "save point", "settled"}
    BY <1>9, Zenon DEF RunFails, SavePointFails, SettledFails
  <2>2. run[p].list = <<>>
    BY <1>1, <2>1 DEF RunOK
  <2> QED
    BY <1>2, <2>1, <2>2, ThrowMoves
<1>10. CASE Settled(p)
  BY <1>4, <1>10, Zenon DEF Settled, Flush
<1> QED
  BY <1>3, <1>5, <1>6, <1>7, <1>8, <1>9, <1>10

\* Messages are taken from a queue.
LEMMA TakenCount ==
  ASSUME NEW queue \in Seq(Message), queue # <<>>, NEW taken \in Taken(queue), NEW m
  PROVE  Count(m, queue) = Count(m, taken) + Count(m, Rest(queue, taken))
<1> DEFINE rest == Rest(queue, taken)
<1>1. taken \in Seq(Message) /\ rest \in Seq(Message) /\ queue = taken \o rest
  BY TakenRest
<1> HIDE DEF rest
<1>2. Count(m, taken \o rest) = Count(m, taken) + Count(m, rest)
  BY <1>1, CountConcat
<1> QED
  BY <1>1, <1>2 DEF rest

LEMMA DrainMoves ==
  ASSUME PInv, MessagesOK, NEW p \in Prompt, Apart(p),
         Poll(p) \/ PollFollowUp(p) \/ DrainRollsBack(p)
  PROVE  Moves(p)
<1>1. /\ HTypeOK /\ RunOK(p) /\ run[p] \in Run /\ steerQueue \in Seq(Message)
      /\ followUpQueue \in Seq(Message)
  BY RunFields DEF PInv, HTypeOK
<1>2. ASSUME NEW messages \in Seq(Message), Drain(p, messages), pc[p] \in {"poll", "poll follow-up"}
      PROVE  /\ run'[p].list = messages /\ \A q \in Prompt \ {p} : run'[q] = run[q]
             /\ \A m : Count(m, run[p].list) = 0 /\ Count(m, messages) \in Nat
  <2> DEFINE r == [run[p] EXCEPT !.list = messages, !.replaced = FALSE, !.then = pc[p]]
  <2>1. run' = [run EXCEPT ![p] = r]
    BY <1>2, Zenon DEF Drain
  <2>2. r.list = messages
    BY <1>1 DEF Run
  <2> HIDE DEF r
  <2>3. run'[p].list = messages /\ \A q \in Prompt \ {p} : run'[q] = run[q]
    BY <1>1, <2>1, <2>2, SetList
  <2>4. run[p].list = <<>>
    BY <1>1, <1>2 DEF RunOK
  <2>5. \A m : Count(m, messages) \in Nat
    BY CountIs
  <2>6. \A m : Count(m, <<>>) = 0
    BY CountSingle
  <2> QED
    BY <2>3, <2>4, <2>5, <2>6
<1>3. CASE Poll(p)
  <2>1. pc[p] = "poll" /\ UNCHANGED <<followUpQueue, nextTurnQueue, branch, left, dropped>>
    BY <1>3, Zenon DEF Poll, session
  <2>2. CASE UNCHANGED <<run, steerQueue>>
    BY <2>1, <2>2, SameBalance DEF Moves, Queues
  <2>3. CASE steerQueue # <<>> /\ \E taken \in Taken(steerQueue) :
               Drain(p, taken) /\ steerQueue' = Rest(steerQueue, taken)
    <3>1. PICK taken \in Taken(steerQueue) : Drain(p, taken) /\ steerQueue' = Rest(steerQueue, taken)
      BY <2>3
    <3>2. taken \in Seq(Message) /\ Rest(steerQueue, taken) \in Seq(Message)
      BY <1>1, <2>3, <3>1, TakenRest
    <3>3. /\ run'[p].list = taken /\ \A q \in Prompt \ {p} : run'[q] = run[q]
          /\ \A m : Count(m, run[p].list) = 0 /\ Count(m, taken) \in Nat
      BY <1>2, <2>1, <3>1, <3>2
    <3>4. ASSUME NEW m \in Message
          PROVE  Elsewhere(m)' + Count(m, run'[p].list) = Elsewhere(m) + Count(m, run[p].list)
      <4>1. Count(m, steerQueue) = Count(m, taken) + Count(m, steerQueue')
        BY <1>1, <2>3, <3>1, TakenCount
      <4>2. Count(m, steerQueue') \in Nat
        BY <3>1, <3>2, CountIs
      <4>3. /\ Count(m, followUpQueue) \in Nat /\ Count(m, nextTurnQueue) \in Nat
            /\ Count(m, branch) \in Nat /\ One(m \in left) \in {0, 1} /\ One(m \in dropped) \in {0, 1}
        BY <1>1, ElsewhereIs
      <4>4. Elsewhere(m)' = Count(m, steerQueue') + Count(m, followUpQueue) + Count(m, nextTurnQueue)
                              + Count(m, branch) + One(m \in left) + One(m \in dropped)
        BY <2>1 DEF Elsewhere
      <4>5. /\ Count(m, run'[p].list) = Count(m, taken) /\ Count(m, run[p].list) = 0
            /\ Count(m, taken) \in Nat
        BY <3>3
      <4> QED
        BY <4>1, <4>2, <4>3, <4>4, <4>5 DEF Elsewhere
    <3> QED
      BY <3>3, <3>4 DEF Moves, Balance
  <2> QED
    BY <1>3, <2>2, <2>3, Zenon DEF Poll
<1>4. CASE PollFollowUp(p)
  <2>1. /\ pc[p] = "poll follow-up"
        /\ UNCHANGED <<steerQueue, nextTurnQueue, branch, left, dropped>>
    BY <1>4, Zenon DEF PollFollowUp, session
  <2>2. CASE Flush(p, "settle") /\ UNCHANGED followUpQueue
    <3> DEFINE r == [run[p] EXCEPT !.back = "settle"]
    <3>1. run' = [run EXCEPT ![p] = r]
      BY <2>2, Zenon DEF Flush
    <3>2. r.list = run[p].list
      BY <1>1 DEF Run
    <3> HIDE DEF r
    <3>3. UNCHANGED <<Queues, dropped>>
      BY <2>1, <2>2 DEF Queues
    <3> QED
      BY <1>1, <3>1, <3>2, <3>3, SameMoves
  <2>3. CASE followUpQueue # <<>> /\ \E taken \in Taken(followUpQueue) :
               Drain(p, taken) /\ followUpQueue' = Rest(followUpQueue, taken)
    <3>1. PICK taken \in Taken(followUpQueue) :
            Drain(p, taken) /\ followUpQueue' = Rest(followUpQueue, taken)
      BY <2>3
    <3>2. taken \in Seq(Message) /\ Rest(followUpQueue, taken) \in Seq(Message)
      BY <1>1, <2>3, <3>1, TakenRest
    <3>3. /\ run'[p].list = taken /\ \A q \in Prompt \ {p} : run'[q] = run[q]
          /\ \A m : Count(m, run[p].list) = 0 /\ Count(m, taken) \in Nat
      BY <1>2, <2>1, <3>1, <3>2
    <3>4. ASSUME NEW m \in Message
          PROVE  Elsewhere(m)' + Count(m, run'[p].list) = Elsewhere(m) + Count(m, run[p].list)
      <4>1. Count(m, followUpQueue) = Count(m, taken) + Count(m, followUpQueue')
        BY <1>1, <2>3, <3>1, TakenCount
      <4>2. Count(m, followUpQueue') \in Nat
        BY <3>1, <3>2, CountIs
      <4>3. /\ Count(m, steerQueue) \in Nat /\ Count(m, nextTurnQueue) \in Nat
            /\ Count(m, branch) \in Nat /\ One(m \in left) \in {0, 1} /\ One(m \in dropped) \in {0, 1}
        BY <1>1, ElsewhereIs
      <4>4. Elsewhere(m)' = Count(m, steerQueue) + Count(m, followUpQueue') + Count(m, nextTurnQueue)
                              + Count(m, branch) + One(m \in left) + One(m \in dropped)
        BY <2>1 DEF Elsewhere
      <4>5. /\ Count(m, run'[p].list) = Count(m, taken) /\ Count(m, run[p].list) = 0
            /\ Count(m, taken) \in Nat
        BY <3>3
      <4> QED
        BY <4>1, <4>2, <4>3, <4>4, <4>5 DEF Elsewhere
    <3> QED
      BY <3>3, <3>4 DEF Moves, Balance
  <2> QED
    BY <1>4, <2>2, <2>3, Zenon DEF PollFollowUp
<1>5. CASE DrainRollsBack(p)
  <2> DEFINE list == run[p].list
  <2>1. /\ pc[p] = "drained" /\ Throw(p) /\ UNCHANGED <<nextTurnQueue, branch, left>>
        /\ \/ Drop(list) /\ UNCHANGED <<steerQueue, followUpQueue>>
           \/ steerQueue' = list \o steerQueue /\ UNCHANGED <<followUpQueue, dropped>>
           \/ followUpQueue' = list \o followUpQueue /\ UNCHANGED <<steerQueue, dropped>>
    BY <1>5, Zenon DEF DrainRollsBack
  <2>2. list \in Seq(Message)
    BY <1>1, <2>1 DEF RunOK
  <2>3. Fresh(run'[p].list) /\ \A q \in Prompt \ {p} : run'[q] = run[q]
    BY <1>1, <2>1, ThrowList
  <2>4. CASE Drop(list) /\ UNCHANGED <<steerQueue, followUpQueue>>
    <3>1. UNCHANGED Queues
      BY <2>1, <2>4 DEF Queues
    <3> QED
      BY <2>3, <2>4, <3>1, GiveUpBalance DEF Moves
  <2>5. ASSUME dropped' = dropped,
               \A m : Count(m, steerQueue') + Count(m, followUpQueue')
                        = Count(m, list) + (Count(m, steerQueue) + Count(m, followUpQueue)),
               \A m : Count(m, steerQueue') \in Nat /\ Count(m, followUpQueue') \in Nat
        PROVE  Moves(p)
    <3>1. ASSUME NEW m \in Message
          PROVE  Elsewhere(m)' + Count(m, run'[p].list) = Elsewhere(m) + Count(m, list)
      <4>1. /\ Count(m, steerQueue) \in Nat /\ Count(m, followUpQueue) \in Nat
            /\ Count(m, nextTurnQueue) \in Nat
            /\ Count(m, branch) \in Nat /\ One(m \in left) \in {0, 1} /\ One(m \in dropped) \in {0, 1}
        BY <1>1, ElsewhereIs
      <4>2. Elsewhere(m)' = Count(m, steerQueue') + Count(m, followUpQueue') + Count(m, nextTurnQueue)
                              + Count(m, branch) + One(m \in left) + One(m \in dropped)
        BY <2>1, <2>5 DEF Elsewhere
      <4>3. Count(m, list) \in Nat
        BY <2>2, CountIs
      <4>4. Count(m, run'[p].list) = 0
        BY <2>3 DEF Fresh
      <4>5. Count(m, steerQueue') + Count(m, followUpQueue')
              = Count(m, list) + (Count(m, steerQueue) + Count(m, followUpQueue))
        BY <2>5
      <4>6. Count(m, steerQueue') \in Nat /\ Count(m, followUpQueue') \in Nat
        BY <2>5
      <4> QED
        BY <4>1, <4>2, <4>3, <4>4, <4>5, <4>6 DEF Elsewhere
    <3> QED
      BY <2>3, <3>1 DEF Moves, Balance
  <2> HIDE DEF list
  <2>6. CASE steerQueue' = list \o steerQueue /\ UNCHANGED <<followUpQueue, dropped>>
    <3>1. ASSUME NEW m
          PROVE  /\ Count(m, steerQueue') = Count(m, list) + Count(m, steerQueue)
                 /\ Count(m, list) \in Nat
                 /\ Count(m, steerQueue) \in Nat /\ Count(m, followUpQueue) \in Nat
      <4>1. Count(m, list \o steerQueue) = Count(m, list) + Count(m, steerQueue)
        BY <1>1, <2>2, CountConcat
      <4>2. ASSUME NEW q \in Seq(Message) PROVE Count(m, q) \in Nat
        BY CountIs
      <4> QED
        BY <1>1, <2>2, <2>6, <4>1, <4>2
    <3> QED
      BY <2>5, <2>6, <3>1
  <2>7. CASE followUpQueue' = list \o followUpQueue /\ UNCHANGED <<steerQueue, dropped>>
    <3>1. ASSUME NEW m
          PROVE  /\ Count(m, followUpQueue') = Count(m, list) + Count(m, followUpQueue)
                 /\ Count(m, list) \in Nat
                 /\ Count(m, steerQueue) \in Nat /\ Count(m, followUpQueue) \in Nat
      <4>1. Count(m, list \o followUpQueue) = Count(m, list) + Count(m, followUpQueue)
        BY <1>1, <2>2, CountConcat
      <4>2. ASSUME NEW q \in Seq(Message) PROVE Count(m, q) \in Nat
        BY CountIs
      <4> QED
        BY <1>1, <2>2, <2>7, <4>1, <4>2
    <3> QED
      BY <2>5, <2>7, <3>1
  <2> QED
    BY <2>1, <2>4, <2>6, <2>7
<1> QED
  BY <1>3, <1>4, <1>5

LEMMA FlushMoves ==
  ASSUME PInv, FlyOK, NEW p \in Prompt,
         FlushNext(p) \/ FlushAppended(p) \/ FlushFails(p) \/ Flushed(p)
  PROVE  Moves(p)
<1>1. HTypeOK /\ RunOK(p) /\ branch \in Seq(Entry) /\ pending \in Seq(Write)
  BY DEF PInv, HTypeOK
<1>2. pc[p] = "flushing" /\ UNCHANGED <<steerQueue, followUpQueue, nextTurnQueue, left, dropped>>
  BY Zenon DEF FlushNext, FlushAppended, FlushFails, Flushed, Outside, queues
<1>3. run[p].list = <<>>
  BY <1>1, <1>2 DEF RunOK
<1>4. CASE FlushNext(p) \/ FlushFails(p) \/ Flushed(p)
  <2>1. UNCHANGED <<Queues, dropped>> /\ (Throw(p) \/ run' = run)
    BY <1>2, <1>4, Zenon DEF FlushNext, FlushFails, Flushed, calls, Queues
  <2> QED
    BY <1>3, <2>1, ThrowMoves, SameBalance DEF Moves
<1>5. CASE FlushAppended(p)
  <2>1. /\ flying[p] # NoAppend /\ branch' = Append(flying[p].base, flying[p].entry) /\ run' = run
    BY <1>5, Zenon DEF FlushAppended, calls
  <2>2. branch' = Append(branch, Head(pending)) /\ pending # <<>>
    BY <1>1, <1>2, <2>1 DEF FlyOK, RunOK
  <2>3. Head(pending) \in Write
    BY <1>1, <2>2
  <2>4. Head(pending) \in Entry /\ Head(pending) \notin Message
    BY <2>3, EntriesAssumption DEF Entry
  <2>5. ASSUME NEW m \in Message PROVE Count(m, branch') = Count(m, branch)
    <3>1. Count(m, branch') = Count(m, branch) + One(Head(pending) = m)
      BY <1>1, <2>2, <2>4, CountAppend
    <3>2. Count(m, branch) \in Nat
      BY <1>1, CountIs
    <3> QED
      BY <2>4, <3>1, <3>2 DEF One
  <2> QED
    BY <1>2, <2>1, <2>5 DEF Moves, Balance, Elsewhere
<1> QED
  BY <1>4, <1>5

LEMMA StepMessages ==
  ASSUME PInv, PInv', FlyOK, MessagesOK, Detached = {}, NEW p \in Prompt, Step(p)
  PROVE  MessagesOK'
<1>1. MayStep(p) /\ queued' = queued
  BY StepShape
<1>2. Apart(p)
  BY <1>1, Turns
<1>3. Moves(p)
  <2>1. CASE \/ TakeNextTurn(p) \/ StartFails(p) \/ NextTurnRollsBack(p) \/ HookFails(p)
             \/ StartLoop(p)
    BY <1>2, <2>1, StartMoves
  <2>2. CASE AppendMessage(p) \/ AppendFails(p) \/ Appended(p) \/ Recorded(p)
    BY <1>2, <2>2, RecordMoves
  <2>3. CASE \/ ProviderReplies(p) \/ TurnEnds(p) \/ SavePoint(p) \/ Snapshot(p) \/ Drained(p)
             \/ RunFails(p) \/ SavePointFails(p) \/ Settled(p) \/ SettledFails(p)
    BY <2>3, LoopMoves
  <2>4. CASE Poll(p) \/ PollFollowUp(p) \/ DrainRollsBack(p)
    BY <1>2, <2>4, DrainMoves
  <2>5. CASE FlushNext(p) \/ FlushAppended(p) \/ FlushFails(p) \/ Flushed(p)
    BY <2>5, FlushMoves
  <2> QED
    BY <2>1, <2>2, <2>3, <2>4, <2>5, Zenon DEF Step
<1> QED
  BY <1>1, <1>2, <1>3, BalanceMessages DEF Moves

\* The lists of the runs are left.
LEMMA SettlesMessages ==
  ASSUME PInv, PInv', MessagesOK, \A p \in Prompt : run'[p].list = run[p].list,
         \A m \in Message : Elsewhere(m)' + One(m \in queued) = Elsewhere(m) + One(m \in queued')
  PROVE  MessagesOK'
<1>1. SUFFICES ASSUME NEW m \in Message
               PROVE  Elsewhere(m)' + One(Held(m)') = One(m \in queued')
  BY DEF MessagesOK
<1>2. Held(m)' <=> Held(m)
  BY DEF Held
<1>3. One(Held(m)') = One(Held(m)) /\ One(Held(m)) \in {0, 1}
  BY <1>2 DEF One
<1>4. Elsewhere(m) \in Nat
  BY ElsewhereIs DEF PInv
<1>5. Elsewhere(m)' \in Nat
  <2>1. /\ steerQueue' \in Seq(Message) /\ followUpQueue' \in Seq(Message)
        /\ nextTurnQueue' \in Seq(Message) /\ branch' \in Seq(Entry)
    BY DEF PInv, HTypeOK
  <2>2. ASSUME NEW q \in Seq(Message) PROVE Count(m, q) \in Nat
    BY CountIs
  <2>3. Count(m, branch') \in Nat
    BY <2>1, CountIs
  <2>4. One(m \in left') \in {0, 1} /\ One(m \in dropped') \in {0, 1}
    BY DEF One
  <2> QED
    BY <2>1, <2>2, <2>3, <2>4 DEF Elsewhere
<1>6. Elsewhere(m) + One(Held(m)) = One(m \in queued)
  BY DEF MessagesOK
<1>7. One(m \in queued) \in {0, 1} /\ One(m \in queued') \in {0, 1}
  BY DEF One
<1>8. Elsewhere(m)' + One(m \in queued) = Elsewhere(m) + One(m \in queued')
  OBVIOUS
<1> QED
  BY <1>3, <1>4, <1>5, <1>6, <1>7, <1>8

LEMMA CallerMessages ==
  ASSUME PInv, PInv', FlyOK, MessagesOK,
         \/ \E p \in Prompt : StartPrompt(p)
         \/ \E m \in Message : Steer(m) \/ FollowUp(m) \/ NextTurn(m)
         \/ \E w \in Write : QueueWrite(w) \/ BeginWrite(w) \/ EndWrite(w)
         \/ BeginStructural \/ EndStructural \/ Abort \/ UNCHANGED hvars
  PROVE  MessagesOK'
<1>1. /\ HTypeOK /\ steerQueue \in Seq(Message) /\ followUpQueue \in Seq(Message)
      /\ nextTurnQueue \in Seq(Message) /\ branch \in Seq(Entry)
  BY DEF PInv, HTypeOK
<1>2. ASSUME NEW m \in Message
      PROVE  /\ Count(m, steerQueue) \in Nat /\ Count(m, followUpQueue) \in Nat
             /\ Count(m, nextTurnQueue) \in Nat /\ Count(m, branch) \in Nat
             /\ One(m \in left) \in {0, 1} /\ One(m \in dropped) \in {0, 1}
  BY <1>1, ElsewhereIs
<1>3. CASE UNCHANGED <<Queues, dropped, run, queued>>
  BY <1>3 DEF MessagesOK, Elsewhere, Held, Queues
<1>4. ASSUME NEW m \in Message, Steer(m) \/ FollowUp(m) \/ NextTurn(m) PROVE MessagesOK'
  <2>1. /\ m \notin queued /\ queued' = queued \cup {m}
        /\ UNCHANGED <<run, branch, left, dropped>>
        /\ \/ steerQueue' = Append(steerQueue, m) /\ UNCHANGED <<followUpQueue, nextTurnQueue>>
           \/ followUpQueue' = Append(followUpQueue, m) /\ UNCHANGED <<steerQueue, nextTurnQueue>>
           \/ nextTurnQueue' = Append(nextTurnQueue, m) /\ UNCHANGED <<steerQueue, followUpQueue>>
    BY <1>4 DEF Steer, FollowUp, NextTurn, NewMessage, session, calls
  <2>2. ASSUME NEW n \in Message
        PROVE  Elsewhere(n)' + One(n \in queued) = Elsewhere(n) + One(n \in queued')
    <3>1. ASSUME NEW q \in Seq(Message) PROVE Count(n, Append(q, m)) = Count(n, q) + One(m = n)
      BY CountAppend
    <3>2. One(n \in queued') = One(n \in queued) + One(m = n)
      BY <2>1 DEF One
    <3>3. /\ Count(n, Append(steerQueue, m)) = Count(n, steerQueue) + One(m = n)
          /\ Count(n, Append(followUpQueue, m)) = Count(n, followUpQueue) + One(m = n)
          /\ Count(n, Append(nextTurnQueue, m)) = Count(n, nextTurnQueue) + One(m = n)
      BY <1>1, <3>1
    <3>4. Elsewhere(n)' = Count(n, steerQueue') + Count(n, followUpQueue') + Count(n, nextTurnQueue')
                            + Count(n, branch) + One(n \in left) + One(n \in dropped)
      BY <2>1 DEF Elsewhere
    <3>5. One(m = n) \in {0, 1} /\ One(n \in queued) \in {0, 1}
      BY DEF One
    <3>6. /\ Count(n, steerQueue) \in Nat /\ Count(n, followUpQueue) \in Nat
          /\ Count(n, nextTurnQueue) \in Nat /\ Count(n, branch) \in Nat
          /\ One(n \in left) \in {0, 1} /\ One(n \in dropped) \in {0, 1}
      BY <1>2
    <3>7. Elsewhere(n)' = Elsewhere(n) + One(m = n)
      <4>1. CASE steerQueue' = Append(steerQueue, m) /\ UNCHANGED <<followUpQueue, nextTurnQueue>>
        BY <3>3, <3>4, <3>5, <3>6, <4>1 DEF Elsewhere
      <4>2. CASE followUpQueue' = Append(followUpQueue, m) /\ UNCHANGED <<steerQueue, nextTurnQueue>>
        BY <3>3, <3>4, <3>5, <3>6, <4>2 DEF Elsewhere
      <4>3. CASE nextTurnQueue' = Append(nextTurnQueue, m) /\ UNCHANGED <<steerQueue, followUpQueue>>
        BY <3>3, <3>4, <3>5, <3>6, <4>3 DEF Elsewhere
      <4> QED
        BY <2>1, <4>1, <4>2, <4>3
    <3>8. Elsewhere(n) \in Nat
      BY <1>1, ElsewhereIs
    <3> QED
      BY <3>2, <3>5, <3>7, <3>8
  <2> QED
    BY <2>1, <2>2, SettlesMessages
<1>5. ASSUME NEW x \in Entry \ Message, branch' = Append(branch, x),
             UNCHANGED <<steerQueue, followUpQueue, nextTurnQueue, left, dropped, run, queued>>
      PROVE  MessagesOK'
  <2>1. ASSUME NEW m \in Message PROVE Count(m, branch') = Count(m, branch)
    <3>1. Count(m, branch') = Count(m, branch) + One(x = m) /\ Count(m, branch) \in Nat
      BY <1>1, <1>2, <1>5, CountAppend
    <3> QED
      BY <3>1 DEF One
  <2>2. \A m \in Message : Elsewhere(m)' = Elsewhere(m)
    BY <1>5, <2>1 DEF Elsewhere
  <2> QED
    BY <1>5, <2>2, SettlesMessages
<1>6. ASSUME NEW w \in Write, EndWrite(w) PROVE MessagesOK'
  <2>1. /\ flying[w] # NoAppend /\ (branch' = Append(flying[w].base, w) \/ branch' = branch)
        /\ UNCHANGED <<steerQueue, followUpQueue, nextTurnQueue, left, dropped, run, queued>>
    BY <1>6, Zenon DEF EndWrite, queues, calls
  <2>2. flying[w].base = branch
    BY <2>1 DEF FlyOK
  <2>3. w \in Entry \ Message
    BY EntriesAssumption DEF Entry
  <2> QED
    BY <1>3, <1>5, <2>1, <2>2, <2>3 DEF Queues
<1>7. CASE EndStructural
  <2>1. UNCHANGED <<steerQueue, followUpQueue, nextTurnQueue, dropped, run, queued>>
    BY <1>7 DEF EndStructural, queues, calls
  <2>2. CASE branch' = Append(branch, "compaction") /\ left' = left
    <3>1. "compaction" \in Entry \ Message
      BY EntriesAssumption DEF Entry, Kind
    <3> QED
      BY <1>5, <2>1, <2>2, <3>1
  <2>3. CASE UNCHANGED <<branch, left>>
    BY <1>3, <2>1, <2>3 DEF Queues
  <2>4. ASSUME NEW n \in 0 .. Len(branch) - 1, branch' = SubSeq(branch, 1, n),
               left' = left \cup Range(SubSeq(branch, n + 1, Len(branch)))
        PROVE  MessagesOK'
    <3> DEFINE rest == SubSeq(branch, n + 1, Len(branch))
    <3>1. branch' \in Seq(Entry) /\ rest \in Seq(Entry)
      <4>1. \A i \in n + 1 .. Len(branch) : branch[i] \in Entry
        BY <1>1
      <4>2. rest \in Seq(Entry)
        BY <1>1, <4>1, SubSeqProperties
      <4> QED
        BY <4>2 DEF PInv, HTypeOK
    <3>2. ASSUME NEW m \in Message PROVE Count(m, branch) = Count(m, branch') + Count(m, rest)
      BY <1>1, <2>4, CountCut
    <3>3. \A m : m \in left' <=> m \in left \/ m \in Range(rest)
      BY <2>4
    <3> HIDE DEF rest
    <3>4. ASSUME NEW m \in Message PROVE Elsewhere(m)' = Elsewhere(m)
      <4>1. Count(m, rest) \in Nat /\ (Count(m, rest) = 0 <=> m \notin Range(rest))
        BY <3>1, CountIs
      <4>2. Count(m, branch') \in Nat
        BY <3>1, CountIs
      <4>3. /\ Count(m, steerQueue) \in Nat /\ Count(m, followUpQueue) \in Nat
            /\ Count(m, nextTurnQueue) \in Nat /\ Count(m, branch) \in Nat
            /\ One(m \in left) \in {0, 1} /\ One(m \in dropped) \in {0, 1}
        BY <1>2
      <4>4. Elsewhere(m) + One(Held(m)) = One(m \in queued) /\ One(m \in queued) \in {0, 1}
            /\ One(Held(m)) \in {0, 1}
        BY DEF MessagesOK, One
      <4>5. Count(m, branch) + One(m \in left) <= 1
        BY <4>3, <4>4 DEF Elsewhere
      <4>6. Count(m, branch) = Count(m, branch') + Count(m, rest)
        BY <3>2
      <4>7. One(m \in left') = One(m \in left) + Count(m, rest)
        <5>1. CASE Count(m, rest) = 0
          BY <3>3, <4>1, <5>1 DEF One
        <5>2. CASE Count(m, rest) # 0
          <6>1. Count(m, rest) = 1 /\ One(m \in left) = 0
            BY <4>1, <4>2, <4>3, <4>5, <4>6, <5>2
          <6>2. m \in left'
            BY <3>3, <4>1, <5>2
          <6> QED
            BY <6>1, <6>2 DEF One
        <5> QED
          BY <5>1, <5>2
      <4>8. Elsewhere(m)' = Count(m, steerQueue) + Count(m, followUpQueue) + Count(m, nextTurnQueue)
                              + Count(m, branch') + One(m \in left') + One(m \in dropped)
        BY <2>1 DEF Elsewhere
      <4> QED
        BY <4>1, <4>2, <4>3, <4>6, <4>7, <4>8 DEF Elsewhere
    <3> QED
      BY <2>1, <3>4, SettlesMessages
  <2> QED
    BY <1>7, <2>2, <2>3, <2>4, Zenon DEF EndStructural
<1>8. CASE Abort
  <2>1. /\ steerQueue' = <<>> /\ followUpQueue' = <<>> /\ Drop(steerQueue \o followUpQueue)
        /\ UNCHANGED <<nextTurnQueue, branch, left, queued>>
    BY <1>8, Zenon DEF Abort, session
  <2>2. \A p \in Prompt : run'[p].list = run[p].list
    <3>1. ASSUME NEW p \in Prompt PROVE run'[p].list = run[p].list
      <4> DEFINE r == [run[p] EXCEPT !.replaced = TRUE, !.aborted = @ \/ p = controller]
      <4>1. run' = [q \in Prompt |-> [run[q] EXCEPT !.replaced = TRUE,
                                                    !.aborted = @ \/ q = controller]]
        BY <1>8, Zenon DEF Abort
      <4>2. run'[p] = r
        BY <4>1
      <4>3. run[p] \in Run
        BY <1>1, RunFields
      <4>4. r.list = run[p].list
        BY <4>3 DEF Run
      <4> QED
        BY <4>2, <4>4
    <3> QED
      BY <3>1
  <2> DEFINE both == steerQueue \o followUpQueue
  <2>3. both \in Seq(Message)
    BY <1>1, ConcatProperties
  <2>4. ASSUME NEW m PROVE Count(m, both) = Count(m, steerQueue) + Count(m, followUpQueue)
    BY <1>1, CountConcat
  <2>5. \A m \in Message : m \in dropped' <=> m \in dropped \/ m \in Range(both)
    BY <2>1 DEF Drop
  <2> HIDE DEF both
  <2>6. ASSUME NEW m \in Message PROVE Elsewhere(m)' = Elsewhere(m)
    <3>1. Count(m, both) \in Nat /\ (Count(m, both) = 0 <=> m \notin Range(both))
      BY <2>3, CountIs
    <3>2. /\ Count(m, steerQueue) \in Nat /\ Count(m, followUpQueue) \in Nat
          /\ Count(m, nextTurnQueue) \in Nat /\ Count(m, branch) \in Nat
          /\ One(m \in left) \in {0, 1} /\ One(m \in dropped) \in {0, 1}
      BY <1>2
    <3>3. Elsewhere(m) + One(Held(m)) = One(m \in queued) /\ One(m \in queued) \in {0, 1}
          /\ One(Held(m)) \in {0, 1}
      BY DEF MessagesOK, One
    <3>4. Count(m, both) = Count(m, steerQueue) + Count(m, followUpQueue)
      BY <2>4
    <3>5. Count(m, both) + One(m \in dropped) <= 1
      BY <3>2, <3>3, <3>4 DEF Elsewhere
    <3>6. One(m \in dropped') = One(m \in dropped) + Count(m, both)
      <4>1. CASE Count(m, both) = 0
        BY <2>5, <3>1, <4>1 DEF One
      <4>2. CASE Count(m, both) # 0
        <5>1. Count(m, both) = 1 /\ One(m \in dropped) = 0
          BY <3>1, <3>2, <3>5, <4>2
        <5>2. m \in dropped'
          BY <2>5, <3>1, <4>2
        <5> QED
          BY <5>1, <5>2 DEF One
      <4> QED
        BY <4>1, <4>2
    <3>7. Count(m, <<>>) = 0
      BY CountSingle
    <3>8. Elsewhere(m)' = Count(m, <<>>) + Count(m, <<>>) + Count(m, nextTurnQueue)
                            + Count(m, branch) + One(m \in left) + One(m \in dropped')
      BY <2>1 DEF Elsewhere
    <3> QED
      BY <3>2, <3>4, <3>6, <3>7, <3>8 DEF Elsewhere
  <2> QED
    BY <2>1, <2>2, <2>6, SettlesMessages
<1>9. CASE \/ \E p \in Prompt : StartPrompt(p)
           \/ \E w \in Write : QueueWrite(w) \/ BeginWrite(w)
           \/ BeginStructural \/ UNCHANGED hvars
  <2>1. UNCHANGED <<Queues, dropped, run, queued>>
    BY <1>9, Zenon DEF StartPrompt, QueueWrite, BeginWrite, BeginStructural, session, calls, queues,
         hvars, Queues
  <2> QED
    BY <1>3, <2>1
<1> QED
  BY <1>4, <1>6, <1>7, <1>8, <1>9

-----------------------------------------------------------------------------
(* Writes, messages and context, if callers await their calls.             *)

LEMMA NextKInv ==
  ASSUME PInv, KInv, Detached = {}, [Next]_hvars PROVE PInv' /\ KInv'
<1>1. PInv'
  BY NextPInv
<1>2. /\ FlyOK /\ WritesOK /\ MessagesOK
      /\ \A p \in Prompt : ContextOK(p)
  BY DEF KInv
<1>3. CASE \E p \in Prompt : Step(p)
  <2>1. PICK p \in Prompt : Step(p)
    BY <1>3
  <2>2. FlyOK' /\ WritesOK'
    BY <1>2, <2>1, StepFly, StepWrites
  <2>3. MessagesOK'
    BY <1>1, <1>2, <2>1, StepMessages
  <2>4. \A q \in Prompt : ContextOK(q)'
    BY <1>2, <2>1, StepContext
  <2> QED
    BY <1>1, <2>2, <2>3, <2>4 DEF KInv
<1>4. CASE \/ \E p \in Prompt : StartPrompt(p)
           \/ \E m \in Message : Steer(m) \/ FollowUp(m) \/ NextTurn(m)
           \/ \E w \in Write : QueueWrite(w) \/ BeginWrite(w) \/ EndWrite(w)
           \/ BeginStructural \/ EndStructural \/ Abort \/ UNCHANGED hvars
  <2>1. FlyOK'
    BY <1>2, <1>4, CallerFly
  <2>2. WritesOK'
    BY <1>2, <1>4, CallerWrites
  <2>3. MessagesOK'
    BY <1>1, <1>2, <1>4, CallerMessages
  <2>4. \A p \in Prompt : ContextOK(p)'
    BY <1>2, <1>4, CallerContext
  <2> QED
    BY <1>1, <2>1, <2>2, <2>3, <2>4 DEF KInv
<1> QED
  BY <1>3, <1>4 DEF Next

LEMMA InitKInv == Init => KInv
<1> SUFFICES ASSUME Init PROVE KInv
  OBVIOUS
<1>1. \A a \in Prompt \cup Write : flying[a] = NoAppend
  BY DEF Init
<1>2. FlyOK
  BY <1>1 DEF Init, FlyOK
<1>3. \A x : Count(x, <<>>) = 0
  BY CountSingle
<1>4. WritesOK
  BY <1>1, <1>3 DEF Init, WritesOK
<1>5. \A p \in Prompt : run[p].list = <<>>
  BY DEF Init, NewRun
<1>6. MessagesOK
  <2>1. ASSUME NEW m \in Message
        PROVE  /\ One(m \in left) = 0 /\ One(m \in dropped) = 0 /\ One(m \in queued) = 0
               /\ One(Held(m)) = 0
    BY <1>5 DEF Init, One, Held
  <2>2. ASSUME NEW m \in Message PROVE Elsewhere(m) = 0
    BY <1>3, <2>1 DEF Init, Elsewhere
  <2> QED
    BY <1>3, <1>5, <2>1, <2>2 DEF MessagesOK
<1>7. \A p \in Prompt : ContextOK(p)
  BY DEF Init, ContextOK
<1> QED
  BY <1>2, <1>4, <1>6, <1>7 DEF KInv

\* If every caller, listener and hook awaits what it calls, a session write
\* that was not refused is in one place for ever: flushPendingSessionWrites
\* shifts a write out only after its append, the append that failed leaves it
\* to be tried again, and none is stored twice.
THEOREM WritesAreKept ==
  ASSUME Detached = {}
  PROVE  Spec => []WritesKept
<1>1. Init => PInv /\ KInv
  BY InitPInv, InitKInv
<1>2. PInv /\ KInv /\ [Next]_hvars => PInv' /\ KInv'
  BY NextKInv
<1>3. PInv /\ KInv => WritesKept
  BY DEF PInv, HTypeOK, KInv, WritesOK, WritesKept
<1> QED
  BY <1>1, <1>2, <1>3, PTL DEF Spec

\* If every call is awaited, the provider is asked with exactly the branch of
\* the session: createTurnState reads the session again after the flush of
\* each save point, and what is recorded meanwhile reaches the loop's context
\* and the session in the same order.
THEOREM RequestsSeeTheSession ==
  ASSUME Detached = {}
  PROVE  Spec => []ContextIsSession
<1>1. Init => PInv /\ KInv
  BY InitPInv, InitKInv
<1>2. PInv /\ KInv /\ [Next]_hvars => PInv' /\ KInv'
  BY NextKInv
<1>3. KInv => ContextIsSession
  BY DEF KInv, ContextOK, ContextIsSession
<1> QED
  BY <1>1, <1>2, <1>3, PTL DEF Spec

\* The runs that hold a message are one, or none.
LEMMA HoldersAre ==
  ASSUME PInv, NEW m
  PROVE  Cardinality({p \in Prompt : m \in Range(run[p].list)}) = One(Held(m))
<1> DEFINE holders == {p \in Prompt : m \in Range(run[p].list)}
<1>1. ASSUME NEW p \in holders PROVE run[p].list # <<>> /\ Active(p)
  <2>1. run[p].list # <<>>
    BY DEF Range
  <2> QED
    BY <2>1 DEF PInv, RunOK, Active
<1>2. \A p, q \in holders : p = q
  BY <1>1 DEF PInv, AloneOK
<1>3. Held(m) <=> holders # {}
  BY <1>1 DEF Held
<1> HIDE DEF holders
<1>4. CASE holders = {}
  BY <1>3, <1>4, FS_EmptySet DEF One, holders
<1>5. CASE holders # {}
  <2>1. PICK p : holders = {p}
    BY <1>2, <1>5
  <2>2. Cardinality({p}) = 1
    BY FS_Singleton
  <2> QED
    BY <1>3, <1>5, <2>1, <2>2 DEF One, holders
<1> QED
  BY <1>4, <1>5

\* If every call is awaited, a message given to steer, followUp or nextTurn is
\* in one queue, in the hands of one run, or in the session once, unless an
\* abort or a failed run gave it up: draining a queue and putting its messages
\* back when a listener throws neither loses one nor records it twice.
THEOREM MessagesAreKept ==
  ASSUME Detached = {}
  PROVE  Spec => []QueuedOnce
<1>1. Init => PInv /\ KInv
  BY InitPInv, InitKInv
<1>2. PInv /\ KInv /\ [Next]_hvars => PInv' /\ KInv'
  BY NextKInv
<1>3. ASSUME PInv, KInv PROVE QueuedOnce
  <2>1. HTypeOK /\ MessagesOK
    BY <1>3 DEF PInv, KInv
  <2>2. SUFFICES ASSUME NEW m \in queued PROVE Places(m) = 1
    BY DEF QueuedOnce
  <2>3. m \in Message /\ One(m \in queued) = 1
    BY <2>1 DEF HTypeOK, One
  <2>4. Elsewhere(m) + One(Held(m)) = 1
    BY <2>1, <2>3 DEF MessagesOK
  <2>5. Cardinality({p \in Prompt : m \in Range(run[p].list)}) = One(Held(m))
    BY <1>3, HoldersAre
  <2>6. Count(m, steerQueue \o followUpQueue \o nextTurnQueue)
          = Count(m, steerQueue) + Count(m, followUpQueue) + Count(m, nextTurnQueue)
    <3>1. /\ steerQueue \in Seq(Message) /\ followUpQueue \in Seq(Message)
          /\ nextTurnQueue \in Seq(Message)
      BY <2>1 DEF HTypeOK
    <3>2. steerQueue \o followUpQueue \in Seq(Message)
      BY <3>1, ConcatProperties
    <3>3. Count(m, steerQueue \o followUpQueue) = Count(m, steerQueue) + Count(m, followUpQueue)
      BY <3>1, CountConcat
    <3>4. Count(m, (steerQueue \o followUpQueue) \o nextTurnQueue)
            = Count(m, steerQueue \o followUpQueue) + Count(m, nextTurnQueue)
      BY <3>1, <3>2, CountConcat
    <3> QED
      BY <3>3, <3>4
  <2>7. Places(m) = Elsewhere(m) + One(Held(m))
    BY <2>5, <2>6 DEF Places, Elsewhere, One
  <2> QED
    BY <2>4, <2>7
<1> QED
  BY <1>1, <1>2, <1>3, PTL DEF Spec
=============================================================================
