------------------------ MODULE SettingsManagerProofs ------------------------
(***************************************************************************)
(* For any processes, settings and number of calls: the file holds what    *)
(* was set, a mark has its write, a process writes its own values only,    *)
(* and leaves alone what it must not write.                                *)
(*                                                                         *)
(* None of these is inductive.  A write runs long after its setter: the    *)
(* proof follows each value from the setter through the snapshots in the   *)
(* queue and in the turn to the file (DueOK), and who set it (OwnOK).  A   *)
(* load replaces the copy in memory, so that marks must be gone by then    *)
(* (TurnOK); a setter after a failed load queues nothing, so that a field  *)
(* may then be marked without a write (MarksOK).                           *)
(***************************************************************************)
EXTENDS SettingsManager, SequenceTheorems, TLAPS

USE NamesAssumption, BoundsAssumption

\* The writes in a sequence of jobs that save a field.
Saves(job, s, f) == job.kind = "save" /\ job.scope = s /\ f \in job.fields
NoneSaves(jobs, s, f) == \A i \in DOMAIN jobs : ~Saves(jobs[i], s, f)
LastSaves(jobs, s, f, v) ==
  \A i \in DOMAIN jobs :
    /\ Saves(jobs[i], s, f)
    /\ \A j \in DOMAIN jobs : Saves(jobs[j], s, f) => j <= i
    => jobs[i].snapshot[f] = v

\* A turn is one write, or loads of scopes without marks.  A file that is to
\* be locked is there.
TurnOK(p) ==
  /\ turn[p] = <<>> <=> pc[p] \in {"down", "idle"}
  /\ \A i \in DOMAIN turn[p] :
       /\ turn[p][i].kind # "reload"
       /\ turn[p][i].kind = "load" => marked[p][turn[p][i].scope] = {}
       /\ turn[p][i].kind = "save" =>
            Len(turn[p]) = 1 /\ (turn[p][i].scope = "project" => trusted[p])
  /\ pc[p] = "touching" => Op(p).kind = "save"
  /\ pc[p] \in {"locking", "locked"} => file[Op(p).scope] # Absent

Own(authors, p, n) == n \in DOMAIN authors /\ authors[n] = p

OwnJobs(authors, p, jobs) ==
  \A i \in DOMAIN jobs : \A f \in Field :
    jobs[i].kind = "save" /\ f \in jobs[i].fields => Own(authors, p, jobs[i].snapshot[f])

\* What is marked, and what waits to be written, the process has set.
OwnOK(p) ==
  /\ \A s \in Scope, f \in Field : f \in marked[p][s] => Own(by, p, memory[p][s][f])
  /\ OwnJobs(by, p, queue[p]) /\ OwnJobs(by, p, turn[p])
  /\ pc[p] = "down" => \A s \in Scope : marked[p][s] = {}

MarksOK(p) ==
  \A s \in Scope :
    /\ loadError[p][s] => errors[p]
    /\ ~errors[p] =>
         \A f \in marked[p][s] : ~NoneSaves(queue[p], s, f) \/ ~NoneSaves(turn[p], s, f)

\* What is due is in the last snapshot that waits, in the one that is being
\* written, or in the file; and the next snapshot will have it.
DueOK(p) ==
  \A s \in Scope, f \in Field :
    due[p][s][f] # 0 =>
      /\ f \in marked[p][s] /\ ~loadError[p][s] => memory[p][s][f] = due[p][s][f]
      /\ LastSaves(queue[p], s, f, due[p][s][f])
      /\ NoneSaves(queue[p], s, f) => LastSaves(turn[p], s, f, due[p][s][f])
      /\ NoneSaves(queue[p], s, f) /\ NoneSaves(turn[p], s, f) =>
           file[s] \notin {Absent, Torn} /\ file[s][f] = due[p][s][f]

ProcOK(p) == TurnOK(p) /\ OwnOK(p) /\ MarksOK(p) /\ DueOK(p)

SInv == TypeOK /\ \A p \in Proc : ProcOK(p)

-----------------------------------------------------------------------------
(* Sequences of jobs.                                                      *)

LEMMA JobTypes ==
  /\ Empty \in Settings
  /\ \A s \in Scope : Load(s) \in Job /\ Load(s).kind = "load" /\ Load(s).scope = s
  /\ \A s \in Scope : \A settings \in Settings : \A F \in SUBSET Field :
       Save(s, settings, F) \in Job
  /\ ReloadJob \in Job /\ ReloadJob.kind = "reload"
<1>1. Empty \in Settings
  BY DEF Empty, Settings, Value
<1> QED
  BY <1>1 DEF Load, Save, ReloadJob, Job, Scope

LEMMA LoadsTypes ==
  ASSUME NEW trust \in BOOLEAN
  PROVE  /\ Loads(trust) \in Seq(Job) /\ Loads(trust) # <<>>
         /\ \A i \in DOMAIN Loads(trust) : Loads(trust)[i].kind = "load"
         /\ \A i \in DOMAIN Loads(trust) : Loads(trust)[i].scope \in Scope
<1>1. "global" \in Scope /\ "project" \in Scope
  BY DEF Scope
<1>2. CASE trust
  BY <1>1, <1>2, JobTypes DEF Loads
<1>3. CASE ~trust
  BY <1>1, <1>3, JobTypes DEF Loads
<1> QED
  BY <1>2, <1>3

\* Jobs that are no writes.
LEMMA NoWrites ==
  ASSUME NEW jobs, \A i \in DOMAIN jobs : jobs[i].kind # "save"
  PROVE  /\ \A s, f : NoneSaves(jobs, s, f)
         /\ \A s, f, v : LastSaves(jobs, s, f, v)
         /\ \A authors, p : OwnJobs(authors, p, jobs)
  BY DEF NoneSaves, LastSaves, Saves, OwnJobs

LEMMA EmptyNoWrites ==
  /\ \A s, f : NoneSaves(<<>>, s, f)
  /\ \A s, f, v : LastSaves(<<>>, s, f, v)
  /\ \A authors, p : OwnJobs(authors, p, <<>>)
<1>1. DOMAIN <<>> = {}
  OBVIOUS
<1> QED
  BY <1>1, NoWrites

LEMMA AppendFacts ==
  ASSUME NEW jobs \in Seq(Job), NEW job \in Job
  PROVE  /\ Append(jobs, job) \in Seq(Job)
         /\ DOMAIN Append(jobs, job) = DOMAIN jobs \cup {Len(jobs) + 1}
         /\ \A i \in DOMAIN jobs : Append(jobs, job)[i] = jobs[i] /\ i \in Nat /\ i <= Len(jobs)
         /\ Append(jobs, job)[Len(jobs) + 1] = job
         /\ Len(jobs) \in Nat
<1>1. /\ Append(jobs, job) \in Seq(Job) /\ Len(jobs) \in Nat
      /\ Len(Append(jobs, job)) = Len(jobs) + 1
      /\ Append(jobs, job)[Len(jobs) + 1] = job
      /\ \A i \in 1 .. Len(jobs) : Append(jobs, job)[i] = jobs[i]
  BY AppendProperties
<1>2. DOMAIN jobs = 1 .. Len(jobs) /\ DOMAIN Append(jobs, job) = 1 .. Len(jobs) + 1
  BY <1>1
<1> QED
  BY <1>1, <1>2

\* A write that joins the queue.
LEMMA AppendWrite ==
  ASSUME NEW jobs \in Seq(Job), NEW job \in Job, NEW s, NEW f
  PROVE  /\ Saves(job, s, f) =>
              /\ ~NoneSaves(Append(jobs, job), s, f)
              /\ \A v : LastSaves(Append(jobs, job), s, f, v) <=> job.snapshot[f] = v
         /\ ~Saves(job, s, f) =>
              /\ NoneSaves(Append(jobs, job), s, f) <=> NoneSaves(jobs, s, f)
              /\ \A v : LastSaves(jobs, s, f, v) => LastSaves(Append(jobs, job), s, f, v)
<1> DEFINE longer == Append(jobs, job)
<1>1. /\ DOMAIN longer = DOMAIN jobs \cup {Len(jobs) + 1}
      /\ \A i \in DOMAIN jobs : longer[i] = jobs[i] /\ i \in Nat /\ i <= Len(jobs)
      /\ longer[Len(jobs) + 1] = job
      /\ Len(jobs) \in Nat
  BY AppendFacts
<1> HIDE DEF longer
<1>2. ASSUME Saves(job, s, f)
      PROVE  /\ ~NoneSaves(longer, s, f)
             /\ \A v : LastSaves(longer, s, f, v) <=> job.snapshot[f] = v
  BY <1>1, <1>2 DEF NoneSaves, LastSaves
<1>3. ASSUME ~Saves(job, s, f)
      PROVE  /\ NoneSaves(longer, s, f) <=> NoneSaves(jobs, s, f)
             /\ \A v : LastSaves(jobs, s, f, v) => LastSaves(longer, s, f, v)
  BY <1>1, <1>3 DEF NoneSaves, LastSaves
<1> QED
  BY <1>2, <1>3 DEF longer

LEMMA TailFacts ==
  ASSUME NEW jobs \in Seq(Job), jobs # <<>>
  PROVE  /\ Tail(jobs) \in Seq(Job) /\ Head(jobs) \in Job /\ Head(jobs) = jobs[1]
         /\ Len(jobs) \in Nat /\ Len(jobs) >= 1
         /\ DOMAIN jobs = 1 .. Len(jobs) /\ DOMAIN Tail(jobs) = 1 .. Len(jobs) - 1
         /\ \A i \in 1 .. Len(jobs) - 1 : Tail(jobs)[i] = jobs[i + 1]
         /\ Len(jobs) = 1 <=> Tail(jobs) = <<>>
<1>1. /\ Tail(jobs) \in Seq(Job) /\ Head(jobs) \in Job
      /\ Len(Tail(jobs)) = Len(jobs) - 1
      /\ \A i \in 1 .. Len(jobs) - 1 : Tail(jobs)[i] = jobs[i + 1]
  BY HeadTailProperties
<1>2. Head(jobs) = jobs[1] /\ Len(jobs) \in Nat /\ DOMAIN jobs = 1 .. Len(jobs)
  OBVIOUS
<1>3. Len(jobs) >= 1
  BY EmptySeq, <1>2
<1>4. DOMAIN Tail(jobs) = 1 .. Len(jobs) - 1
  BY <1>1
<1>5. Len(jobs) = 1 <=> Tail(jobs) = <<>>
  BY <1>1, <1>2, EmptySeq
<1> QED
  BY <1>1, <1>2, <1>3, <1>4, <1>5

\* The first job leaves.
LEMMA TailWrites ==
  ASSUME NEW jobs \in Seq(Job), jobs # <<>>, NEW s, NEW f
  PROVE  /\ \A v : LastSaves(jobs, s, f, v) => LastSaves(Tail(jobs), s, f, v)
         /\ ~Saves(Head(jobs), s, f) => (NoneSaves(Tail(jobs), s, f) <=> NoneSaves(jobs, s, f))
         /\ Saves(Head(jobs), s, f) =>
              /\ ~NoneSaves(jobs, s, f)
              /\ NoneSaves(Tail(jobs), s, f) =>
                   \A v : LastSaves(jobs, s, f, v) => Head(jobs).snapshot[f] = v
<1> DEFINE n == Len(jobs)
           rest == Tail(jobs)
           first == Head(jobs)
<1>1. /\ n \in Nat /\ n >= 1 /\ first = jobs[1]
      /\ DOMAIN jobs = 1 .. n /\ DOMAIN rest = 1 .. n - 1
      /\ \A i \in 1 .. n - 1 : rest[i] = jobs[i + 1]
  BY TailFacts
<1> HIDE DEF n, rest, first
<1>2. \A i \in DOMAIN rest : i + 1 \in DOMAIN jobs /\ rest[i] = jobs[i + 1] /\ i \in Nat
  BY <1>1
<1>3. \A j \in DOMAIN jobs : j = 1 \/ (j - 1 \in DOMAIN rest /\ rest[j - 1] = jobs[j])
  <2> SUFFICES ASSUME NEW j \in DOMAIN jobs, j # 1
               PROVE  j - 1 \in DOMAIN rest /\ rest[j - 1] = jobs[j]
    OBVIOUS
  <2>1. j \in Nat /\ j - 1 \in 1 .. n - 1 /\ (j - 1) + 1 = j
    BY <1>1
  <2> QED
    BY <1>1, <2>1
<1>4. ASSUME NEW v, LastSaves(jobs, s, f, v) PROVE LastSaves(rest, s, f, v)
  <2> SUFFICES ASSUME NEW i \in DOMAIN rest, Saves(rest[i], s, f),
                      \A j \in DOMAIN rest : Saves(rest[j], s, f) => j <= i
               PROVE  rest[i].snapshot[f] = v
    BY DEF LastSaves
  <2>1. i + 1 \in DOMAIN jobs /\ rest[i] = jobs[i + 1] /\ i \in Nat
    BY <1>2
  <2>2. ASSUME NEW j \in DOMAIN jobs, Saves(jobs[j], s, f) PROVE j <= i + 1
    <3>1. CASE j = 1
      BY <2>1, <3>1
    <3>2. CASE j # 1
      <4>1. j - 1 \in DOMAIN rest /\ rest[j - 1] = jobs[j]
        BY <1>3, <3>2
      <4>2. j - 1 <= i /\ j \in Nat
        BY <1>1, <2>2, <4>1
      <4> QED
        BY <2>1, <4>2
    <3> QED
      BY <3>1, <3>2
  <2> QED
    BY <1>4, <2>1, <2>2 DEF LastSaves
<1>5. 1 \in DOMAIN jobs
  BY <1>1
<1>6. ASSUME ~Saves(first, s, f) PROVE NoneSaves(rest, s, f) <=> NoneSaves(jobs, s, f)
  BY <1>1, <1>2, <1>3, <1>6 DEF NoneSaves
<1>7. ASSUME Saves(first, s, f) PROVE ~NoneSaves(jobs, s, f)
  BY <1>1, <1>5, <1>7 DEF NoneSaves
<1>8. ASSUME Saves(first, s, f), NoneSaves(rest, s, f), NEW v, LastSaves(jobs, s, f, v)
      PROVE  first.snapshot[f] = v
  <2>1. \A j \in DOMAIN jobs : Saves(jobs[j], s, f) => j <= 1
    BY <1>3, <1>8 DEF NoneSaves
  <2> QED
    BY <1>1, <1>5, <1>8, <2>1 DEF LastSaves
<1> QED
  BY <1>4, <1>6, <1>7, <1>8 DEF rest, first

LEMMA TailOwn ==
  ASSUME NEW jobs \in Seq(Job), jobs # <<>>, NEW authors, NEW p, OwnJobs(authors, p, jobs)
  PROVE  /\ OwnJobs(authors, p, Tail(jobs))
         /\ \A f \in Field : Head(jobs).kind = "save" /\ f \in Head(jobs).fields
              => Own(authors, p, Head(jobs).snapshot[f])
<1>1. \A i \in DOMAIN Tail(jobs) : i + 1 \in DOMAIN jobs /\ Tail(jobs)[i] = jobs[i + 1]
  BY TailFacts
<1>2. 1 \in DOMAIN jobs /\ Head(jobs) = jobs[1]
  BY TailFacts
<1> QED
  BY <1>1, <1>2 DEF OwnJobs

-----------------------------------------------------------------------------
(* One process moves.                                                      *)

LEMMA NestedExcept ==
  ASSUME NEW P, NEW S, NEW V, NEW f \in [P -> [S -> V]], NEW p \in P, NEW s \in S,
         NEW v \in V, NEW g, g = [f EXCEPT ![p][s] = v]
  PROVE  /\ g \in [P -> [S -> V]]
         /\ g[p][s] = v
         /\ \A t \in S \ {s} : g[p][t] = f[p][t]
         /\ \A q \in P \ {p} : g[q] = f[q]
<1> DEFINE row == [f[p] EXCEPT ![s] = v]
<1>1. row \in [S -> V] /\ row[s] = v /\ \A t \in S \ {s} : row[t] = f[p][t]
  OBVIOUS
<1>2. g = [f EXCEPT ![p] = row]
  OBVIOUS
<1> HIDE DEF row
<1> QED
  BY <1>1, <1>2

\* A step that is not q's.
Same(q) ==
  /\ pc'[q] = pc[q] /\ turn'[q] = turn[q] /\ queue'[q] = queue[q]
  /\ memory'[q] = memory[q] /\ marked'[q] = marked[q] /\ trusted'[q] = trusted[q]
  /\ loadError'[q] = loadError[q] /\ errors'[q] = errors[q]

LEMMA TurnTypes ==
  ASSUME TypeOK, NEW p \in Proc, TurnOK(p), pc[p] \notin {"down", "idle"}
  PROVE  /\ turn[p] \in Seq(Job) /\ turn[p] # <<>>
         /\ Op(p) = turn[p][1] /\ 1 \in DOMAIN turn[p]
         /\ Op(p).kind \in {"load", "save"} /\ Op(p).scope \in Scope
         /\ Op(p).snapshot \in Settings /\ Op(p).fields \in SUBSET Field
<1>1. turn[p] \in Seq(Job) /\ turn[p] # <<>>
  BY DEF TypeOK, TurnOK
<1>2. Op(p) \in Job /\ Op(p) = turn[p][1] /\ 1 \in DOMAIN turn[p]
  BY <1>1, TailFacts DEF Op
<1>3. Op(p).kind # "reload"
  BY <1>2 DEF TurnOK
<1> QED
  BY <1>1, <1>2, <1>3 DEF Job

\* Others keep their part of the invariant, if what they wait for is still
\* where it was, or due no more.
LEMMA Bystander ==
  ASSUME TypeOK, NEW q \in Proc, ProcOK(q), Same(q),
         \A s \in Scope : file'[s] = Absent => file[s] = Absent,
         \A n : Own(by, q, n) => Own(by', q, n),
         \A s \in Scope, f \in Field : due'[q][s][f] # 0 =>
           /\ due'[q][s][f] = due[q][s][f]
           /\ file[s] \notin {Absent, Torn} /\ file[s][f] = due[q][s][f] =>
                file'[s] \notin {Absent, Torn} /\ file'[s][f] = file[s][f]
  PROVE  ProcOK(q)'
<1>1. TurnOK(q)'
  <2>1. TurnOK(q)
    BY DEF ProcOK
  <2>2. Op(q)' = Op(q)
    BY DEF Same, Op
  <2>3. pc[q] \in {"locking", "locked"} => Op(q).scope \in Scope
    BY <2>1, TurnTypes
  <2> QED
    BY <2>1, <2>2, <2>3 DEF TurnOK, Same
<1>2. OwnOK(q)'
  <2>1. \A jobs : OwnJobs(by, q, jobs) => OwnJobs(by', q, jobs)
    BY DEF OwnJobs
  <2> QED
    BY <2>1 DEF ProcOK, OwnOK, OwnJobs, Same
<1>3. MarksOK(q)'
  BY DEF ProcOK, MarksOK, Same
<1>4. DueOK(q)'
  <2> SUFFICES ASSUME NEW s \in Scope, NEW f \in Field, due'[q][s][f] # 0
               PROVE  /\ f \in marked'[q][s] /\ ~loadError'[q][s] => memory'[q][s][f] = due'[q][s][f]
                      /\ LastSaves(queue'[q], s, f, due'[q][s][f])
                      /\ NoneSaves(queue'[q], s, f) => LastSaves(turn'[q], s, f, due'[q][s][f])
                      /\ NoneSaves(queue'[q], s, f) /\ NoneSaves(turn'[q], s, f) =>
                           file'[s] \notin {Absent, Torn} /\ file'[s][f] = due'[q][s][f]
    BY DEF DueOK
  <2> QED
    BY DEF ProcOK, DueOK, Same
<1> QED
  BY <1>1, <1>2, <1>3, <1>4 DEF ProcOK

\* A step that touches neither the files nor who set what.
LEMMA LocalStep ==
  ASSUME SInv, NEW p \in Proc, \A q \in Proc \ {p} : Same(q), UNCHANGED <<file, by>>,
         \A q \in Proc \ {p} : due'[q] = due[q],
         TypeOK', TurnOK(p)', OwnOK(p)', MarksOK(p)', DueOK(p)'
  PROVE  SInv'
<1>1. ASSUME NEW q \in Proc \ {p} PROVE ProcOK(q)'
  <2>1. \A n : Own(by, q, n) => Own(by', q, n)
    BY DEF Own
  <2> QED
    BY <2>1, Bystander DEF SInv
<1>2. ProcOK(p)'
  BY DEF ProcOK
<1> QED
  BY <1>1, <1>2 DEF SInv

NoWriteIn(jobs) == \A i \in DOMAIN jobs : jobs[i].kind # "save"

\* Nothing becomes due, or is written, in a step between turns or loads that
\* leaves the writes in the queue.
LEMMA DueStays ==
  ASSUME NEW p \in Proc, DueOK(p), UNCHANGED file, due'[p] = due[p],
         NoWriteIn(turn[p]), NoWriteIn(turn'[p]),
         \A s \in Scope, f \in Field :
           /\ NoneSaves(queue'[p], s, f) => NoneSaves(queue[p], s, f)
           /\ \A v : LastSaves(queue[p], s, f, v) => LastSaves(queue'[p], s, f, v),
         \A s \in Scope :
           \/ marked'[p][s] = {}
           \/ /\ marked'[p][s] = marked[p][s] /\ memory'[p][s] = memory[p][s]
              /\ loadError[p][s] => loadError'[p][s]
  PROVE  DueOK(p)'
<1>1. \A s, f : NoneSaves(turn[p], s, f) /\ \A v : LastSaves(turn'[p], s, f, v)
  BY NoWrites DEF NoWriteIn
<1> SUFFICES ASSUME NEW s \in Scope, NEW f \in Field, due'[p][s][f] # 0
             PROVE  /\ f \in marked'[p][s] /\ ~loadError'[p][s] => memory'[p][s][f] = due'[p][s][f]
                    /\ LastSaves(queue'[p], s, f, due'[p][s][f])
                    /\ NoneSaves(queue'[p], s, f) => LastSaves(turn'[p], s, f, due'[p][s][f])
                    /\ NoneSaves(queue'[p], s, f) /\ NoneSaves(turn'[p], s, f) =>
                         file'[s] \notin {Absent, Torn} /\ file'[s][f] = due'[p][s][f]
  BY DEF DueOK
<1> QED
  BY <1>1 DEF DueOK

LEMMA CreateKeeps == ASSUME SInv, NEW p \in Proc, Create(p) PROVE SInv'
<1>1. PICK trust \in BOOLEAN :
        /\ trusted' = [trusted EXCEPT ![p] = trust]
        /\ turn' = [turn EXCEPT ![p] = Loads(trust)]
  BY DEF Create
<1>2. /\ pc[p] = "down" /\ pc' = [pc EXCEPT ![p] = "access"]
      /\ UNCHANGED <<queue, memory, marked, loadError, errors, file, lock, by, due, calls, faults>>
  BY DEF Create, ghosts
<1>3. TypeOK /\ TurnOK(p) /\ OwnOK(p) /\ MarksOK(p) /\ DueOK(p)
  BY DEF SInv, ProcOK
<1>4. TypeOK'
  BY <1>1, <1>2, <1>3, LoadsTypes DEF TypeOK
<1>5. /\ turn'[p] = Loads(trust) /\ pc'[p] = "access"
      /\ \A q \in Proc \ {p} : Same(q)
  BY <1>1, <1>2, <1>3 DEF TypeOK, Same
<1>6. \A s \in Scope : marked[p][s] = {}
  BY <1>2, <1>3 DEF OwnOK
<1>7. TurnOK(p)'
  BY <1>2, <1>5, <1>6, LoadsTypes DEF TurnOK
<1>8. \A i \in DOMAIN Loads(trust) : Loads(trust)[i].kind # "save"
  BY LoadsTypes
<1>9. OwnOK(p)'
  BY <1>2, <1>3, <1>5, <1>6, <1>8 DEF OwnOK, OwnJobs, Own
<1>10. MarksOK(p)'
  BY <1>2, <1>3, <1>6 DEF MarksOK
<1>11. NoWriteIn(turn[p]) /\ NoWriteIn(turn'[p])
  BY <1>2, <1>3, <1>5, <1>8 DEF TurnOK, NoWriteIn
<1>12. DueOK(p)'
  BY <1>2, <1>3, <1>11, DueStays
<1> QED
  BY <1>2, <1>4, <1>5, <1>7, <1>9, <1>10, <1>12, LocalStep

\* A process between turns has none.
LEMMA IdleTurn ==
  ASSUME TypeOK, NEW p \in Proc, TurnOK(p), pc[p] = "idle"
  PROVE  turn[p] = <<>> /\ NoWriteIn(turn[p])
  BY EmptyNoWrites DEF TurnOK, NoWriteIn

LEMMA SetterTypes ==
  ASSUME TypeOK, Len(by) + 1 <= MaxSets, NEW author \in Proc \cup {User}, by' = Append(by, author)
  PROVE  /\ Len(by) + 1 \in Value /\ Len(by) + 1 # 0
         /\ by' \in Seq(Proc \cup {User})
         /\ \A q \in Proc : \A n : Own(by, q, n) => Own(by', q, n)
         /\ author \in Proc => Own(by', author, Len(by) + 1)
<1>1. by \in Seq(Proc \cup {User})
  BY DEF TypeOK
<1>2. /\ by' \in Seq(Proc \cup {User}) /\ Len(by) \in Nat /\ Len(by') = Len(by) + 1
      /\ by'[Len(by) + 1] = author /\ \A i \in 1 .. Len(by) : by'[i] = by[i]
  BY <1>1, AppendProperties
<1>3. DOMAIN by = 1 .. Len(by) /\ DOMAIN by' = 1 .. Len(by) + 1
  BY <1>1, <1>2
<1>4. Len(by) + 1 \in Value /\ Len(by) + 1 # 0
  BY <1>2 DEF Value
<1>5. \A n \in DOMAIN by : n \in DOMAIN by' /\ by'[n] = by[n]
  BY <1>2, <1>3
<1>6. Len(by) + 1 \in DOMAIN by'
  BY <1>2, <1>3
<1> QED
  BY <1>2, <1>4, <1>5, <1>6 DEF Own

LEMMA SetKeeps ==
  ASSUME SInv, NEW p \in Proc, NEW s \in Scope, NEW F \in SUBSET Field, Set(p, s, F)
  PROVE  SInv'
<1> DEFINE n == Len(by) + 1
           settings == [f \in Field |-> IF f \in F THEN n ELSE memory[p][s][f]]
           owed == [f \in Field |-> IF f \in F THEN n ELSE due[p][s][f]]
           fields == marked[p][s] \cup F
<1>1. /\ pc[p] = "idle" /\ n <= MaxSets /\ by' = Append(by, p)
      /\ s = "project" => trusted[p]
      /\ UNCHANGED <<pc, turn, trusted, loadError, errors, file, lock, calls, faults>>
  BY DEF Set
<1>2. memory' = [memory EXCEPT ![p][s] = settings]
  BY DEF Set
<1>3. marked' = [marked EXCEPT ![p][s] = fields]
  BY DEF Set
<1>4. TypeOK /\ TurnOK(p) /\ OwnOK(p) /\ MarksOK(p) /\ DueOK(p)
  BY DEF SInv, ProcOK
<1>5. /\ n \in Value /\ n # 0 /\ by' \in Seq(Proc \cup {User})
      /\ \A q \in Proc : \A k : Own(by, q, k) => Own(by', q, k)
      /\ Own(by', p, n)
  BY <1>1, <1>4, SetterTypes
<1>6. /\ memory \in [Proc -> [Scope -> Settings]] /\ due \in [Proc -> [Scope -> Settings]]
      /\ marked \in [Proc -> [Scope -> SUBSET Field]] /\ queue \in [Proc -> Seq(Job)]
  BY <1>4 DEF TypeOK
<1>7. settings \in Settings /\ owed \in Settings /\ fields \in SUBSET Field
  BY <1>5, <1>6 DEF Settings
<1> DEFINE job == Save(s, settings, fields)
<1>8. job \in Job
  BY <1>7, JobTypes
<1>9. /\ \A f \in F : settings[f] = n /\ owed[f] = n
      /\ \A f \in Field \ F : settings[f] = memory[p][s][f] /\ owed[f] = due[p][s][f]
  OBVIOUS
<1>10. /\ job.kind = "save" /\ job.scope = s /\ job.snapshot = settings /\ job.fields = fields
  BY DEF Save
<1>11. F \subseteq fields /\ marked[p][s] \subseteq fields /\ fields \ F \subseteq marked[p][s]
  OBVIOUS
<1> HIDE DEF settings, owed, fields, job
<1>12. /\ memory' \in [Proc -> [Scope -> Settings]] /\ memory'[p][s] = settings
       /\ \A t \in Scope \ {s} : memory'[p][t] = memory[p][t]
       /\ \A q \in Proc \ {p} : memory'[q] = memory[q]
  BY <1>2, <1>6, <1>7, NestedExcept
<1>13. /\ marked' \in [Proc -> [Scope -> SUBSET Field]] /\ marked'[p][s] = fields
       /\ \A t \in Scope \ {s} : marked'[p][t] = marked[p][t]
       /\ \A q \in Proc \ {p} : marked'[q] = marked[q]
  BY <1>3, <1>6, <1>7, NestedExcept
<1>14. turn[p] = <<>> /\ NoWriteIn(turn[p])
  BY <1>1, <1>4, IdleTurn
<1>15. TurnOK(p)'
  BY <1>1, <1>4, <1>14 DEF TurnOK
<1>16. \A t \in Scope, f \in Field : f \in marked'[p][t] => Own(by', p, memory'[p][t][f])
  <2> SUFFICES ASSUME NEW t \in Scope, NEW f \in Field, f \in marked'[p][t]
               PROVE  Own(by', p, memory'[p][t][f])
    OBVIOUS
  <2>1. CASE t # s
    BY <1>4, <1>5, <1>12, <1>13, <2>1 DEF OwnOK
  <2>2. CASE t = s /\ f \in F
    BY <1>5, <1>9, <1>12, <2>2
  <2>3. CASE t = s /\ f \notin F
    <3>1. f \in marked[p][s] /\ memory'[p][s][f] = memory[p][s][f]
      BY <1>9, <1>11, <1>12, <1>13, <2>3
    <3> QED
      BY <1>4, <1>5, <2>3, <3>1 DEF OwnOK
  <2> QED
    BY <2>1, <2>2, <2>3
<1>17. \A jobs : OwnJobs(by, p, jobs) => OwnJobs(by', p, jobs)
  BY <1>5 DEF OwnJobs
<1>18. ASSUME NEW q \in Proc \ {p}, queue'[q] = queue[q], due'[q] = due[q]
       PROVE  ProcOK(q)'
  <2>1. Same(q)
    BY <1>1, <1>12, <1>13, <1>18 DEF Same
  <2> QED
    BY <1>1, <1>4, <1>5, <1>18, <2>1, Bystander DEF SInv
<1>19. CASE loadError[p][s]
  <2>1. UNCHANGED <<queue, due>>
    BY <1>19 DEF Set
  <2>2. TypeOK'
    BY <1>1, <1>4, <1>5, <1>12, <1>13, <2>1 DEF TypeOK
  <2>3. OwnOK(p)'
    BY <1>1, <1>4, <1>16, <1>17, <2>1 DEF OwnOK
  <2>4. MarksOK(p)'
    BY <1>1, <1>4, <1>19 DEF MarksOK
  <2>5. DueOK(p)'
    <3> SUFFICES ASSUME NEW t \in Scope, NEW f \in Field, due[p][t][f] # 0
                 PROVE  f \in marked'[p][t] /\ ~loadError[p][t] => memory'[p][t][f] = due[p][t][f]
      BY <1>1, <1>4, <2>1 DEF DueOK
    <3> QED
      BY <1>4, <1>12, <1>13, <1>19 DEF DueOK
  <2> QED
    BY <1>15, <1>18, <2>1, <2>2, <2>3, <2>4, <2>5 DEF SInv, ProcOK
<1>20. CASE ~loadError[p][s]
  <2>1. queue' = [queue EXCEPT ![p] = Append(queue[p], job)]
    <3>1. queue' = [queue EXCEPT ![p] = Append(@, Save(s, memory'[p][s], marked'[p][s]))]
      BY <1>20 DEF Set
    <3> QED
      BY <1>12, <1>13, <3>1 DEF job
  <2>2. due' = [due EXCEPT ![p][s] = owed]
    BY <1>20 DEF Set, owed
  <2>3. queue[p] \in Seq(Job) /\ Append(queue[p], job) \in Seq(Job)
    BY <1>6, <1>8, AppendFacts
  <2>4. /\ queue' \in [Proc -> Seq(Job)] /\ queue'[p] = Append(queue[p], job)
        /\ \A q \in Proc \ {p} : queue'[q] = queue[q]
    BY <1>6, <2>1, <2>3
  <2>5. /\ due' \in [Proc -> [Scope -> Settings]] /\ due'[p][s] = owed
        /\ \A t \in Scope \ {s} : due'[p][t] = due[p][t]
        /\ \A q \in Proc \ {p} : due'[q] = due[q]
    BY <1>6, <1>7, <2>2, NestedExcept
  <2>6. TypeOK'
    BY <1>1, <1>4, <1>5, <1>12, <1>13, <2>4, <2>5 DEF TypeOK
  <2>7. OwnOK(p)'
    <3>1. OwnJobs(by', p, queue[p]) /\ OwnJobs(by', p, turn[p])
      BY <1>4, <1>17 DEF OwnOK
    <3>2. \A f \in Field : f \in fields => Own(by', p, settings[f])
      BY <1>12, <1>13, <1>16
    <3>3. OwnJobs(by', p, queue'[p])
      BY <1>8, <1>10, <2>3, <2>4, <3>1, <3>2, AppendFacts DEF OwnJobs
    <3> QED
      BY <1>1, <1>16, <3>1, <3>3 DEF OwnOK
  <2>8. \A t \in Scope, f \in Field : Saves(job, t, f) <=> t = s /\ f \in fields
    BY <1>10 DEF Saves
  <2>9. MarksOK(p)'
    <3> SUFFICES ASSUME NEW t \in Scope, ~errors[p], NEW f \in marked'[p][t]
                 PROVE  ~NoneSaves(queue'[p], t, f) \/ ~NoneSaves(turn[p], t, f)
      BY <1>1, <1>4 DEF MarksOK
    <3>0. f \in Field
      BY <1>13
    <3>1. CASE t = s
      BY <1>8, <1>13, <2>3, <2>4, <2>8, <3>0, <3>1, AppendWrite
    <3>2. CASE t # s
      BY <1>4, <1>8, <1>13, <2>3, <2>4, <2>8, <3>0, <3>2, AppendWrite DEF MarksOK
    <3> QED
      BY <3>1, <3>2
  <2>10. DueOK(p)'
    <3> SUFFICES ASSUME NEW t \in Scope, NEW f \in Field, due'[p][t][f] # 0
                 PROVE  /\ f \in marked'[p][t] /\ ~loadError'[p][t] => memory'[p][t][f] = due'[p][t][f]
                        /\ LastSaves(queue'[p], t, f, due'[p][t][f])
                        /\ NoneSaves(queue'[p], t, f) => LastSaves(turn'[p], t, f, due'[p][t][f])
                        /\ NoneSaves(queue'[p], t, f) /\ NoneSaves(turn'[p], t, f) =>
                             file'[t] \notin {Absent, Torn} /\ file'[t][f] = due'[p][t][f]
      BY DEF DueOK
    <3>1. CASE t = s /\ f \in fields
      <4>1. settings[f] = owed[f]
        <5>1. CASE f \in F
          BY <1>9, <5>1
        <5>2. CASE f \notin F
          <6>1. f \in marked[p][s] /\ due[p][s][f] # 0
            BY <1>9, <1>11, <2>5, <3>1, <5>2
          <6> QED
            BY <1>4, <1>9, <1>20, <5>2, <6>1 DEF DueOK
        <5> QED
          BY <5>1, <5>2
      <4>2. ~NoneSaves(queue'[p], t, f) /\ LastSaves(queue'[p], t, f, settings[f])
        BY <1>8, <1>10, <2>3, <2>4, <2>8, <3>1, AppendWrite
      <4>3. memory'[p][t][f] = settings[f] /\ due'[p][t][f] = settings[f]
        BY <1>12, <2>5, <3>1, <4>1
      <4> QED
        BY <4>2, <4>3
    <3>2. CASE ~(t = s /\ f \in fields)
      <4>1. /\ due'[p][t][f] = due[p][t][f]
            /\ f \in marked'[p][t] => f \in marked[p][t] /\ memory'[p][t][f] = memory[p][t][f]
        <5>1. CASE t # s
          BY <1>12, <1>13, <2>5, <5>1
        <5>2. CASE t = s /\ f \notin fields
          BY <1>9, <1>11, <1>13, <2>5, <5>2
        <5> QED
          BY <3>2, <5>1, <5>2
      <4>2. /\ NoneSaves(queue'[p], t, f) <=> NoneSaves(queue[p], t, f)
            /\ \A v : LastSaves(queue[p], t, f, v) => LastSaves(queue'[p], t, f, v)
        BY <1>8, <2>3, <2>4, <2>8, <3>2, AppendWrite
      <4> QED
        BY <1>1, <1>4, <4>1, <4>2 DEF DueOK
    <3> QED
      BY <3>1, <3>2
  <2> QED
    BY <1>15, <1>18, <2>4, <2>5, <2>6, <2>7, <2>9, <2>10 DEF SInv, ProcOK
<1> QED
  BY <1>19, <1>20

LEMMA ReloadKeeps == ASSUME SInv, NEW p \in Proc, Reload(p) PROVE SInv'
<1>1. /\ pc[p] = "idle" /\ queue' = [queue EXCEPT ![p] = Append(queue[p], ReloadJob)]
      /\ UNCHANGED <<pc, turn, memory, marked, trusted, loadError, errors, file, lock, by, due, faults>>
      /\ calls' = calls + 1
  BY DEF Reload, Called, copy
<1>2. TypeOK /\ TurnOK(p) /\ OwnOK(p) /\ MarksOK(p) /\ DueOK(p)
  BY DEF SInv, ProcOK
<1>3. queue \in [Proc -> Seq(Job)] /\ queue[p] \in Seq(Job) /\ ReloadJob \in Job
  BY <1>2, JobTypes DEF TypeOK
<1>4. Append(queue[p], ReloadJob) \in Seq(Job)
  BY <1>3, AppendFacts
<1>5. /\ queue' \in [Proc -> Seq(Job)] /\ queue'[p] = Append(queue[p], ReloadJob)
      /\ \A q \in Proc \ {p} : queue'[q] = queue[q]
  BY <1>1, <1>3, <1>4
<1>6. TypeOK'
  BY <1>1, <1>2, <1>5 DEF TypeOK
<1>7. \A s, f : ~Saves(ReloadJob, s, f)
  BY JobTypes DEF Saves
<1>8. \A s \in Scope, f \in Field :
        /\ NoneSaves(queue'[p], s, f) <=> NoneSaves(queue[p], s, f)
        /\ \A v : LastSaves(queue[p], s, f, v) => LastSaves(queue'[p], s, f, v)
  BY <1>3, <1>5, <1>7, AppendWrite
<1>9. NoWriteIn(turn[p])
  BY <1>1, <1>2, IdleTurn
<1>10. DueOK(p)'
  BY <1>1, <1>2, <1>8, <1>9, DueStays
<1>11. OwnOK(p)'
  <2>1. OwnJobs(by, p, queue'[p])
    BY <1>2, <1>3, <1>5, AppendFacts, JobTypes DEF OwnOK, OwnJobs
  <2> QED
    BY <1>1, <1>2, <2>1 DEF OwnOK
<1>12. MarksOK(p)'
  <2>1. marked[p] \in [Scope -> SUBSET Field]
    BY <1>2 DEF TypeOK
  <2> QED
    BY <1>1, <1>2, <1>8, <2>1 DEF MarksOK
<1>13. TurnOK(p)' /\ \A q \in Proc \ {p} : Same(q)
  BY <1>1, <1>2, <1>5 DEF TurnOK, Op, Same
<1> QED
  BY <1>1, <1>6, <1>10, <1>11, <1>12, <1>13, LocalStep

LEMMA TrustKeeps == ASSUME SInv, NEW p \in Proc, Trust(p) PROVE SInv'
<1>1. /\ pc[p] = "idle" /\ trusted' = [trusted EXCEPT ![p] = TRUE]
      /\ marked' = [marked EXCEPT ![p]["project"] = {}]
      /\ turn' = [turn EXCEPT ![p] = <<Load("project")>>]
      /\ pc' = [pc EXCEPT ![p] = "access"]
      /\ UNCHANGED <<queue, memory, loadError, errors, file, lock, by, due, faults>>
      /\ calls' = calls + 1
  BY DEF Trust, Called
<1>2. TypeOK /\ TurnOK(p) /\ OwnOK(p) /\ MarksOK(p) /\ DueOK(p)
  BY DEF SInv, ProcOK
<1>3. /\ marked \in [Proc -> [Scope -> SUBSET Field]] /\ turn \in [Proc -> Seq(Job)]
      /\ "project" \in Scope
  BY <1>2 DEF TypeOK, Scope
<1>4. /\ marked' \in [Proc -> [Scope -> SUBSET Field]] /\ marked'[p]["project"] = {}
      /\ \A t \in Scope \ {"project"} : marked'[p][t] = marked[p][t]
      /\ \A q \in Proc \ {p} : marked'[q] = marked[q]
  BY <1>1, <1>3, NestedExcept
<1>5. <<Load("project")>> \in Seq(Job)
  BY <1>3, JobTypes
<1>6. /\ turn' \in [Proc -> Seq(Job)] /\ turn'[p] = <<Load("project")>>
      /\ \A q \in Proc \ {p} : turn'[q] = turn[q]
  BY <1>1, <1>3, <1>5
<1>7. TypeOK'
  BY <1>1, <1>2, <1>4, <1>6 DEF TypeOK
<1>8. /\ pc'[p] = "access" /\ trusted'[p] = TRUE
      /\ \A q \in Proc \ {p} : Same(q)
  BY <1>1, <1>2, <1>4, <1>6 DEF TypeOK, Same
<1>9. \A i \in DOMAIN turn'[p] : turn'[p][i].kind = "load" /\ turn'[p][i].scope = "project"
  BY <1>3, <1>6, JobTypes
<1>10. turn'[p] # <<>>
  BY <1>6
<1>11. TurnOK(p)'
  BY <1>4, <1>8, <1>9, <1>10 DEF TurnOK
<1>12. NoWriteIn(turn[p]) /\ NoWriteIn(turn'[p])
  BY <1>1, <1>2, <1>9, IdleTurn DEF NoWriteIn
<1>13. \A s \in Scope : marked'[p][s] = {} \/ marked'[p][s] = marked[p][s]
  BY <1>4
<1>14. OwnOK(p)'
  BY <1>1, <1>2, <1>8, <1>12, <1>13, NoWrites DEF OwnOK, NoWriteIn
<1>15. MarksOK(p)'
  BY <1>1, <1>2, <1>12, <1>13, NoWrites DEF MarksOK, NoWriteIn
<1>16. DueOK(p)'
  BY <1>1, <1>2, <1>12, <1>13, DueStays
<1> QED
  BY <1>1, <1>7, <1>8, <1>11, <1>14, <1>15, <1>16, LocalStep

LEMMA DistrustKeeps == ASSUME SInv, NEW p \in Proc, Distrust(p) PROVE SInv'
<1>1. /\ pc[p] = "idle" /\ trusted' = [trusted EXCEPT ![p] = FALSE]
      /\ marked' = [marked EXCEPT ![p]["project"] = {}]
      /\ memory' = [memory EXCEPT ![p]["project"] = Empty]
      /\ loadError' = [loadError EXCEPT ![p]["project"] = FALSE]
      /\ UNCHANGED <<pc, turn, queue, errors, file, lock, by, due, faults>>
      /\ calls' = calls + 1
  BY DEF Distrust, Called
<1>2. TypeOK /\ TurnOK(p) /\ OwnOK(p) /\ MarksOK(p) /\ DueOK(p)
  BY DEF SInv, ProcOK
<1>3. /\ marked \in [Proc -> [Scope -> SUBSET Field]] /\ memory \in [Proc -> [Scope -> Settings]]
      /\ loadError \in [Proc -> [Scope -> BOOLEAN]]
      /\ "project" \in Scope
  BY <1>2 DEF TypeOK, Scope
<1>4. /\ marked' \in [Proc -> [Scope -> SUBSET Field]] /\ marked'[p]["project"] = {}
      /\ \A t \in Scope \ {"project"} : marked'[p][t] = marked[p][t]
      /\ \A q \in Proc \ {p} : marked'[q] = marked[q]
  BY <1>1, <1>3, NestedExcept
<1>5. /\ memory' \in [Proc -> [Scope -> Settings]]
      /\ \A t \in Scope \ {"project"} : memory'[p][t] = memory[p][t]
      /\ \A q \in Proc \ {p} : memory'[q] = memory[q]
  BY <1>1, <1>3, JobTypes, NestedExcept
<1>6. /\ loadError' \in [Proc -> [Scope -> BOOLEAN]] /\ loadError'[p]["project"] = FALSE
      /\ \A t \in Scope \ {"project"} : loadError'[p][t] = loadError[p][t]
      /\ \A q \in Proc \ {p} : loadError'[q] = loadError[q]
  BY <1>1, <1>3, NestedExcept
<1>7. TypeOK'
  BY <1>1, <1>2, <1>4, <1>5, <1>6 DEF TypeOK
<1>8. \A q \in Proc \ {p} : Same(q)
  BY <1>1, <1>2, <1>4, <1>5, <1>6 DEF TypeOK, Same
<1>9. turn[p] = <<>> /\ NoWriteIn(turn[p])
  BY <1>1, <1>2, IdleTurn
<1>10. TurnOK(p)'
  BY <1>1, <1>2, <1>9 DEF TurnOK
<1>11. \A s \in Scope : \/ marked'[p][s] = {}
                        \/ /\ marked'[p][s] = marked[p][s] /\ memory'[p][s] = memory[p][s]
                           /\ loadError'[p][s] = loadError[p][s]
  BY <1>4, <1>5, <1>6
<1>12. OwnOK(p)'
  BY <1>1, <1>2, <1>11 DEF OwnOK
<1>13. \A s \in Scope : loadError'[p][s] => loadError[p][s]
  BY <1>6
<1>14. MarksOK(p)'
  BY <1>1, <1>2, <1>11, <1>13 DEF MarksOK
<1>15. DueOK(p)'
  BY <1>1, <1>2, <1>9, <1>11, DueStays
<1> QED
  BY <1>1, <1>7, <1>8, <1>10, <1>12, <1>14, <1>15, LocalStep

-----------------------------------------------------------------------------
(* The queue.                                                              *)

LEMMA HeadFacts ==
  ASSUME TypeOK, NEW p \in Proc, NEW kind, HeadIs(p, kind)
  PROVE  /\ pc[p] = "idle" /\ queue[p] \in Seq(Job) /\ queue[p] # <<>>
         /\ Head(queue[p]) \in Job /\ Head(queue[p]).kind = kind
         /\ Head(queue[p]).scope \in Scope
         /\ queue' \in [Proc -> Seq(Job)] /\ queue'[p] = Tail(queue[p])
         /\ \A q \in Proc \ {p} : queue'[q] = queue[q]
<1>1. /\ queue \in [Proc -> Seq(Job)] /\ queue[p] # <<>> /\ pc[p] = "idle"
      /\ Head(queue[p]).kind = kind
      /\ queue' = [queue EXCEPT ![p] = Tail(queue[p])]
  BY DEF HeadIs, TypeOK
<1>2. Head(queue[p]) \in Job /\ Tail(queue[p]) \in Seq(Job)
  BY <1>1, TailFacts
<1>3. Head(queue[p]).scope \in Scope
  BY <1>2 DEF Job
<1> QED
  BY <1>1, <1>2, <1>3

\* What the head of the queue and the rest of it save.
LEMMA HeadWrites ==
  ASSUME TypeOK, NEW p \in Proc, NEW kind, HeadIs(p, kind), NEW s, NEW f
  PROVE  /\ \A v : LastSaves(queue[p], s, f, v) => LastSaves(queue'[p], s, f, v)
         /\ ~Saves(Head(queue[p]), s, f) =>
              (NoneSaves(queue'[p], s, f) <=> NoneSaves(queue[p], s, f))
         /\ Saves(Head(queue[p]), s, f) /\ NoneSaves(queue'[p], s, f) =>
              \A v : LastSaves(queue[p], s, f, v) => Head(queue[p]).snapshot[f] = v
<1> DEFINE jobs == queue[p]
<1>1. jobs \in Seq(Job) /\ jobs # <<>> /\ queue'[p] = Tail(jobs)
  BY HeadFacts
<1> HIDE DEF jobs
<1>2. /\ \A v : LastSaves(jobs, s, f, v) => LastSaves(Tail(jobs), s, f, v)
      /\ ~Saves(Head(jobs), s, f) => (NoneSaves(Tail(jobs), s, f) <=> NoneSaves(jobs, s, f))
      /\ Saves(Head(jobs), s, f) /\ NoneSaves(Tail(jobs), s, f) =>
           \A v : LastSaves(jobs, s, f, v) => Head(jobs).snapshot[f] = v
  BY <1>1, TailWrites
<1> QED
  BY <1>1, <1>2 DEF jobs

LEMMA OneJob ==
  ASSUME NEW job \in Job
  PROVE  /\ <<job>> \in Seq(Job) /\ <<job>> # <<>> /\ Len(<<job>>) = 1
         /\ DOMAIN <<job>> = {1} /\ <<job>>[1] = job /\ Head(<<job>>) = job
         /\ \A s, f : NoneSaves(<<job>>, s, f) <=> ~Saves(job, s, f)
         /\ \A s, f, v : Saves(job, s, f) /\ job.snapshot[f] = v => LastSaves(<<job>>, s, f, v)
<1>1. <<job>> \in Seq(Job) /\ <<job>> # <<>> /\ Len(<<job>>) = 1
      /\ DOMAIN <<job>> = {1} /\ <<job>>[1] = job /\ Head(<<job>>) = job
  OBVIOUS
<1> DEFINE jobs == <<job>>
<1> HIDE DEF jobs
<1>2. /\ \A s, f : NoneSaves(jobs, s, f) <=> ~Saves(job, s, f)
      /\ \A s, f, v : Saves(job, s, f) /\ job.snapshot[f] = v => LastSaves(jobs, s, f, v)
  BY <1>1 DEF NoneSaves, LastSaves, jobs
<1> QED
  BY <1>1, <1>2 DEF jobs

LEMMA NotDueFacts ==
  ASSUME TypeOK, NEW p \in Proc, NEW op, op.scope \in Scope, NotDue(p, op)
  PROVE  /\ due' \in [Proc -> [Scope -> Settings]]
         /\ \A q \in Proc \ {p} : due'[q] = due[q]
         /\ \A s \in Scope, f \in Field : due'[p][s][f] # 0 =>
              due'[p][s][f] = due[p][s][f] /\ ~(s = op.scope /\ f \in op.fields)
<1> DEFINE t == op.scope
           left == [f \in Field |-> IF f \in op.fields THEN 0 ELSE due[p][t][f]]
<1>1. due \in [Proc -> [Scope -> Settings]] /\ due' = [due EXCEPT ![p][t] = left]
  BY DEF TypeOK, NotDue
<1>2. left \in Settings
  BY <1>1 DEF Settings, Value
<1>3. \A f \in Field : left[f] # 0 => left[f] = due[p][t][f] /\ f \notin op.fields
  OBVIOUS
<1> HIDE DEF left, t
<1>4. t \in Scope
  BY DEF t
<1>5. /\ due' \in [Proc -> [Scope -> Settings]] /\ due'[p][t] = left
      /\ \A s \in Scope \ {t} : due'[p][s] = due[p][s]
      /\ \A q \in Proc \ {p} : due'[q] = due[q]
  BY <1>1, <1>2, <1>4, NestedExcept
<1> QED
  BY <1>3, <1>5 DEF t

LEMMA StartWriteKeeps == ASSUME SInv, NEW p \in Proc, StartWrite(p) PROVE SInv'
<1> DEFINE job == Head(queue[p])
<1>1. /\ HeadIs(p, "save") /\ MayWrite(p, job.scope)
      /\ turn' = [turn EXCEPT ![p] = <<job>>]
      /\ pc' = [pc EXCEPT ![p] = "access"]
      /\ UNCHANGED <<memory, marked, trusted, loadError, errors, file, lock, by, due, calls, faults>>
  BY DEF StartWrite, copy, ghosts
<1>2. TypeOK /\ TurnOK(p) /\ OwnOK(p) /\ MarksOK(p) /\ DueOK(p)
  BY DEF SInv, ProcOK
<1>3. /\ pc[p] = "idle" /\ queue[p] \in Seq(Job) /\ queue[p] # <<>>
      /\ job \in Job /\ job.kind = "save" /\ job.scope \in Scope
      /\ queue' \in [Proc -> Seq(Job)] /\ queue'[p] = Tail(queue[p])
      /\ \A q \in Proc \ {p} : queue'[q] = queue[q]
  BY <1>1, <1>2, HeadFacts
<1>4. /\ OwnJobs(by, p, Tail(queue[p]))
      /\ \A f \in Field : f \in job.fields => Own(by, p, job.snapshot[f])
  BY <1>2, <1>3, TailOwn DEF OwnOK
<1>5. \A s \in Scope, f \in Field :
        /\ \A v : LastSaves(queue[p], s, f, v) => LastSaves(queue'[p], s, f, v)
        /\ ~Saves(job, s, f) => (NoneSaves(queue'[p], s, f) <=> NoneSaves(queue[p], s, f))
        /\ Saves(job, s, f) /\ NoneSaves(queue'[p], s, f) =>
             \A v : LastSaves(queue[p], s, f, v) => job.snapshot[f] = v
  BY <1>1, <1>2, HeadWrites
<1> HIDE DEF job
<1>6. /\ turn' \in [Proc -> Seq(Job)] /\ turn'[p] = <<job>>
      /\ \A q \in Proc \ {p} : turn'[q] = turn[q]
  BY <1>1, <1>2, <1>3, OneJob DEF TypeOK
<1>7. /\ pc'[p] = "access" /\ \A q \in Proc \ {p} : Same(q)
  BY <1>1, <1>2, <1>3, <1>6 DEF TypeOK, Same
<1>8. TypeOK'
  BY <1>1, <1>2, <1>3, <1>6 DEF TypeOK
<1>9. TurnOK(p)'
  <2>1. job.scope = "project" => trusted'[p]
    BY <1>1 DEF MayWrite
  <2>2. Len(turn'[p]) = 1 /\ turn'[p] # <<>> /\ DOMAIN turn'[p] = {1} /\ turn'[p][1] = job
    BY <1>3, <1>6, OneJob
  <2> QED
    BY <1>3, <1>7, <2>1, <2>2 DEF TurnOK
<1>10. OwnOK(p)'
  <2>1. OwnJobs(by, p, turn'[p])
    BY <1>3, <1>4, <1>6, OneJob DEF OwnJobs
  <2> QED
    BY <1>1, <1>2, <1>3, <1>4, <1>7, <2>1 DEF OwnOK
<1>11. /\ \A s, f : NoneSaves(turn[p], s, f)
       /\ \A s, f : NoneSaves(turn'[p], s, f) <=> ~Saves(job, s, f)
       /\ \A s, f, v : Saves(job, s, f) /\ job.snapshot[f] = v => LastSaves(turn'[p], s, f, v)
  <2>1. turn[p] = <<>>
    BY <1>2, <1>3, IdleTurn
  <2> QED
    BY <1>3, <1>6, <2>1, EmptyNoWrites, OneJob
<1>12. MarksOK(p)'
  <2> SUFFICES ASSUME NEW s \in Scope, ~errors[p], NEW f \in marked[p][s]
               PROVE  ~NoneSaves(queue'[p], s, f) \/ ~NoneSaves(turn'[p], s, f)
    BY <1>1, <1>2 DEF MarksOK
  <2>1. f \in Field
    BY <1>2 DEF TypeOK
  <2> QED
    BY <1>2, <1>5, <1>11, <2>1 DEF MarksOK
<1>13. DueOK(p)'
  <2> SUFFICES ASSUME NEW s \in Scope, NEW f \in Field, due[p][s][f] # 0
               PROVE  /\ f \in marked[p][s] /\ ~loadError[p][s] => memory[p][s][f] = due[p][s][f]
                      /\ LastSaves(queue'[p], s, f, due[p][s][f])
                      /\ NoneSaves(queue'[p], s, f) => LastSaves(turn'[p], s, f, due[p][s][f])
                      /\ NoneSaves(queue'[p], s, f) /\ NoneSaves(turn'[p], s, f) =>
                           file[s] \notin {Absent, Torn} /\ file[s][f] = due[p][s][f]
    BY <1>1 DEF DueOK
  <2>1. CASE Saves(job, s, f)
    BY <1>2, <1>5, <1>11, <2>1 DEF DueOK
  <2>2. CASE ~Saves(job, s, f)
    <3>1. LastSaves(turn'[p], s, f, due[p][s][f])
      BY <1>11, <2>2 DEF LastSaves, NoneSaves
    <3> QED
      BY <1>2, <1>5, <1>11, <2>2, <3>1 DEF DueOK
  <2> QED
    BY <2>1, <2>2
<1> QED
  BY <1>1, <1>7, <1>8, <1>9, <1>10, <1>12, <1>13, LocalStep

LEMMA RefuseWriteKeeps == ASSUME SInv, NEW p \in Proc, RefuseWrite(p) PROVE SInv'
<1> DEFINE job == Head(queue[p])
<1>1. /\ HeadIs(p, "save") /\ NotDue(p, job)
      /\ errors' = [errors EXCEPT ![p] = TRUE]
      /\ UNCHANGED <<pc, turn, memory, marked, trusted, loadError, file, lock, by, calls, faults>>
  BY DEF RefuseWrite
<1>2. TypeOK /\ TurnOK(p) /\ OwnOK(p) /\ MarksOK(p) /\ DueOK(p)
  BY DEF SInv, ProcOK
<1>3. /\ pc[p] = "idle" /\ queue[p] \in Seq(Job) /\ queue[p] # <<>>
      /\ job \in Job /\ job.kind = "save" /\ job.scope \in Scope
      /\ queue' \in [Proc -> Seq(Job)] /\ queue'[p] = Tail(queue[p])
      /\ \A q \in Proc \ {p} : queue'[q] = queue[q]
  BY <1>1, <1>2, HeadFacts
<1>4. OwnJobs(by, p, Tail(queue[p]))
  BY <1>2, <1>3, TailOwn DEF OwnOK
<1>5. \A s \in Scope, f \in Field :
        /\ \A v : LastSaves(queue[p], s, f, v) => LastSaves(queue'[p], s, f, v)
        /\ ~Saves(job, s, f) => (NoneSaves(queue'[p], s, f) <=> NoneSaves(queue[p], s, f))
  BY <1>1, <1>2, HeadWrites
<1> HIDE DEF job
<1>6. /\ due' \in [Proc -> [Scope -> Settings]]
      /\ \A q \in Proc \ {p} : due'[q] = due[q]
      /\ \A s \in Scope, f \in Field : due'[p][s][f] # 0 =>
           due'[p][s][f] = due[p][s][f] /\ ~(s = job.scope /\ f \in job.fields)
  BY <1>1, <1>2, <1>3, NotDueFacts
<1>7. errors' \in [Proc -> BOOLEAN] /\ errors'[p] /\ \A q \in Proc \ {p} : Same(q)
  BY <1>1, <1>2, <1>3 DEF TypeOK, Same
<1>8. TypeOK'
  BY <1>1, <1>2, <1>3, <1>6, <1>7 DEF TypeOK
<1>9. TurnOK(p)' /\ OwnOK(p)' /\ MarksOK(p)'
  BY <1>1, <1>2, <1>3, <1>4, <1>7 DEF TurnOK, Op, OwnOK, MarksOK
<1>10. DueOK(p)'
  <2> SUFFICES ASSUME NEW s \in Scope, NEW f \in Field, due'[p][s][f] # 0
               PROVE  /\ f \in marked[p][s] /\ ~loadError[p][s] => memory[p][s][f] = due'[p][s][f]
                      /\ LastSaves(queue'[p], s, f, due'[p][s][f])
                      /\ NoneSaves(queue'[p], s, f) => LastSaves(turn[p], s, f, due'[p][s][f])
                      /\ NoneSaves(queue'[p], s, f) /\ NoneSaves(turn[p], s, f) =>
                           file[s] \notin {Absent, Torn} /\ file[s][f] = due'[p][s][f]
    BY <1>1 DEF DueOK
  <2>1. due'[p][s][f] = due[p][s][f] /\ ~Saves(job, s, f)
    BY <1>6 DEF Saves
  <2> QED
    BY <1>2, <1>5, <2>1 DEF DueOK
<1> QED
  BY <1>1, <1>6, <1>7, <1>8, <1>9, <1>10, LocalStep

LEMMA StartReloadKeeps == ASSUME SInv, NEW p \in Proc, StartReload(p) PROVE SInv'
<1>1. /\ HeadIs(p, "reload")
      /\ marked' = [marked EXCEPT ![p] = [s \in Scope |-> {}]]
      /\ turn' = [turn EXCEPT ![p] = Loads(trusted[p])]
      /\ pc' = [pc EXCEPT ![p] = "access"]
      /\ UNCHANGED <<trusted, errors, file, lock, by, due, calls, faults>>
  BY DEF StartReload, ghosts
<1>2. TypeOK /\ TurnOK(p) /\ OwnOK(p) /\ MarksOK(p) /\ DueOK(p)
  BY DEF SInv, ProcOK
<1>3. /\ pc[p] = "idle" /\ queue[p] \in Seq(Job) /\ queue[p] # <<>>
      /\ Head(queue[p]).kind = "reload"
      /\ queue' \in [Proc -> Seq(Job)] /\ queue'[p] = Tail(queue[p])
      /\ \A q \in Proc \ {p} : queue'[q] = queue[q]
  BY <1>1, <1>2, HeadFacts
<1>4. OwnJobs(by, p, queue'[p])
  BY <1>2, <1>3, TailOwn DEF OwnOK
<1>5. \A s \in Scope, f \in Field :
        /\ \A v : LastSaves(queue[p], s, f, v) => LastSaves(queue'[p], s, f, v)
        /\ NoneSaves(queue'[p], s, f) <=> NoneSaves(queue[p], s, f)
  BY <1>3, TailWrites DEF Saves
<1>6. /\ memory' \in [Proc -> [Scope -> Settings]] /\ loadError' \in [Proc -> [Scope -> BOOLEAN]]
      /\ \A q \in Proc \ {p} : memory'[q] = memory[q] /\ loadError'[q] = loadError[q]
      /\ \A s \in Scope : loadError'[p][s] => loadError[p][s]
  <2>1. /\ memory \in [Proc -> [Scope -> Settings]] /\ loadError \in [Proc -> [Scope -> BOOLEAN]]
        /\ "project" \in Scope
    BY <1>2 DEF TypeOK, Scope
  <2>2. CASE trusted[p]
    BY <2>1, <2>2 DEF StartReload
  <2>3. CASE ~trusted[p]
    <3>1. /\ memory' = [memory EXCEPT ![p]["project"] = Empty]
          /\ loadError' = [loadError EXCEPT ![p]["project"] = FALSE]
      BY <2>3 DEF StartReload
    <3>2. memory' \in [Proc -> [Scope -> Settings]] /\ \A q \in Proc \ {p} : memory'[q] = memory[q]
      BY <2>1, <3>1, JobTypes, NestedExcept
    <3>3. /\ loadError' \in [Proc -> [Scope -> BOOLEAN]] /\ loadError'[p]["project"] = FALSE
          /\ \A s \in Scope \ {"project"} : loadError'[p][s] = loadError[p][s]
          /\ \A q \in Proc \ {p} : loadError'[q] = loadError[q]
      BY <2>1, <3>1, NestedExcept
    <3> QED
      BY <3>2, <3>3
  <2> QED
    BY <2>2, <2>3
<1>7. /\ marked' \in [Proc -> [Scope -> SUBSET Field]]
      /\ \A s \in Scope : marked'[p][s] = {}
      /\ \A q \in Proc \ {p} : marked'[q] = marked[q]
  BY <1>1, <1>2 DEF TypeOK
<1>8. trusted[p] \in BOOLEAN
  BY <1>2 DEF TypeOK
<1>9. /\ turn' \in [Proc -> Seq(Job)] /\ turn'[p] = Loads(trusted[p])
      /\ \A q \in Proc \ {p} : turn'[q] = turn[q]
  BY <1>1, <1>2, <1>8, LoadsTypes DEF TypeOK
<1>10. pc'[p] = "access" /\ \A q \in Proc \ {p} : Same(q)
  BY <1>1, <1>2, <1>3, <1>6, <1>7, <1>9 DEF TypeOK, Same
<1>11. TypeOK'
  BY <1>1, <1>2, <1>3, <1>6, <1>7, <1>9 DEF TypeOK
<1>12. TurnOK(p)'
  BY <1>7, <1>8, <1>9, <1>10, LoadsTypes DEF TurnOK
<1>13. NoWriteIn(turn[p]) /\ NoWriteIn(turn'[p])
  BY <1>2, <1>3, <1>8, <1>9, IdleTurn, LoadsTypes DEF NoWriteIn
<1>14. OwnOK(p)'
  BY <1>1, <1>4, <1>7, <1>10, <1>13, NoWrites DEF OwnOK, NoWriteIn
<1>15. MarksOK(p)'
  BY <1>1, <1>2, <1>6, <1>7 DEF MarksOK
<1>16. DueOK(p)'
  BY <1>1, <1>2, <1>5, <1>7, <1>13, DueStays
<1> QED
  BY <1>1, <1>10, <1>11, <1>12, <1>14, <1>15, <1>16, LocalStep

-----------------------------------------------------------------------------
(* The accesses to the files.                                              *)

Active(p) == pc[p] \notin {"down", "idle"}

LEMMA LoadTurn ==
  ASSUME TypeOK, NEW p \in Proc, TurnOK(p), Active(p), Op(p).kind = "load"
  PROVE  NoWriteIn(turn[p]) /\ marked[p][Op(p).scope] = {}
<1>1. turn[p] \in Seq(Job) /\ turn[p] # <<>> /\ Op(p) = turn[p][1] /\ 1 \in DOMAIN turn[p]
  BY TurnTypes DEF Active
<1>2. DOMAIN turn[p] = 1 .. Len(turn[p])
  BY <1>1
<1>3. ASSUME NEW i \in DOMAIN turn[p], turn[p][i].kind = "save" PROVE FALSE
  <2>1. Len(turn[p]) = 1
    BY <1>3 DEF TurnOK
  <2>2. i = 1
    BY <1>2, <2>1
  <2> QED
    BY <1>1, <1>3, <2>2
<1> QED
  BY <1>1, <1>3 DEF NoWriteIn, TurnOK

LEMMA SaveTurn ==
  ASSUME TypeOK, NEW p \in Proc, TurnOK(p), Active(p), Op(p).kind = "save"
  PROVE  /\ Len(turn[p]) = 1 /\ Tail(turn[p]) = <<>> /\ DOMAIN turn[p] = {1}
         /\ Op(p) = turn[p][1]
         /\ Op(p).scope = "project" => trusted[p]
         /\ \A s, f : NoneSaves(turn[p], s, f) <=> ~Saves(Op(p), s, f)
         /\ \A s, f, v : Saves(Op(p), s, f) /\ LastSaves(turn[p], s, f, v) => Op(p).snapshot[f] = v
<1>1. turn[p] \in Seq(Job) /\ turn[p] # <<>> /\ Op(p) = turn[p][1] /\ 1 \in DOMAIN turn[p]
  BY TurnTypes DEF Active
<1>2. Len(turn[p]) = 1 /\ (Op(p).scope = "project" => trusted[p])
  BY <1>1 DEF TurnOK
<1>3. DOMAIN turn[p] = {1}
  BY <1>1, <1>2
<1>4. Tail(turn[p]) = <<>>
  BY <1>1, <1>2, TailFacts
<1> QED
  BY <1>1, <1>2, <1>3, <1>4 DEF NoneSaves, LastSaves, Saves

\* After an access, the turn is over or goes on with loads.
LEMMA DoneTurn ==
  ASSUME TypeOK, NEW p \in Proc, TurnOK(p), Active(p), Done(p),
         \A s \in Scope : marked[p][s] = {} => marked'[p][s] = {}
  PROVE  /\ turn' \in [Proc -> Seq(Job)] /\ turn'[p] = Tail(turn[p])
         /\ pc' \in [Proc -> {"down", "idle", "access", "touching", "locking", "locked"}]
         /\ pc'[p] \in {"idle", "access"}
         /\ \A q \in Proc \ {p} : turn'[q] = turn[q] /\ pc'[q] = pc[q]
         /\ NoWriteIn(turn'[p]) /\ TurnOK(p)'
<1>1. turn[p] \in Seq(Job) /\ turn[p] # <<>>
  BY TurnTypes DEF Active
<1>2. /\ Tail(turn[p]) \in Seq(Job) /\ Len(turn[p]) \in Nat /\ DOMAIN turn[p] = 1 .. Len(turn[p])
      /\ DOMAIN Tail(turn[p]) = 1 .. Len(turn[p]) - 1
      /\ \A i \in 1 .. Len(turn[p]) - 1 : Tail(turn[p])[i] = turn[p][i + 1]
      /\ Len(turn[p]) = 1 <=> Tail(turn[p]) = <<>>
  BY <1>1, TailFacts
<1>3. /\ turn' = [turn EXCEPT ![p] = Tail(turn[p])]
      /\ pc' = [pc EXCEPT ![p] = IF Len(turn[p]) = 1 THEN "idle" ELSE "access"]
      /\ turn \in [Proc -> Seq(Job)]
      /\ pc \in [Proc -> {"down", "idle", "access", "touching", "locking", "locked"}]
  BY DEF Done, TypeOK
<1>4. /\ turn' \in [Proc -> Seq(Job)] /\ turn'[p] = Tail(turn[p])
      /\ \A q \in Proc \ {p} : turn'[q] = turn[q]
  BY <1>2, <1>3
<1>5. /\ pc' \in [Proc -> {"down", "idle", "access", "touching", "locking", "locked"}]
      /\ pc'[p] = IF Len(turn[p]) = 1 THEN "idle" ELSE "access"
      /\ \A q \in Proc \ {p} : pc'[q] = pc[q]
  BY <1>3
<1>6. ASSUME NEW i \in DOMAIN turn'[p]
      PROVE  turn'[p][i].kind = "load" /\ marked'[p][turn'[p][i].scope] = {}
  <2>1. i + 1 \in DOMAIN turn[p] /\ turn'[p][i] = turn[p][i + 1] /\ Len(turn[p]) # 1
    BY <1>2, <1>4, <1>6
  <2>2. turn[p][i + 1].kind \notin {"reload", "save"}
    BY <2>1 DEF TurnOK
  <2>3. turn[p][i + 1] \in Job
    BY <1>1, <2>1
  <2>4. turn[p][i + 1].kind = "load" /\ turn[p][i + 1].scope \in Scope
    BY <2>2, <2>3 DEF Job
  <2> QED
    BY <2>1, <2>4 DEF TurnOK
<1>7. NoWriteIn(turn'[p])
  BY <1>6 DEF NoWriteIn
<1>8. TurnOK(p)'
  BY <1>2, <1>4, <1>5, <1>6 DEF TurnOK
<1> QED
  BY <1>4, <1>5, <1>7, <1>8

\* A load that succeeds.
LEMMA LoadedKeeps ==
  ASSUME SInv, NEW p \in Proc, Active(p), Op(p).kind = "load", NEW settings \in Settings,
         Loaded(p, Op(p).scope, settings), Done(p), lock' \in [Scope -> Proc \cup {None, Dead}],
         UNCHANGED <<queue, marked, trusted, file, by, due, calls, faults>>
  PROVE  SInv'
<1>1. TypeOK /\ TurnOK(p) /\ OwnOK(p) /\ MarksOK(p) /\ DueOK(p)
  BY DEF SInv, ProcOK
<1> DEFINE t == Op(p).scope
<1>2. t \in Scope
  BY <1>1, TurnTypes DEF Active
<1>3. NoWriteIn(turn[p]) /\ marked[p][t] = {}
  BY <1>1, LoadTurn
<1>4. /\ memory' = [memory EXCEPT ![p][t] = settings]
      /\ loadError' = [loadError EXCEPT ![p][t] = FALSE]
      /\ errors' = errors
  BY DEF Loaded
<1> HIDE DEF t
<1>5. memory \in [Proc -> [Scope -> Settings]] /\ loadError \in [Proc -> [Scope -> BOOLEAN]]
  BY <1>1 DEF TypeOK
<1>6. /\ memory' \in [Proc -> [Scope -> Settings]]
      /\ \A s \in Scope \ {t} : memory'[p][s] = memory[p][s]
      /\ \A q \in Proc \ {p} : memory'[q] = memory[q]
  BY <1>2, <1>4, <1>5, NestedExcept
<1>7. /\ loadError' \in [Proc -> [Scope -> BOOLEAN]] /\ loadError'[p][t] = FALSE
      /\ \A s \in Scope \ {t} : loadError'[p][s] = loadError[p][s]
      /\ \A q \in Proc \ {p} : loadError'[q] = loadError[q]
  BY <1>2, <1>4, <1>5, NestedExcept
<1>8. /\ turn' \in [Proc -> Seq(Job)]
      /\ pc' \in [Proc -> {"down", "idle", "access", "touching", "locking", "locked"}]
      /\ pc'[p] \in {"idle", "access"}
      /\ \A q \in Proc \ {p} : turn'[q] = turn[q] /\ pc'[q] = pc[q]
      /\ NoWriteIn(turn'[p]) /\ TurnOK(p)'
  BY <1>1, DoneTurn
<1>9. TypeOK'
  BY <1>1, <1>4, <1>6, <1>7, <1>8 DEF TypeOK
<1>10. \A q \in Proc \ {p} : Same(q)
  BY <1>4, <1>6, <1>7, <1>8 DEF Same
<1>11. \A s \in Scope : marked[p][s] = {} \/ memory'[p][s] = memory[p][s]
  BY <1>3, <1>6
<1>12. OwnOK(p)'
  BY <1>1, <1>8, <1>11, NoWrites DEF OwnOK, NoWriteIn
<1>13. \A s \in Scope : loadError'[p][s] => loadError[p][s]
  BY <1>7
<1>14. MarksOK(p)'
  BY <1>1, <1>3, <1>4, <1>13, NoWrites DEF MarksOK, NoWriteIn
<1>15. \A s \in Scope : marked'[p][s] = {} \/ (memory'[p][s] = memory[p][s] /\ loadError'[p][s] = loadError[p][s])
  BY <1>3, <1>6, <1>7
<1>16. DueOK(p)'
  BY <1>1, <1>3, <1>8, <1>15, DueStays
<1> QED
  BY <1>8, <1>9, <1>10, <1>12, <1>14, <1>16, LocalStep

\* A load or a write that fails.
LEMMA FailedKeeps ==
  ASSUME SInv, NEW p \in Proc, Active(p), Failed(p, Op(p)), Done(p),
         lock' \in [Scope -> Proc \cup {None, Dead}],
         UNCHANGED <<queue, trusted, file, by, calls, faults>>
  PROVE  SInv'
<1>1. TypeOK /\ TurnOK(p) /\ OwnOK(p) /\ MarksOK(p) /\ DueOK(p)
  BY DEF SInv, ProcOK
<1> DEFINE op == Op(p)
           t == Op(p).scope
           failed == loadError[p][t] \/ op.kind = "load"
<1>2. t \in Scope /\ op.kind \in {"load", "save"}
  BY <1>1, TurnTypes DEF Active
<1>3. /\ errors' = [errors EXCEPT ![p] = TRUE]
      /\ loadError' = [loadError EXCEPT ![p][t] = failed]
      /\ UNCHANGED <<memory, marked>>
  BY DEF Failed
<1>4. op.kind = "save" => NotDue(p, op)
  BY DEF Failed
<1>5. op.kind = "load" => due' = due
  BY DEF Failed
<1>6. errors' \in [Proc -> BOOLEAN] /\ errors'[p] /\ \A q \in Proc \ {p} : errors'[q] = errors[q]
  BY <1>1, <1>3 DEF TypeOK
<1>7. loadError \in [Proc -> [Scope -> BOOLEAN]] /\ failed \in BOOLEAN
  BY <1>1, <1>2 DEF TypeOK
<1>8. loadError[p][t] => failed
  OBVIOUS
<1>9. op.kind = "save" => (failed <=> loadError[p][t])
  OBVIOUS
<1> HIDE DEF t, failed
<1>10. /\ loadError' \in [Proc -> [Scope -> BOOLEAN]] /\ loadError'[p][t] = failed
       /\ \A s \in Scope \ {t} : loadError'[p][s] = loadError[p][s]
       /\ \A q \in Proc \ {p} : loadError'[q] = loadError[q]
  BY <1>2, <1>3, <1>7, NestedExcept
<1>11. \A s \in Scope : loadError[p][s] => loadError'[p][s]
  BY <1>8, <1>10
<1>12. op.kind = "save" => \A s \in Scope : loadError'[p][s] <=> loadError[p][s]
  BY <1>9, <1>10
<1>13. /\ turn' \in [Proc -> Seq(Job)] /\ turn'[p] = Tail(turn[p])
       /\ pc' \in [Proc -> {"down", "idle", "access", "touching", "locking", "locked"}]
       /\ pc'[p] \in {"idle", "access"}
       /\ \A q \in Proc \ {p} : turn'[q] = turn[q] /\ pc'[q] = pc[q]
       /\ NoWriteIn(turn'[p]) /\ TurnOK(p)'
  BY <1>1, <1>3, DoneTurn
<1>14. OwnOK(p)'
  BY <1>1, <1>3, <1>13, NoWrites DEF OwnOK, NoWriteIn
<1>15. MarksOK(p)'
  BY <1>6 DEF MarksOK
<1>16. \A q \in Proc \ {p} : Same(q)
  BY <1>3, <1>6, <1>10, <1>13 DEF Same
<1>17. /\ due' \in [Proc -> [Scope -> Settings]]
       /\ \A q \in Proc \ {p} : due'[q] = due[q]
       /\ DueOK(p)'
  <2>1. CASE op.kind = "load"
    <3>1. NoWriteIn(turn[p])
      BY <1>1, <2>1, LoadTurn
    <3>2. DueOK(p)'
      BY <1>1, <1>3, <1>5, <1>11, <1>13, <2>1, <3>1, DueStays
    <3> QED
      BY <1>1, <1>5, <2>1, <3>2 DEF TypeOK
  <2>2. CASE op.kind = "save"
    <3>1. /\ due' \in [Proc -> [Scope -> Settings]]
          /\ \A q \in Proc \ {p} : due'[q] = due[q]
          /\ \A s \in Scope, f \in Field : due'[p][s][f] # 0 =>
               due'[p][s][f] = due[p][s][f] /\ ~(s = op.scope /\ f \in op.fields)
      BY <1>1, <1>2, <1>4, <2>2, NotDueFacts DEF t
    <3>2. \A s, f : NoneSaves(turn[p], s, f) <=> ~Saves(op, s, f)
      BY <1>1, <2>2, SaveTurn
    <3>3. \A s, f : NoneSaves(turn'[p], s, f) /\ \A v : LastSaves(turn'[p], s, f, v)
      BY <1>13, NoWrites DEF NoWriteIn
    <3>4. DueOK(p)'
      <4> SUFFICES ASSUME NEW s \in Scope, NEW f \in Field, due'[p][s][f] # 0
                   PROVE  /\ f \in marked[p][s] /\ ~loadError'[p][s] => memory[p][s][f] = due'[p][s][f]
                          /\ LastSaves(queue[p], s, f, due'[p][s][f])
                          /\ NoneSaves(queue[p], s, f) =>
                               file[s] \notin {Absent, Torn} /\ file[s][f] = due'[p][s][f]
        BY <1>3, <3>3 DEF DueOK
      <4>1. due'[p][s][f] = due[p][s][f] /\ NoneSaves(turn[p], s, f)
        BY <3>1, <3>2 DEF Saves
      <4> QED
        BY <1>1, <1>12, <2>2, <4>1 DEF DueOK
    <3> QED
      BY <3>1, <3>4
  <2> QED
    BY <1>2, <2>1, <2>2
<1>18. TypeOK'
  BY <1>1, <1>3, <1>6, <1>10, <1>13, <1>17 DEF TypeOK
<1> QED
  BY <1>13, <1>14, <1>15, <1>16, <1>17, <1>18, LocalStep

LEMMA LoadNothingKeeps == ASSUME SInv, NEW p \in Proc, LoadNothing(p) PROVE SInv'
<1>1. /\ Active(p) /\ Op(p).kind = "load" /\ Loaded(p, Op(p).scope, Empty) /\ Done(p)
      /\ UNCHANGED <<queue, marked, trusted, file, lock, by, due, calls, faults>>
  BY DEF LoadNothing, Active, ghosts
<1>2. lock' \in [Scope -> Proc \cup {None, Dead}]
  BY <1>1 DEF SInv, TypeOK
<1> QED
  BY <1>1, <1>2, JobTypes, LoadedKeeps

\* The end of an access under the lock.
LEMMA Unlocked ==
  ASSUME SInv, NEW p \in Proc, NEW kind, Locked(p, kind)
  PROVE  /\ Active(p) /\ Op(p).kind = kind /\ Done(p) /\ Op(p).scope \in Scope
         /\ file[Op(p).scope] # Absent
         /\ file[Op(p).scope] # Torn => file[Op(p).scope] \in Settings
         /\ lock' \in [Scope -> Proc \cup {None, Dead}]
         /\ UNCHANGED <<queue, trusted, by, calls, faults>>
<1>1. TypeOK /\ TurnOK(p)
  BY DEF SInv, ProcOK
<1>2. /\ pc[p] = "locked" /\ Op(p).kind = kind /\ Done(p)
      /\ lock' = [lock EXCEPT ![Op(p).scope] = None]
      /\ UNCHANGED <<queue, trusted, by, calls, faults>>
  BY DEF Locked
<1>3. Active(p) /\ Op(p).scope \in Scope
  BY <1>1, <1>2, TurnTypes DEF Active
<1>4. file[Op(p).scope] # Absent
  BY <1>1, <1>2 DEF TurnOK
<1>5. file[Op(p).scope] # Torn => file[Op(p).scope] \in Settings
  BY <1>1, <1>3, <1>4 DEF TypeOK
<1>6. lock' \in [Scope -> Proc \cup {None, Dead}]
  BY <1>1, <1>2, <1>3 DEF TypeOK
<1> QED
  BY <1>2, <1>3, <1>4, <1>5, <1>6

LEMMA ReadFileKeeps == ASSUME SInv, NEW p \in Proc, ReadFile(p) PROVE SInv'
<1>1. /\ Locked(p, "load") /\ file[Op(p).scope] # Torn
      /\ Loaded(p, Op(p).scope, file[Op(p).scope])
      /\ UNCHANGED <<marked, file, due>>
  BY DEF ReadFile
<1>2. /\ Active(p) /\ Op(p).kind = "load" /\ Done(p) /\ file[Op(p).scope] \in Settings
      /\ lock' \in [Scope -> Proc \cup {None, Dead}]
      /\ UNCHANGED <<queue, trusted, by, calls, faults>>
  BY <1>1, Unlocked
<1> QED
  BY <1>1, <1>2, LoadedKeeps

LEMMA LockFailsKeeps == ASSUME SInv, NEW p \in Proc, LockFails(p) PROVE SInv'
<1>1. /\ Active(p) /\ Failed(p, Op(p)) /\ Done(p)
      /\ UNCHANGED <<queue, trusted, file, lock, by, calls, faults>>
  BY DEF LockFails, Locking, Active
<1>2. lock' \in [Scope -> Proc \cup {None, Dead}]
  BY <1>1 DEF SInv, TypeOK
<1> QED
  BY <1>1, <1>2, FailedKeeps

LEMMA CannotParseKeeps == ASSUME SInv, NEW p \in Proc, CannotParse(p) PROVE SInv'
<1>1. PICK kind \in {"load", "save"} : Locked(p, kind)
  BY DEF CannotParse
<1>2. Failed(p, Op(p)) /\ UNCHANGED file
  BY DEF CannotParse
<1>3. /\ Active(p) /\ Done(p) /\ lock' \in [Scope -> Proc \cup {None, Dead}]
      /\ UNCHANGED <<queue, trusted, by, calls, faults>>
  BY <1>1, Unlocked
<1> QED
  BY <1>2, <1>3, FailedKeeps

\* A step on the way to the lock.
LEMMA GoKeeps ==
  ASSUME SInv, NEW p \in Proc, Active(p), NEW label \in {"touching", "locking", "locked"}, Go(p, label),
         UNCHANGED <<queue, memory, marked, trusted, loadError, errors, by, due, calls, faults>>,
         lock' \in [Scope -> Proc \cup {None, Dead}],
         file' \in [Scope -> Settings \cup {Absent, Torn}],
         \A s \in Scope : file[s] = Absent \/ file'[s] = file[s],
         label = "touching" => Op(p).kind = "save",
         label # "touching" => file'[Op(p).scope] # Absent
  PROVE  SInv'
<1>1. TypeOK /\ TurnOK(p) /\ OwnOK(p) /\ MarksOK(p) /\ DueOK(p)
  BY DEF SInv, ProcOK
<1>2. pc' = [pc EXCEPT ![p] = label] /\ turn' = turn
  BY DEF Go
<1>3. /\ pc' \in [Proc -> {"down", "idle", "access", "touching", "locking", "locked"}]
      /\ pc'[p] = label /\ \A q \in Proc \ {p} : pc'[q] = pc[q]
  BY <1>1, <1>2 DEF TypeOK
<1>4. TypeOK'
  BY <1>1, <1>2, <1>3 DEF TypeOK
<1>5. TurnOK(p)'
  <2>1. turn[p] # <<>>
    BY <1>1 DEF TurnOK, Active
  <2>2. Op(p)' = Op(p)
    BY <1>2 DEF Op
  <2> QED
    BY <1>1, <1>2, <1>3, <2>1, <2>2 DEF TurnOK
<1>6. OwnOK(p)' /\ MarksOK(p)'
  BY <1>1, <1>2, <1>3 DEF OwnOK, OwnJobs, MarksOK, Active
<1>7. DueOK(p)'
  BY <1>1, <1>2 DEF DueOK
<1>8. ASSUME NEW q \in Proc \ {p} PROVE ProcOK(q)'
  <2>1. Same(q) /\ \A n : Own(by, q, n) => Own(by', q, n)
    BY <1>2, <1>3 DEF Same, Own
  <2> QED
    BY <1>1, <2>1, Bystander DEF SInv
<1> QED
  BY <1>4, <1>5, <1>6, <1>7, <1>8 DEF SInv, ProcOK

LEMMA MissFileKeeps == ASSUME SInv, NEW p \in Proc, MissFile(p) PROVE SInv'
<1>1. /\ Active(p) /\ Op(p).kind = "save" /\ Go(p, "touching")
      /\ UNCHANGED <<queue, memory, marked, trusted, loadError, errors, file, lock, by, due, calls, faults>>
  BY DEF MissFile, Active, copy, ghosts
<1> QED
  BY <1>1, GoKeeps DEF SInv, TypeOK

\* Opening a file to append to it leaves what is there.
LEMMA TouchedFile ==
  ASSUME TypeOK, NEW p \in Proc, TurnOK(p), Touch(p)
  PROVE  /\ file' \in [Scope -> Settings \cup {Absent, Torn}]
         /\ \A s \in Scope : file[s] = Absent \/ file'[s] = file[s]
         /\ \A s \in Scope : file'[s] # file[s] => s = Op(p).scope
         /\ file'[Op(p).scope] # Absent
<1>1. /\ pc[p] = "touching"
      /\ file' = [file EXCEPT ![Op(p).scope] = OpenAppending(file[Op(p).scope])]
  BY DEF Touch
<1>2. Op(p).scope \in Scope
  BY <1>1, TurnTypes
<1>3. Empty \in Settings /\ Empty # Absent
  BY JobTypes, ContentsAssumption DEF Settings, Value
<1>4. file \in [Scope -> Settings \cup {Absent, Torn}]
  BY DEF TypeOK
<1>5. /\ OpenAppending(file[Op(p).scope]) \in Settings \cup {Absent, Torn}
      /\ OpenAppending(file[Op(p).scope]) # Absent
      /\ file[Op(p).scope] # Absent => OpenAppending(file[Op(p).scope]) = file[Op(p).scope]
  BY <1>2, <1>3, <1>4 DEF OpenAppending
<1> QED
  BY <1>1, <1>2, <1>4, <1>5

LEMMA TouchKeeps == ASSUME SInv, NEW p \in Proc, Touch(p) PROVE SInv'
<1>1. /\ Active(p) /\ Go(p, "locking")
      /\ UNCHANGED <<queue, memory, marked, trusted, loadError, errors, lock, by, due, calls, faults>>
  BY DEF Touch, Active, copy, ghosts
<1>2. TypeOK /\ TurnOK(p)
  BY DEF SInv, ProcOK
<1>3. lock' \in [Scope -> Proc \cup {None, Dead}]
  BY <1>1, <1>2 DEF TypeOK
<1> QED
  BY <1>1, <1>2, <1>3, TouchedFile, GoKeeps

LEMMA LockKeeps == ASSUME SInv, NEW p \in Proc, Lock(p) PROVE SInv'
<1>1. /\ Active(p) /\ Go(p, "locked") /\ Locking(p)
      /\ lock' = [lock EXCEPT ![Op(p).scope] = p]
      /\ UNCHANGED <<queue, memory, marked, trusted, loadError, errors, file, by, due, calls, faults>>
  BY DEF Lock, Locking, Active, copy, ghosts
<1>2. TypeOK /\ TurnOK(p)
  BY DEF SInv, ProcOK
<1>3. lock' \in [Scope -> Proc \cup {None, Dead}]
  BY <1>1, <1>2 DEF TypeOK
<1>4. file[Op(p).scope] # Absent
  BY <1>1, <1>2 DEF Locking, TurnOK
<1>5. file' \in [Scope -> Settings \cup {Absent, Torn}]
  BY <1>1, <1>2 DEF TypeOK
<1> QED
  BY <1>1, <1>3, <1>4, <1>5, GoKeeps

\* What a write leaves in its file, and what of it others still wait for.
LEMMA WrittenFile ==
  ASSUME SInv, NEW p \in Proc, WriteFile(p)
  PROVE  /\ Active(p) /\ Op(p).kind = "save" /\ Op(p).scope \in Scope
         /\ file[Op(p).scope] \in Settings
         /\ file' \in [Scope -> Settings \cup {Absent, Torn}]
         /\ file'[Op(p).scope] \in Settings
         /\ \A s \in Scope \ {Op(p).scope} : file'[s] = file[s]
         /\ \A f \in Field : file'[Op(p).scope][f] =
              IF f \in Op(p).fields THEN Op(p).snapshot[f] ELSE file[Op(p).scope][f]
<1> DEFINE op == Op(p)
           content == Merged(p, op)
<1>1. /\ Locked(p, "save") /\ file[op.scope] # Torn
      /\ file' = [file EXCEPT ![op.scope] = content]
  BY DEF WriteFile
<1>2. /\ Active(p) /\ op.kind = "save" /\ op.scope \in Scope /\ file[op.scope] \in Settings
  BY <1>1, Unlocked
<1>3. op.snapshot \in Settings
  BY <1>2, TurnTypes DEF SInv, ProcOK, Active
<1>4. /\ content \in Settings
      /\ \A f \in Field : content[f] = IF f \in op.fields THEN op.snapshot[f] ELSE file[op.scope][f]
  BY <1>2, <1>3 DEF Merged, Settings
<1>5. file \in [Scope -> Settings \cup {Absent, Torn}]
  BY DEF SInv, TypeOK
<1> HIDE DEF op, content
<1>6. /\ file' \in [Scope -> Settings \cup {Absent, Torn}] /\ file'[op.scope] = content
      /\ \A s \in Scope \ {op.scope} : file'[s] = file[s]
  BY <1>1, <1>2, <1>4, <1>5
<1> QED
  BY <1>2, <1>4, <1>6 DEF op

LEMMA ReplacedFacts ==
  ASSUME TypeOK, NEW p \in Proc, NEW op, op.scope \in Scope, due' = Replaced(p, op)
  PROVE  /\ due' \in [Proc -> [Scope -> Settings]] /\ due'[p] = due[p]
         /\ \A q \in Proc \ {p}, s \in Scope, f \in Field : due'[q][s][f] # 0 =>
              due'[q][s][f] = due[q][s][f] /\ ~(s = op.scope /\ f \in op.fields)
<1> DEFINE left(q) == [f \in Field |-> IF f \in op.fields THEN 0 ELSE due[q][op.scope][f]]
           row(q) == [due[q] EXCEPT ![op.scope] = left(q)]
<1>1. due \in [Proc -> [Scope -> Settings]]
  BY DEF TypeOK
<1>2. due' = [q \in Proc |-> IF q = p THEN due[q] ELSE row(q)]
  BY Zenon DEF Replaced
<1>3. ASSUME NEW q \in Proc
      PROVE  /\ left(q) \in Settings
             /\ \A f \in Field : left(q)[f] # 0 => left(q)[f] = due[q][op.scope][f] /\ f \notin op.fields
  BY <1>1 DEF Settings, Value
<1> HIDE DEF left
<1>4. ASSUME NEW q \in Proc
      PROVE  /\ row(q) \in [Scope -> Settings] /\ row(q)[op.scope] = left(q)
             /\ \A s \in Scope \ {op.scope} : row(q)[s] = due[q][s]
  BY <1>1, <1>3
<1> HIDE DEF row
<1> QED
  BY <1>1, <1>2, <1>3, <1>4

LEMMA WriteFileKeeps == ASSUME SInv, NEW p \in Proc, WriteFile(p) PROVE SInv'
<1> DEFINE op == Op(p)
           t == Op(p).scope
<1>1. TypeOK /\ TurnOK(p) /\ OwnOK(p) /\ MarksOK(p) /\ DueOK(p)
  BY DEF SInv, ProcOK
<1>2. /\ Locked(p, "save") /\ marked' = MarksCleared(p, t) /\ due' = Replaced(p, op)
      /\ UNCHANGED <<memory, loadError, errors>>
  BY DEF WriteFile
<1>3. /\ Active(p) /\ op.kind = "save" /\ t \in Scope /\ file[t] \in Settings
      /\ file' \in [Scope -> Settings \cup {Absent, Torn}]
      /\ file'[t] \in Settings
      /\ \A s \in Scope \ {t} : file'[s] = file[s]
      /\ \A f \in Field : file'[t][f] = IF f \in op.fields THEN op.snapshot[f] ELSE file[t][f]
  BY WrittenFile
<1>4. /\ Done(p) /\ lock' \in [Scope -> Proc \cup {None, Dead}]
      /\ UNCHANGED <<queue, trusted, by, calls, faults>>
  BY <1>2, Unlocked
<1>5. /\ \A s, f : NoneSaves(turn[p], s, f) <=> ~Saves(op, s, f)
      /\ \A s, f, v : Saves(op, s, f) /\ LastSaves(turn[p], s, f, v) => op.snapshot[f] = v
  BY <1>1, <1>3, SaveTurn
<1>6. /\ due' \in [Proc -> [Scope -> Settings]] /\ due'[p] = due[p]
      /\ \A q \in Proc \ {p}, s \in Scope, f \in Field : due'[q][s][f] # 0 =>
           due'[q][s][f] = due[q][s][f] /\ ~(s = t /\ f \in op.fields)
  BY <1>1, <1>2, <1>3, ReplacedFacts
<1>7. \A s, f : Saves(op, s, f) <=> s = t /\ f \in op.fields
  BY <1>3 DEF Saves
<1>8. \A s \in Scope, f \in Field : ~Saves(op, s, f) /\ file[s] \notin {Absent, Torn} =>
        file'[s] \notin {Absent, Torn} /\ file'[s][f] = file[s][f]
  <2>1. file'[t] \notin {Absent, Torn}
    BY <1>3, ContentsAssumption DEF Settings, Value
  <2> QED
    BY <1>3, <1>7, <2>1
<1>9. \A s \in Scope, f \in Field : Saves(op, s, f) =>
        file'[s] \notin {Absent, Torn} /\ file'[s][f] = op.snapshot[f]
  BY <1>3, <1>7, ContentsAssumption DEF Settings, Value
<1>10. \A s \in Scope : file'[s] = Absent => file[s] = Absent
  BY <1>3, ContentsAssumption DEF Settings, Value
<1>11. marked \in [Proc -> [Scope -> SUBSET Field]] /\ marked' = [marked EXCEPT ![p][t] = {}]
  BY <1>1, <1>2 DEF TypeOK, MarksCleared
<1> HIDE DEF op, t
<1>12. /\ marked' \in [Proc -> [Scope -> SUBSET Field]] /\ marked'[p][t] = {}
       /\ \A s \in Scope \ {t} : marked'[p][s] = marked[p][s]
       /\ \A q \in Proc \ {p} : marked'[q] = marked[q]
  BY <1>3, <1>11, NestedExcept
<1>13. \A s \in Scope : marked[p][s] = {} => marked'[p][s] = {}
  BY <1>12
<1>14. /\ turn' \in [Proc -> Seq(Job)]
       /\ pc' \in [Proc -> {"down", "idle", "access", "touching", "locking", "locked"}]
       /\ pc'[p] \in {"idle", "access"}
       /\ \A q \in Proc \ {p} : turn'[q] = turn[q] /\ pc'[q] = pc[q]
       /\ NoWriteIn(turn'[p]) /\ TurnOK(p)'
  BY <1>1, <1>3, <1>4, <1>13, DoneTurn
<1>15. TypeOK'
  BY <1>1, <1>2, <1>3, <1>4, <1>6, <1>12, <1>14 DEF TypeOK
<1>16. OwnOK(p)'
  <2>1. \A s \in Scope, f \in Field : f \in marked'[p][s] => f \in marked[p][s]
    BY <1>12
  <2> QED
    BY <1>1, <1>2, <1>4, <1>14, <2>1, NoWrites DEF OwnOK, NoWriteIn
<1>17. MarksOK(p)'
  <2> SUFFICES ASSUME NEW s \in Scope, ~errors[p], NEW f \in marked'[p][s]
               PROVE  ~NoneSaves(queue[p], s, f)
    BY <1>1, <1>2, <1>4 DEF MarksOK
  <2>1. s # t /\ f \in marked[p][s]
    BY <1>12
  <2> QED
    BY <1>1, <1>5, <1>7, <2>1 DEF MarksOK
<1>18. \A s, f : NoneSaves(turn'[p], s, f) /\ \A v : LastSaves(turn'[p], s, f, v)
  BY <1>14, NoWrites DEF NoWriteIn
<1>19. DueOK(p)'
  <2> SUFFICES ASSUME NEW s \in Scope, NEW f \in Field, due[p][s][f] # 0
               PROVE  /\ f \in marked'[p][s] /\ ~loadError[p][s] => memory[p][s][f] = due[p][s][f]
                      /\ LastSaves(queue[p], s, f, due[p][s][f])
                      /\ NoneSaves(queue[p], s, f) =>
                           file'[s] \notin {Absent, Torn} /\ file'[s][f] = due[p][s][f]
    BY <1>2, <1>4, <1>6, <1>18 DEF DueOK
  <2>1. f \in marked'[p][s] => f \in marked[p][s]
    BY <1>12
  <2>2. CASE Saves(op, s, f)
    BY <1>1, <1>5, <1>9, <2>1, <2>2 DEF DueOK
  <2>3. CASE ~Saves(op, s, f)
    BY <1>1, <1>5, <1>8, <2>1, <2>3 DEF DueOK
  <2> QED
    BY <2>2, <2>3
<1>20. ASSUME NEW q \in Proc \ {p} PROVE ProcOK(q)'
  <2>1. Same(q) /\ \A n : Own(by, q, n) => Own(by', q, n)
    BY <1>2, <1>4, <1>12, <1>14 DEF Same, Own
  <2>2. \A s \in Scope, f \in Field : due'[q][s][f] # 0 =>
          /\ due'[q][s][f] = due[q][s][f]
          /\ file[s] \notin {Absent, Torn} /\ file[s][f] = due[q][s][f] =>
               file'[s] \notin {Absent, Torn} /\ file'[s][f] = file[s][f]
    BY <1>6, <1>7, <1>8
  <2> QED
    BY <1>1, <1>10, <2>1, <2>2, Bystander DEF SInv
<1> QED
  BY <1>14, <1>15, <1>16, <1>17, <1>19, <1>20 DEF SInv, ProcOK

-----------------------------------------------------------------------------
(* The user's editor, and crashes.                                         *)

LEMMA EditKeeps == ASSUME SInv, NEW s \in Scope, NEW f \in Field, Edit(s, f) PROVE SInv'
<1> DEFINE n == Len(by) + 1
           old == IF file[s] \in {Absent, Torn} THEN Empty ELSE file[s]
           content == [old EXCEPT ![f] = n]
           row(p) == [due[p] EXCEPT ![s][f] = 0]
<1>1. TypeOK
  BY DEF SInv
<1>2. /\ Len(by) < MaxSets /\ by' = Append(by, User)
      /\ UNCHANGED <<pc, turn, queue, memory, marked, trusted, loadError, errors, lock, calls, faults>>
  BY DEF Edit, copy
<1>3. due' = [p \in Proc |-> row(p)]
  BY DEF Edit
<1>4. by \in Seq(Proc \cup {User}) /\ Len(by) \in Nat /\ MaxSets \in Nat
  BY <1>1 DEF TypeOK
<1>5. Len(by') = n
  BY <1>2, <1>4, AppendProperties
<1>6. file' = [file EXCEPT ![s] = content]
  BY <1>5 DEF Edit
<1>7. /\ n \in Value /\ by' \in Seq(Proc \cup {User})
      /\ \A q \in Proc : \A k : Own(by, q, k) => Own(by', q, k)
  BY <1>1, <1>2, <1>4, SetterTypes
<1>8. file \in [Scope -> Settings \cup {Absent, Torn}] /\ due \in [Proc -> [Scope -> Settings]]
  BY <1>1 DEF TypeOK
<1>9. old \in Settings /\ (file[s] \notin {Absent, Torn} => old = file[s])
  BY <1>8, JobTypes
<1> HIDE DEF old, n
<1>10. content \in Settings /\ \A g \in Field \ {f} : content[g] = old[g]
  BY <1>7, <1>9 DEF Settings
<1>11. content \notin {Absent, Torn}
  BY <1>10, ContentsAssumption DEF Settings, Value
<1>12. ASSUME NEW p \in Proc
       PROVE  /\ row(p) \in [Scope -> Settings] /\ row(p)[s][f] = 0
              /\ \A t \in Scope, g \in Field : t # s \/ g # f => row(p)[t][g] = due[p][t][g]
  <2>1. due[p] \in [Scope -> [Field -> Value]] /\ 0 \in Value
    BY <1>8 DEF Settings, Value
  <2> DEFINE old2 == due[p]
  <2>2. row(p) = [old2 EXCEPT ![s] = [old2[s] EXCEPT ![f] = 0]]
    OBVIOUS
  <2> HIDE DEF row
  <2>3. [old2[s] EXCEPT ![f] = 0] \in [Field -> Value]
    BY <2>1
  <2> QED
    BY <2>1, <2>2, <2>3 DEF Settings
<1> HIDE DEF content, row
<1>13. /\ file' \in [Scope -> Settings \cup {Absent, Torn}] /\ file'[s] = content
       /\ \A t \in Scope \ {s} : file'[t] = file[t]
  BY <1>6, <1>8, <1>10
<1>14. /\ due' \in [Proc -> [Scope -> Settings]]
       /\ \A p \in Proc : due'[p] = row(p)
  BY <1>3, <1>12
<1>15. TypeOK'
  BY <1>1, <1>2, <1>7, <1>13, <1>14 DEF TypeOK
<1>16. ASSUME NEW p \in Proc PROVE ProcOK(p)'
  <2>1. Same(p)
    BY <1>2 DEF Same
  <2>2. ASSUME NEW t \in Scope, NEW g \in Field, due'[p][t][g] # 0
        PROVE  /\ due'[p][t][g] = due[p][t][g]
               /\ file[t] \notin {Absent, Torn} /\ file[t][g] = due[p][t][g] =>
                    file'[t] \notin {Absent, Torn} /\ file'[t][g] = file[t][g]
    <3>1. t # s \/ g # f
      BY <1>12, <1>14, <2>2
    <3>2. due'[p][t][g] = due[p][t][g]
      BY <1>12, <1>14, <3>1
    <3>3. CASE t # s
      BY <1>13, <3>2, <3>3
    <3>4. CASE t = s
      BY <1>9, <1>10, <1>11, <1>13, <3>1, <3>2, <3>4
    <3> QED
      BY <3>3, <3>4
  <2>3. \A t \in Scope : file'[t] = Absent => file[t] = Absent
    BY <1>11, <1>13
  <2> QED
    BY <1>1, <1>7, <2>1, <2>2, <2>3, Bystander DEF SInv
<1> QED
  BY <1>15, <1>16 DEF SInv

\* A file that is lost: nobody waits for anything in it any more.
LEMMA LostFile ==
  ASSUME SInv, NEW s \in Scope, NEW q \in Proc, Same(q), NEW content, \A n : Own(by, q, n) => Own(by', q, n),
         file' = [file EXCEPT ![s] = content], content # Absent,
         due'[q] = [due[q] EXCEPT ![s] = Empty]
  PROVE  ProcOK(q)'
<1>1. due[q] \in [Scope -> Settings] /\ file \in [Scope -> Settings \cup {Absent, Torn}]
  BY DEF SInv, TypeOK
<1>2. \A t \in Scope, f \in Field : due'[q][t][f] # 0 => t # s /\ due'[q][t][f] = due[q][t][f]
  BY <1>1, JobTypes DEF Empty
<1>3. /\ \A t \in Scope \ {s} : file'[t] = file[t]
      /\ \A t \in Scope : file'[t] = Absent => file[t] = Absent
      /\ \A n : Own(by, q, n) => Own(by', q, n)
  BY <1>1 DEF Own
<1> QED
  BY <1>2, <1>3, Bystander DEF SInv

LEMMA BreakKeeps == ASSUME SInv, NEW s \in Scope, Break(s) PROVE SInv'
<1>1. /\ faults' = faults + 1 /\ file' = [file EXCEPT ![s] = Torn]
      /\ due' = [p \in Proc |-> [due[p] EXCEPT ![s] = Empty]]
      /\ UNCHANGED <<pc, turn, queue, memory, marked, trusted, loadError, errors, lock, by, calls>>
  BY DEF Break, copy
<1>2. TypeOK /\ due \in [Proc -> [Scope -> Settings]]
  BY DEF SInv, TypeOK
<1>3. due' \in [Proc -> [Scope -> Settings]]
  BY <1>1, <1>2, JobTypes
<1>4. TypeOK'
  BY <1>1, <1>2, <1>3 DEF TypeOK
<1>5. ASSUME NEW q \in Proc PROVE ProcOK(q)'
  <2>1. Same(q) /\ due'[q] = [due[q] EXCEPT ![s] = Empty] /\ Torn # Absent
    BY <1>1, ContentsAssumption DEF Same
  <2> QED
    BY <1>1, <2>1, LostFile
<1> QED
  BY <1>4, <1>5 DEF SInv

\* The process that is gone has nothing left to keep, and the others have what
\* they had.
LEMMA GoneKeeps ==
  ASSUME SInv, NEW p \in Proc, Gone(p), due' \in [Proc -> [Scope -> Settings]],
         due'[p] = Blank, file' \in [Scope -> Settings \cup {Absent, Torn}]
  PROVE  /\ TypeOK' /\ ProcOK(p)'
         /\ \A q \in Proc \ {p} : Same(q) /\ \A n : Own(by, q, n) => Own(by', q, n)
<1>1. /\ faults' = faults + 1 /\ calls' = calls
      /\ pc' = [pc EXCEPT ![p] = "down"]
      /\ turn' = [turn EXCEPT ![p] = <<>>]
      /\ queue' = [queue EXCEPT ![p] = <<>>]
      /\ memory' = [memory EXCEPT ![p] = Blank]
      /\ marked' = [marked EXCEPT ![p] = [s \in Scope |-> {}]]
      /\ trusted' = [trusted EXCEPT ![p] = FALSE]
      /\ loadError' = [loadError EXCEPT ![p] = [s \in Scope |-> FALSE]]
      /\ errors' = [errors EXCEPT ![p] = FALSE]
      /\ lock' = [s \in Scope |-> IF lock[s] = p THEN Dead ELSE lock[s]]
      /\ by' = [n \in DOMAIN by |-> IF by[n] = p THEN User ELSE by[n]]
  BY DEF Gone
<1>2. TypeOK
  BY DEF SInv
<1>3. Blank \in [Scope -> Settings] /\ \A s \in Scope, f \in Field : Blank[s][f] = 0
  BY JobTypes DEF Blank, Empty
<1>4. <<>> \in Seq(Job)
  OBVIOUS
<1>5. by' \in Seq(Proc \cup {User})
  <2>1. by \in Seq(Proc \cup {User}) /\ DOMAIN by = 1 .. Len(by) /\ Len(by) \in Nat
    BY <1>2 DEF TypeOK
  <2>2. by' \in [1 .. Len(by) -> Proc \cup {User}]
    BY <1>1, <2>1
  <2> QED
    BY <2>1, <2>2
<1>6. /\ pc' \in [Proc -> {"down", "idle", "access", "touching", "locking", "locked"}]
      /\ turn' \in [Proc -> Seq(Job)] /\ queue' \in [Proc -> Seq(Job)]
  BY <1>1, <1>2, <1>4 DEF TypeOK
<1>7. /\ memory' \in [Proc -> [Scope -> Settings]]
      /\ marked' \in [Proc -> [Scope -> SUBSET Field]]
      /\ trusted' \in [Proc -> BOOLEAN]
  BY <1>1, <1>2, <1>3 DEF TypeOK
<1>8. /\ loadError' \in [Proc -> [Scope -> BOOLEAN]] /\ errors' \in [Proc -> BOOLEAN]
      /\ lock' \in [Scope -> Proc \cup {None, Dead}]
      /\ calls' \in Nat /\ faults' \in Nat
  BY <1>1, <1>2 DEF TypeOK
<1>9. TypeOK'
  BY <1>5, <1>6, <1>7, <1>8 DEF TypeOK
<1>10. /\ pc'[p] = "down" /\ turn'[p] = <<>> /\ queue'[p] = <<>>
       /\ \A s \in Scope : marked'[p][s] = {} /\ loadError'[p][s] = FALSE
  BY <1>1, <1>2 DEF TypeOK
<1>11. TurnOK(p)'
  BY <1>10 DEF TurnOK
<1>12. OwnOK(p)'
  BY <1>10, EmptyNoWrites DEF OwnOK
<1>13. MarksOK(p)'
  BY <1>10 DEF MarksOK
<1>14. DueOK(p)'
  BY <1>3 DEF DueOK
<1>15. ASSUME NEW q \in Proc \ {p} PROVE Same(q) /\ \A n : Own(by, q, n) => Own(by', q, n)
  <2>1. Same(q)
    BY <1>1, <1>2 DEF TypeOK, Same
  <2>2. \A n : Own(by, q, n) => Own(by', q, n)
    BY <1>1 DEF Own
  <2> QED
    BY <2>1, <2>2
<1> QED
  BY <1>9, <1>11, <1>12, <1>13, <1>14, <1>15 DEF ProcOK

LEMMA CrashKeeps == ASSUME SInv, NEW p \in Proc, Crash(p) PROVE SInv'
<1>1. Gone(p) /\ due' = [due EXCEPT ![p] = Blank] /\ file' = file
  BY DEF Crash
<1>2. TypeOK /\ Blank \in [Scope -> Settings]
  BY JobTypes DEF SInv, Blank
<1>3. /\ due' \in [Proc -> [Scope -> Settings]] /\ due'[p] = Blank
      /\ \A q \in Proc \ {p} : due'[q] = due[q]
      /\ file' \in [Scope -> Settings \cup {Absent, Torn}]
  BY <1>1, <1>2 DEF TypeOK
<1>4. /\ TypeOK' /\ ProcOK(p)'
      /\ \A q \in Proc \ {p} : Same(q) /\ \A n : Own(by, q, n) => Own(by', q, n)
  BY <1>1, <1>3, GoneKeeps
<1>5. ASSUME NEW q \in Proc \ {p} PROVE ProcOK(q)'
  BY <1>1, <1>2, <1>3, <1>4, Bystander DEF SInv
<1> QED
  BY <1>4, <1>5 DEF SInv

LEMMA CrashInWriteKeeps == ASSUME SInv, NEW p \in Proc, CrashInWrite(p) PROVE SInv'
<1> DEFINE t == Op(p).scope
<1>1. /\ Gone(p) /\ pc[p] = "locked"
      /\ due' = [q \in Proc |-> IF q = p THEN Blank ELSE [due[q] EXCEPT ![t] = Empty]]
  BY DEF CrashInWrite
<1>2. PICK content \in {Torn, Empty} : file' = [file EXCEPT ![t] = content]
  BY DEF CrashInWrite
<1>3. TypeOK /\ Blank \in [Scope -> Settings]
  BY JobTypes DEF SInv, Blank
<1>4. t \in Scope
  BY <1>1, <1>3, TurnTypes DEF SInv, ProcOK
<1>5. content # Absent /\ content \in Settings \cup {Torn}
  BY JobTypes, ContentsAssumption DEF Settings, Value
<1> HIDE DEF t
<1>6. due \in [Proc -> [Scope -> Settings]] /\ Empty \in Settings
  BY <1>3, JobTypes DEF TypeOK
<1>7. /\ due' \in [Proc -> [Scope -> Settings]] /\ due'[p] = Blank
      /\ \A q \in Proc \ {p} : due'[q] = [due[q] EXCEPT ![t] = Empty]
  BY <1>1, <1>3, <1>6
<1>8. file' \in [Scope -> Settings \cup {Absent, Torn}]
  BY <1>2, <1>3, <1>4, <1>5 DEF TypeOK
<1>9. /\ TypeOK' /\ ProcOK(p)'
      /\ \A q \in Proc \ {p} : Same(q) /\ \A n : Own(by, q, n) => Own(by', q, n)
  BY <1>1, <1>7, <1>8, GoneKeeps
<1>10. ASSUME NEW q \in Proc \ {p} PROVE ProcOK(q)'
  BY <1>2, <1>4, <1>5, <1>7, <1>9, LostFile
<1> QED
  BY <1>9, <1>10 DEF SInv

-----------------------------------------------------------------------------
(* The invariant.                                                          *)

LEMMA InitSInv == ASSUME Init PROVE SInv
<1>1. TypeOK
  <2>1. /\ Blank \in [Scope -> Settings] /\ <<>> \in Seq(Job)
        /\ <<>> \in Seq(Proc \cup {User})
    BY JobTypes DEF Blank
  <2>2. /\ pc \in [Proc -> {"down", "idle", "access", "touching", "locking", "locked"}]
        /\ turn \in [Proc -> Seq(Job)] /\ queue \in [Proc -> Seq(Job)]
    BY <2>1 DEF Init
  <2>3. /\ memory \in [Proc -> [Scope -> Settings]] /\ due \in [Proc -> [Scope -> Settings]]
        /\ marked \in [Proc -> [Scope -> SUBSET Field]]
    BY <2>1 DEF Init
  <2>4. /\ trusted \in [Proc -> BOOLEAN] /\ loadError \in [Proc -> [Scope -> BOOLEAN]]
        /\ errors \in [Proc -> BOOLEAN]
    BY DEF Init
  <2>5. /\ file \in [Scope -> Settings \cup {Absent, Torn}]
        /\ lock \in [Scope -> Proc \cup {None, Dead}]
        /\ by \in Seq(Proc \cup {User}) /\ calls \in Nat /\ faults \in Nat
    BY <2>1 DEF Init
  <2> QED
    BY <2>2, <2>3, <2>4, <2>5 DEF TypeOK
<1>2. ASSUME NEW p \in Proc PROVE ProcOK(p)
  <2>1. /\ pc[p] = "down" /\ turn[p] = <<>> /\ queue[p] = <<>>
        /\ \A s \in Scope : marked[p][s] = {} /\ loadError[p][s] = FALSE
    BY DEF Init
  <2>2. \A s \in Scope, f \in Field : due[p][s][f] = 0
    BY DEF Init, Blank, Empty
  <2>3. TurnOK(p)
    BY <2>1 DEF TurnOK
  <2>4. OwnOK(p)
    BY <2>1, EmptyNoWrites DEF OwnOK
  <2> QED
    BY <2>1, <2>2, <2>3, <2>4 DEF MarksOK, DueOK, ProcOK
<1> QED
  BY <1>1, <1>2 DEF SInv

LEMMA StepSInv == ASSUME SInv, [Next]_svars PROVE SInv'
<1>1. ASSUME NEW s \in Scope, NEW f \in Field, Edit(s, f) PROVE SInv'
  BY <1>1, EditKeeps
<1>2. ASSUME NEW s \in Scope, Break(s) PROVE SInv'
  BY <1>2, BreakKeeps
<1>3. ASSUME NEW p \in Proc,
             \/ Create(p) \/ Reload(p) \/ Trust(p) \/ Distrust(p) \/ StartWrite(p)
             \/ RefuseWrite(p) \/ StartReload(p)
      PROVE  SInv'
  BY <1>3, CreateKeeps, ReloadKeeps, TrustKeeps, DistrustKeeps, StartWriteKeeps,
     RefuseWriteKeeps, StartReloadKeeps
<1>4. ASSUME NEW p \in Proc,
             \/ LoadNothing(p) \/ MissFile(p) \/ Touch(p) \/ Lock(p) \/ LockFails(p)
             \/ ReadFile(p) \/ CannotParse(p) \/ WriteFile(p)
      PROVE  SInv'
  BY <1>4, LoadNothingKeeps, MissFileKeeps, TouchKeeps, LockKeeps, LockFailsKeeps,
     ReadFileKeeps, CannotParseKeeps, WriteFileKeeps
<1>5. ASSUME NEW p \in Proc, Crash(p) \/ CrashInWrite(p) PROVE SInv'
  BY <1>5, CrashKeeps, CrashInWriteKeeps
<1>6. ASSUME NEW p \in Proc, NEW s \in Scope, NEW F \in SUBSET Field \ {{}}, Set(p, s, F)
      PROVE  SInv'
  BY <1>6, SetKeeps
<1>7. CASE UNCHANGED svars
  <2>1. UNCHANGED <<pc, turn, queue, memory, marked, trusted, loadError, errors, file, lock,
                    by, due, calls, faults>>
    BY <1>7 DEF svars, copy, ghosts
  <2>2. TypeOK'
    BY <2>1 DEF SInv, TypeOK
  <2>3. ASSUME NEW p \in Proc PROVE ProcOK(p)'
    <3>1. Same(p) /\ \A n : Own(by, p, n) => Own(by', p, n)
      BY <2>1 DEF Same, Own
    <3> QED
      BY <2>1, <3>1, Bystander DEF SInv
  <2> QED
    BY <2>2, <2>3 DEF SInv
<1> QED
  BY <1>1, <1>2, <1>3, <1>4, <1>5, <1>6, <1>7 DEF Next

LEMMA Invariance == Spec => []SInv
<1> QED
  BY InitSInv, StepSInv, PTL DEF Spec

-----------------------------------------------------------------------------
\* flush() resolves when no write waits or runs (writeQueue): what a setter
\* set is then in the file, unless its error was recorded or somebody has
\* replaced it since, however many setters, reloads and processes there are.
THEOREM WhatIsSetIsSaved == Spec => []SetIsSaved
<1>1. ASSUME SInv PROVE SetIsSaved
  <2> SUFFICES ASSUME NEW p \in Proc, NEW s \in Scope, NEW f \in Field,
                      pc[p] = "idle", queue[p] = <<>>, due[p][s][f] # 0
               PROVE  file[s] \notin {Absent, Torn} /\ file[s][f] = due[p][s][f]
    BY DEF SetIsSaved
  <2>1. TypeOK /\ TurnOK(p) /\ DueOK(p)
    BY <1>1 DEF SInv, ProcOK
  <2>2. turn[p] = <<>>
    BY <2>1, IdleTurn
  <2>3. NoneSaves(queue[p], s, f) /\ NoneSaves(turn[p], s, f)
    BY <2>2, EmptyNoWrites
  <2> QED
    BY <2>1, <2>3 DEF DueOK
<1> QED
  BY <1>1, Invariance, PTL

\* modifiedFields holds no field that no queued or running write saves, as
\* long as no load and no write of the process failed.
THEOREM MarksHaveTheirWrites == Spec => []MarksAreQueued
<1>1. ASSUME SInv PROVE MarksAreQueued
  <2> SUFFICES ASSUME NEW p \in Proc, NEW s \in Scope, ~errors[p], NEW f \in marked[p][s]
               PROVE  f \in UNION ({queue[p][i].fields : i \in Waiting(p, s)}
                                   \cup {turn[p][i].fields : i \in Running(p, s)})
    BY DEF MarksAreQueued
  <2>1. ~NoneSaves(queue[p], s, f) \/ ~NoneSaves(turn[p], s, f)
    BY <1>1 DEF SInv, ProcOK, MarksOK
  <2>2. CASE ~NoneSaves(queue[p], s, f)
    BY <2>2 DEF NoneSaves, Saves, Waiting
  <2>3. CASE ~NoneSaves(turn[p], s, f)
    BY <2>3 DEF NoneSaves, Saves, Running
  <2> QED
    BY <2>1, <2>2, <2>3
<1> QED
  BY <1>1, Invariance, PTL

\* The steps that change a file: an editor's, and those of a process that
\* creates, writes or loses the file of the write it runs.
LEMMA WhoChanges ==
  ASSUME SInv, Next, NEW s \in Scope, file'[s] # file[s]
  PROVE  \/ (\E f \in Field : Edit(s, f)) \/ Break(s)
         \/ \E p \in Proc :
              /\ s = Op(p).scope
              /\ \/ Touch(p) /\ file[s] = Absent
                 \/ WriteFile(p)
                 \/ CrashInWrite(p)
<1>1. TypeOK /\ \A p \in Proc : TurnOK(p)
  BY DEF SInv, ProcOK
<1>2. file \in [Scope -> Settings \cup {Absent, Torn}]
  BY <1>1 DEF TypeOK
<1>3. ASSUME NEW t \in Scope, NEW f \in Field, Edit(t, f) PROVE t = s
  BY <1>2, <1>3 DEF Edit
<1>4. ASSUME NEW t \in Scope, Break(t) PROVE t = s
  BY <1>2, <1>4 DEF Break
<1>5. ASSUME NEW p \in Proc, Touch(p) PROVE s = Op(p).scope /\ file[s] = Absent
  BY <1>1, <1>5, TouchedFile
<1>6. ASSUME NEW p \in Proc, WriteFile(p) PROVE s = Op(p).scope
  BY <1>2, <1>6 DEF WriteFile
<1>7. ASSUME NEW p \in Proc, CrashInWrite(p) PROVE s = Op(p).scope
  BY <1>2, <1>7 DEF CrashInWrite
<1>8. ASSUME NEW p \in Proc, NEW t \in Scope, NEW F \in SUBSET Field \ {{}}, Set(p, t, F)
      PROVE  FALSE
  BY <1>8 DEF Set
<1>9. ASSUME NEW p \in Proc,
             \/ Create(p) \/ Reload(p) \/ Trust(p) \/ Distrust(p) \/ StartWrite(p)
             \/ RefuseWrite(p) \/ StartReload(p)
      PROVE  FALSE
  BY <1>9 DEF Create, Reload, Trust, Distrust, StartWrite, RefuseWrite, StartReload
<1>10. ASSUME NEW p \in Proc,
              \/ LoadNothing(p) \/ MissFile(p) \/ Lock(p) \/ LockFails(p)
              \/ ReadFile(p) \/ CannotParse(p) \/ Crash(p)
       PROVE  FALSE
  BY <1>10 DEF LoadNothing, MissFile, Lock, LockFails, ReadFile, CannotParse, Crash
<1> QED
  BY <1>3, <1>4, <1>5, <1>6, <1>7, <1>8, <1>9, <1>10 DEF Next

\* A process that writes is in the turn of a write that it may do, and the
\* file is not there yet, or holds settings.
LEMMA WhoWrites ==
  ASSUME SInv, [Next]_svars, NEW p \in Proc, NEW s \in Scope, Writes(p, s)
  PROVE  /\ s = "project" => trusted[p]
         /\ \/ file[s] = Absent
            \/ WriteFile(p) /\ s = Op(p).scope
<1>1. Next /\ pc'[p] # pc[p] /\ faults' = faults /\ file'[s] # file[s]
  BY DEF Writes, svars
<1>2. TypeOK /\ \A q \in Proc : TurnOK(q)
  BY DEF SInv, ProcOK
<1>3. ASSUME NEW f \in Field, Edit(s, f) PROVE FALSE
  BY <1>1, <1>3 DEF Edit
<1>4. ~Break(s)
  BY <1>1 DEF Break
<1>5. ASSUME NEW q \in Proc, CrashInWrite(q) PROVE FALSE
  <2>1. faults' = faults + 1 /\ faults \in Nat
    BY <1>2, <1>5 DEF CrashInWrite, Gone, TypeOK
  <2> QED
    BY <1>1, <2>1
<1>6. PICK q \in Proc : s = Op(q).scope /\ ((Touch(q) /\ file[s] = Absent) \/ WriteFile(q))
  BY <1>1, <1>3, <1>4, <1>5, WhoChanges
<1>7. q = p
  <2>1. pc \in [Proc -> {"down", "idle", "access", "touching", "locking", "locked"}]
    BY <1>2 DEF TypeOK
  <2> QED
    BY <1>1, <1>6, <2>1 DEF Touch, WriteFile, Locked, Go, Done
<1>8. Active(p) /\ Op(p).kind = "save"
  BY <1>2, <1>6, <1>7 DEF Touch, WriteFile, Locked, Active, TurnOK
<1> QED
  BY <1>2, <1>6, <1>7, <1>8, SaveTurn

\* persistScopedSettings merges the marked fields of the snapshot into what
\* the file holds when it has its lock: a process replaces a setting only by
\* a value that it set itself, never by an old one from its copy.
THEOREM WritesOwnValues == Spec => OnlyOwnValues
<1>1. ASSUME SInv, [Next]_svars, NEW p \in Proc, NEW s \in Scope, NEW f \in Field,
             Writes(p, s), file[s] \notin {Absent, Torn}, file'[s][f] # file[s][f]
      PROVE  file'[s][f] # 0 /\ by[file'[s][f]] = p
  <2>1. WriteFile(p) /\ s = Op(p).scope
    BY <1>1, WhoWrites
  <2>2. /\ Active(p) /\ Op(p).kind = "save"
        /\ file'[s][f] = IF f \in Op(p).fields THEN Op(p).snapshot[f] ELSE file[s][f]
    BY <1>1, <2>1, WrittenFile
  <2>3. f \in Op(p).fields /\ file'[s][f] = Op(p).snapshot[f]
    BY <1>1, <2>2
  <2>4. TypeOK /\ TurnOK(p) /\ OwnOK(p)
    BY <1>1 DEF SInv, ProcOK
  <2>5. Op(p) = turn[p][1] /\ 1 \in DOMAIN turn[p]
    BY <2>2, <2>4, TurnTypes DEF Active
  <2>6. Own(by, p, file'[s][f])
    BY <2>2, <2>3, <2>4, <2>5 DEF OwnOK, OwnJobs
  <2>7. DOMAIN by = 1 .. Len(by)
    BY <2>4 DEF TypeOK
  <2>8. 0 \notin DOMAIN by
    BY <2>7
  <2> QED
    BY <2>6, <2>8 DEF Own
<1>2. ASSUME SInv, [Next]_svars
      PROVE  \A p \in Proc, s \in Scope, f \in Field :
               Writes(p, s) /\ file[s] \notin {Absent, Torn} /\ file'[s][f] # file[s][f]
               => file'[s][f] # 0 /\ by[file'[s][f]] = p
  BY <1>1, <1>2
<1> QED
  BY <1>2, Invariance, PTL DEF Spec, OnlyOwnValues

\* A file that does not parse is left to the user (tryLoadFromStorage and the
\* write itself throw), and no write reaches the settings of a project that
\* is not trusted (assertProjectTrustedForWrite), though it was queued before.
THEOREM LeavesOthersAlone == Spec => LeavesAlone
<1>1. ASSUME SInv, [Next]_svars, NEW s \in Scope, file[s] = Torn, file'[s] # Torn
      PROVE  Len(by') > Len(by)
  <2>1. Next
    BY <1>1 DEF svars
  <2>2. ASSUME NEW f \in Field, Edit(s, f) PROVE Len(by') > Len(by)
    <3>1. by \in Seq(Proc \cup {User}) /\ by' = Append(by, User)
      BY <1>1, <2>2 DEF SInv, TypeOK, Edit
    <3> QED
      BY <3>1, AppendProperties
  <2>3. ASSUME Break(s) PROVE FALSE
    BY <1>1, <2>3 DEF Break, SInv, TypeOK
  <2>4. ASSUME NEW p \in Proc, s = Op(p).scope, WriteFile(p) \/ CrashInWrite(p) PROVE FALSE
    BY <1>1, <2>4 DEF WriteFile, CrashInWrite
  <2>5. Torn # Absent
    BY ContentsAssumption
  <2> QED
    BY <1>1, <2>1, <2>2, <2>3, <2>4, <2>5, WhoChanges
<1>2. ASSUME SInv, [Next]_svars, NEW p \in Proc, Writes(p, "project") PROVE trusted[p]
  BY <1>2, WhoWrites DEF Scope
<1>3. ASSUME SInv, [Next]_svars
      PROVE  /\ \A s \in Scope : file[s] = Torn /\ file'[s] # Torn => Len(by') > Len(by)
             /\ \A p \in Proc : Writes(p, "project") => trusted[p]
  BY <1>1, <1>2, <1>3
<1> QED
  BY <1>3, Invariance, PTL DEF Spec, LeavesAlone
=============================================================================
