------------------------------ MODULE FileTools ------------------------------
(***************************************************************************)
(* The write and edit tools (packages/coding-agent/src/core/tools/write.ts *)
(* and edit.ts) as the functions run by the file mutation queue.  A file's *)
(* content is the set of operations whose change it holds: a write leaves  *)
(* its own only, an edit adds its own to what it read.  A write in flight  *)
(* has truncated the file.  The abort signal is the one of the run and is  *)
(* looked at after each await, while the queue is held.  Every call to the *)
(* file system may be rejected: mkdir, access, readFile, and writeFile     *)
(* before or after it has truncated the file.  Files are removed by others *)
(* at any moment, also while a tool works on them.                         *)
(***************************************************************************)
EXTENDS FileMutationQueue, FiniteSets

CONSTANTS
  Edits,            \* the operations that are edits; the others are writes
  MaxFailedWrites   \* bound: the writes that fail with their file open

ASSUME EditsAssumption == Edits \subseteq Ops

VARIABLES
  step,     \* inside the tool: what it awaits, or has just awaited
  content,  \* per canonical path, the changes the file holds
  seen,     \* what an edit read, while it runs
  landed,   \* the operations whose new content was written to the file
            \* that is there
  aborted,  \* the operations whose signal is aborted, until they end
  spoiled   \* history: the operations whose write failed in the file

tvars == <<pc, key, currentQueue, fileMutationQueues, exists, rank, calls,
           step, content, seen, landed, aborted, spoiled>>
toolvars == <<step, content, seen, landed, aborted, spoiled>>

ToolInit ==
  /\ Init
  /\ step = [op \in Ops |-> "entry"]
  /\ content = [p \in Path |-> {}]
  /\ seen = [op \in Ops |-> {}]
  /\ landed = {}
  /\ aborted = {}
  /\ spoiled = {}

\* The user aborts the run: the signal of every call in progress.
Abort ==
  /\ aborted' = {op \in Ops : pc[op] \notin {"idle", "rejected", "done"}}
  /\ UNCHANGED <<qvars, step, content, seen, landed, spoiled>>

\* Something else than the tools removes a file, and what it held.
RemoveFile(f) ==
  /\ Remove(f)
  /\ content' = [content EXCEPT ![f] = {}]
  /\ landed' = {op \in landed : FileOf(op) # f}
  /\ UNCHANGED <<step, seen, aborted, spoiled>>

\* An await of the tool returns and throwIfAborted does not throw.
Goes(op, from, to) ==
  /\ pc[op] = "running"
  /\ op \notin aborted
  /\ step[op] = from
  /\ step' = [step EXCEPT ![op] = to]

\* The function returns or throws, and the queue is released.
Ends(op) ==
  /\ Leave(op)
  /\ step' = [step EXCEPT ![op] = "ended"]
  /\ seen' = [seen EXCEPT ![op] = {}]
  /\ aborted' = aborted \ {op}

\* Mutant: the abort listener rejects while the write is in flight.
AbandonOnAbort(op) ==
  /\ op \in aborted
  /\ step[op] \in {"entry", "directory", "accessed", "read", "writing"}
  /\ Leave(op)
  /\ UNCHANGED toolvars

\* throwIfAborted throws, at any of its calls before the write is started.
ThrowIfAborted(op) ==
  /\ op \in aborted
  /\ step[op] \in {"entry", "directory", "accessed", "read"}
  /\ Ends(op)
  /\ UNCHANGED <<content, landed, spoiled>>

\* ops.mkdir of the parent directories.
Mkdir(op) ==
  /\ op \notin Edits
  /\ Goes(op, "entry", "directory")
  /\ UNCHANGED <<qvars, content, seen, landed, aborted, spoiled>>

\* ops.access: the file must be there.
Access(op) ==
  /\ op \in Edits
  /\ FileOf(op) \in exists
  /\ Goes(op, "entry", "accessed")
  /\ UNCHANGED <<qvars, content, seen, landed, aborted, spoiled>>

\* mkdir is rejected, or writeFile before it has opened the file.
MkdirFails(op) ==
  /\ op \notin Edits
  /\ op \notin aborted
  /\ step[op] \in {"entry", "directory"}
  /\ Ends(op)
  /\ UNCHANGED <<content, landed, spoiled>>

\* access or readFile is rejected: the file is not there, or not for us.
AccessFails(op) ==
  /\ op \in Edits
  /\ op \notin aborted
  /\ step[op] \in {"entry", "accessed"}
  /\ Ends(op)
  /\ UNCHANGED <<content, landed, spoiled>>

Read(op) ==
  /\ FileOf(op) \in exists
  /\ Goes(op, "accessed", "read")
  /\ seen' = [seen EXCEPT ![op] = content[FileOf(op)]]
  /\ UNCHANGED <<qvars, content, landed, aborted, spoiled>>

\* applyEditsToNormalizedContent throws, since the old text is not there, or
\* writeFile is rejected before it has opened the file.
EditRejected(op) ==
  /\ op \notin aborted
  /\ step[op] = "read"
  /\ Ends(op)
  /\ UNCHANGED <<content, landed, spoiled>>

\* ops.writeFile opens the file, which creates or truncates it.
BeginWrite(op) ==
  /\ Goes(op, IF op \in Edits THEN "read" ELSE "directory", "writing")
  /\ Mutate(op)
  /\ content' = [content EXCEPT ![FileOf(op)] = {}]
  /\ UNCHANGED <<seen, landed, aborted, spoiled>>

\* The write settles.  An abort seen now makes the tool throw, but the file
\* is written, unless it was removed since it was opened.
EndWrite(op) ==
  /\ step[op] = "writing"
  /\ IF FileOf(op) \in exists
       THEN /\ content' = [content EXCEPT ![FileOf(op)] = seen[op] \cup {op}]
            /\ landed' = landed \cup {op}
       ELSE UNCHANGED <<content, landed>>
  /\ Ends(op)
  /\ UNCHANGED spoiled

\* writeFile is rejected with the file open: the file is left with a part of
\* the new content, the call fails and the queue is released all the same.
WriteFails(op) ==
  /\ step[op] = "writing"
  /\ Cardinality(spoiled) < MaxFailedWrites
  /\ IF FileOf(op) \in exists
       THEN /\ \E part \in SUBSET (seen[op] \cup {op}) :
                 content' = [content EXCEPT ![FileOf(op)] = part]
            /\ spoiled' = spoiled \cup {op}
       ELSE UNCHANGED <<content, spoiled>>
  /\ Ends(op)
  /\ UNCHANGED landed

ToolStep(op) ==
  \/ ThrowIfAborted(op)
  \/ Mkdir(op)
  \/ MkdirFails(op)
  \/ Access(op)
  \/ AccessFails(op)
  \/ Read(op)
  \/ EditRejected(op)
  \/ BeginWrite(op)
  \/ EndWrite(op)
  \/ WriteFails(op)

ToolNext ==
  \/ Abort
  \/ \E f \in Path : RemoveFile(f)
  \/ \E op \in Ops :
       \/ QueueStep(op) /\ UNCHANGED toolvars
       \/ ToolStep(op)

ToolSpec == ToolInit /\ [][ToolNext]_tvars

\* Promise reactions run, realpath and file operations answer.  Nothing
\* obliges a caller to call, or anyone to abort or to remove a file.
FairToolSpec ==
  /\ ToolSpec
  /\ WF_tvars(\E op \in Ops :
       (pc[op] # "idle" /\ QueueStep(op) /\ UNCHANGED toolvars) \/ ToolStep(op))

-----------------------------------------------------------------------------
\* An operation that has read or is writing its file.
Editing(op) == pc[op] = "running" /\ step[op] \in {"read", "writing"}

\* Between the read of an edit and its write no other tool changes the file:
\* the new content is computed from the current one (edit.ts:335-350; the
\* test "preserves both parallel edits on the same file"), if there is one.
EditSeesCurrentContent ==
  \A op \in Edits :
    pc[op] = "running" /\ step[op] = "read" /\ FileOf(op) \in exists
      => seen[op] = content[FileOf(op)]

\* No two writes of one file are ever in flight together, even after an
\* abort: the hazard the comment of write.ts:204-207 and edit.ts:313-316
\* describes.
OneWriteInFlight ==
  \A a, b \in Ops :
    /\ step[a] = "writing"
    /\ step[b] = "writing"
    /\ FileOf(a) = FileOf(b)
    => a = b

\* An edit that landed is lost only to an operation called after it: a write
\* of the whole file (write.ts:218), or one whose writeFile failed with the
\* file truncated (also edit.ts:347).  A file nobody is writing to holds the
\* edit, or one of those came; and what is removed goes with its file.
LandedEditsKept ==
  \A op \in landed \cap Edits :
    \/ op \in content[FileOf(op)]
    \/ \E w \in Ops : Editing(w) /\ FileOf(w) = FileOf(op)
    \/ \E w \in (landed \ Edits) \cup spoiled :
         FileOf(w) = FileOf(op) /\ rank[op] < rank[w]
=============================================================================
