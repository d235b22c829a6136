--------------------------- MODULE SessionManager ---------------------------
(***************************************************************************)
(* SessionManager of core/session-manager.ts, persisting: the tree of the  *)
(* current session in memory, and the session files.  A file is created    *)
(* when the first assistant message of its session is appended, and from   *)
(* then on every entry is appended to it as one line.                      *)
(*                                                                         *)
(* A write may fail or be cut short (a full disk, a killed process).  The  *)
(* memory has moved on by then, and what reached the file stays there.  A  *)
(* line that does not parse is skipped when the file is loaded; one that   *)
(* lacks only its newline is an entry like any other.  The next line is    *)
(* glued to either, and then the whole of it does not parse.  Opening or   *)
(* creating a session at any moment stands for a restart as well: it       *)
(* replaces everything the process holds.                                  *)
(***************************************************************************)
EXTENDS SessionTree, FiniteSetsExt

CONSTANTS
  MaxSessions,   \* session files the process may name
  MaxEntries,    \* entries ever created, the bound of the ids
  Inputs,        \* the <<kind, size>> of the messages and metadata appended
  MaxFaults      \* writes that fail

ASSUME BoundsAssumption ==
  /\ MaxSessions \in Nat \ {0} /\ MaxEntries \in Nat /\ MaxFaults \in Nat
  /\ Inputs \subseteq {"user", "assistant", "toolResult", "bash", "custom", "meta"} \X Nat

VARIABLES
  files,     \* the session files
  session,   \* sessionId and sessionFile
  entries,   \* fileEntries without the header, and byId
  leaf,      \* leafId
  labels,    \* labelsById
  flushed,
  lastId,    \* the ids given so far
  faults     \* the writes that failed so far

memory == <<session, entries, leaf, labels, flushed>>
vars == <<files, session, entries, leaf, labels, flushed, lastId, faults>>

Sessions == 1 .. MaxSessions

\* Lines that are no entries; Unended says that the line before it, the last
\* of the file, lacks its newline.
Header  == Entry(NoId, NoId, "header", 0, NoId, {})
Partial == Entry(NoId, NoId, "partial", 0, NoId, {})
Garbage == Entry(NoId, NoId, "garbage", 0, NoId, {})
Unended == Entry(NoId, NoId, "unended", 0, NoId, {})

File(lines) == [exists |-> TRUE, lines |-> lines]
Missing     == [exists |-> FALSE, lines |-> <<>>]

HasAssistant(s) == \E i \in DOMAIN s : s[i].kind = "assistant"

-----------------------------------------------------------------------------
\* Reading a file.
Parsed(lines) == Without(lines, {Partial, Garbage, Unended})

IsSession(file) == file.exists /\ Parsed(file.lines) # <<>> /\ Head(Parsed(file.lines)) = Header

\* The entries a file gives when it is opened.
Loaded(file) == IF IsSession(file) THEN Without(Parsed(file.lines), {Header}) ELSE <<>>

-----------------------------------------------------------------------------
\* Writing it.
\* The lines of a file that end with a newline.
Ended(lines) ==
  CASE lines # <<>> /\ Last(lines) = Partial -> Front(lines)
    [] lines # <<>> /\ Last(lines) = Unended -> Front(Front(lines))
    [] OTHER -> lines

AppendLine(lines, e) ==
  IF Ended(lines) = lines THEN Append(lines, e) ELSE Append(Ended(lines), Garbage)

\* What a cut write of an entry leaves: a part of its line, or all but its
\* newline; behind a line without one, a longer one that does not parse.
CutShort(lines, e) ==
  IF Ended(lines) = lines
    THEN {Append(lines, Partial), lines \o <<e, Unended>>}
    ELSE {Append(Ended(lines), Partial)}

\* What a write that fails leaves of the lines of a new file.
Remains(new) ==
  {SubSeq(new, 1, n) : n \in 0 .. Len(new)}
    \cup {Append(SubSeq(new, 1, n), Partial) : n \in 0 .. Len(new) - 1}
    \cup {Append(SubSeq(new, 1, n), Unended) : n \in 1 .. Len(new)}

Store(s, lines) == files' = [files EXCEPT ![s] = File(lines)]

Fault == faults < MaxFaults /\ faults' = faults + 1

\* Mutant: nothing is written while no assistant message is in the list.
PersistAnsweredOnly(all) ==
  CASE ~HasAssistant(all) -> UNCHANGED <<files, flushed, faults>>
    [] HasAssistant(all) /\ flushed ->
         Store(session, AppendLine(files[session].lines, Last(all))) /\ UNCHANGED <<flushed, faults>>
    [] OTHER -> /\ ~files[session].exists
                /\ Store(session, <<Header>> \o all)
                /\ flushed' = TRUE
                /\ UNCHANGED faults

\* Mutant: the first answer is stored, but the session not marked as saved.
PersistUnmarked(all) ==
  CASE flushed -> /\ Store(session, AppendLine(files[session].lines, Last(all)))
                  /\ UNCHANGED <<flushed, faults>>
    [] ~flushed /\ ~HasAssistant(all) -> UNCHANGED <<files, flushed, faults>>
    [] OTHER -> /\ ~files[session].exists
                /\ Store(session, <<Header>> \o all)
                /\ UNCHANGED <<flushed, faults>>

\* _persist: the list that memory now holds ends with the new entry.
Persist(all) ==
  CASE flushed -> /\ Store(session, AppendLine(files[session].lines, Last(all)))
                  /\ UNCHANGED <<flushed, faults>>
    [] ~flushed /\ ~HasAssistant(all) -> UNCHANGED <<files, flushed, faults>>
    [] OTHER -> /\ ~files[session].exists
                /\ Store(session, <<Header>> \o all)
                /\ flushed' = TRUE
                /\ UNCHANGED faults

\* _persist throws.  A file that already exists is not created again.
PersistFails(all) ==
  /\ UNCHANGED flushed
  /\ CASE flushed -> /\ Fault
                     /\ \/ UNCHANGED files
                        \/ \E lines \in CutShort(files[session].lines, Last(all)) :
                             Store(session, lines)
       [] ~flushed /\ ~HasAssistant(all) -> FALSE
       [] OTHER -> \/ files[session].exists /\ UNCHANGED <<files, faults>>
                   \/ ~files[session].exists /\ Fault
                      /\ \E lines \in Remains(<<Header>> \o all) : Store(session, lines)

\* _appendEntry: memory first, then the file.
AppendEntry(e) ==
  /\ lastId < MaxEntries
  /\ entries' = Append(entries, e)
  /\ leaf' = e.id
  /\ lastId' = e.id
  /\ UNCHANGED session

Saved(e)   == AppendEntry(e) /\ Persist(Append(entries, e))
Unsaved(e) == AppendEntry(e) /\ PersistFails(Append(entries, e))

NewEntry(parent, kind, size, ref, covers) == Entry(lastId + 1, parent, kind, size, ref, covers)

-----------------------------------------------------------------------------
\* appendMessage, appendCustomMessageEntry, appendThinkingLevelChange,
\* appendModelChange, appendCustomEntry and appendSessionInfo.
AppendMessage(kind, size) ==
  LET e == NewEntry(leaf, kind, size, NoId, {})
  IN  (Saved(e) \/ Unsaved(e)) /\ UNCHANGED labels

AppendInput == \E in \in Inputs : AppendMessage(in[1], in[2])

\* appendLabelChange: the index is updated after the entry is stored.
AppendLabelChange ==
  \E target \in Ids(entries), kind \in LabelKinds :
    LET e == NewEntry(leaf, kind, 0, target, {})
    IN  \/ Saved(e) /\ labels' = Relabel(labels, e)
        \/ Unsaved(e) /\ UNCHANGED labels

AppendSummary(first, covers) ==
  LET e == NewEntry(leaf, "compaction", 1, first, covers)
  IN  (Saved(e) \/ Unsaved(e)) /\ UNCHANGED labels

\* appendCompaction, with any entry of the conversation as the first kept one.
AppendCompaction ==
  \E first \in Ids(PathTo(entries, leaf)) : AppendSummary(first, {})

MoveLeaf(id) == leaf' = id /\ UNCHANGED <<files, session, entries, labels, flushed, lastId, faults>>

Branch == \E id \in Ids(entries) : MoveLeaf(id)

ResetLeaf == MoveLeaf(NoId)

SummarizeFrom(from) ==
  LET e == NewEntry(from, "summary", 1, NoId, {})
  IN  (Saved(e) \/ Unsaved(e)) /\ UNCHANGED labels

BranchWithSummary == \E from \in Ids(entries) \cup {NoId} : SummarizeFrom(from)

-----------------------------------------------------------------------------
\* Session names carry a time and a random id: a new one is not in use.
Unused == {s \in Sessions : s # session /\ ~files[s].exists}

NewName == CHOOSE s \in Unused : TRUE

\* What the process holds after building the index of a list of entries.
Hold(s, list) ==
  /\ session' = s
  /\ entries' = list
  /\ leaf' = IF list = <<>> THEN NoId ELSE Last(list).id
  /\ labels' = LabelsOf(list)

NewSession ==
  /\ Unused # {}
  /\ Hold(NewName, <<>>)
  /\ flushed' = FALSE
  /\ UNCHANGED <<files, lastId, faults>>

\* setSessionFile: an empty file is given a header, a file that is not a
\* session is refused and left alone.
SetSessionFile ==
  \E s \in Sessions :
    /\ files[s].exists
    /\ files[s].lines = <<>> \/ IsSession(files[s])
    /\ Hold(s, Loaded(files[s]))
    /\ IF files[s].lines = <<>> THEN Store(s, <<Header>>) ELSE UNCHANGED files
    /\ flushed' = TRUE
    /\ UNCHANGED <<lastId, faults>>

LabelsAmong(path) == {e \in Range(path) : e.kind \in LabelKinds}

\* Mutant: the entries keep the parents they had.
RechainedAsIs(path) == Without(path, LabelsAmong(path))

\* Mutant: summaries are left out with the labels.
RechainedMessages(path) ==
  LET kept == SelectSeq(path, LAMBDA e : e.kind \notin LabelKinds \cup {"summary"})
  IN  [i \in DOMAIN kept |-> [kept[i] EXCEPT !.parent = IF i = 1 THEN NoId ELSE kept[i - 1].id]]

\* The entries of a path without its labels, each the child of the one before.
Rechained(path) ==
  LET kept == Without(path, LabelsAmong(path))
  IN  [i \in DOMAIN kept |-> [kept[i] EXCEPT !.parent = IF i = 1 THEN NoId ELSE kept[i - 1].id]]

\* The labels of those entries, as new entries at the end.
LabelEntries(kept) ==
  LET targets == Without(labels, Range(labels) \ Ids(kept))
      last    == IF kept = <<>> THEN NoId ELSE Last(kept).id
  IN  [j \in DOMAIN targets |->
         Entry(lastId + j, IF j = 1 THEN last ELSE lastId + j - 1, "label", 0, targets[j], {})]

\* createBranchedSession: the path to an entry becomes a session of its own.
CreateBranchedSession(id) ==
  LET kept == Rechained(PathTo(entries, id))
      all  == kept \o LabelEntries(kept)
      s    == NewName
  IN  /\ Unused # {}
      /\ lastId + Len(LabelEntries(kept)) <= MaxEntries
      /\ Hold(s, all)
      /\ lastId' = lastId + Len(LabelEntries(kept))
      /\ \/ /\ flushed' = HasAssistant(all)
            /\ IF HasAssistant(all) THEN Store(s, <<Header>> \o all) ELSE UNCHANGED files
            /\ UNCHANGED faults
         \/ /\ HasAssistant(all) /\ Fault /\ UNCHANGED flushed
            /\ \E lines \in Remains(<<Header>> \o all) : Store(s, lines)

Fork == \E id \in Ids(entries) : CreateBranchedSession(id)

\* forkFrom: a session file of another project is copied and opened.
ForkFrom ==
  \E source \in Sessions :
    LET s   == NewName
        all == <<Header>> \o Loaded(files[source])
    IN  /\ Unused # {}
        /\ IsSession(files[source])
        /\ UNCHANGED lastId
        /\ \/ /\ Store(s, all)
              /\ Hold(s, Loaded(files[source]))
              /\ flushed' = TRUE
              /\ UNCHANGED faults
           \/ /\ Fault
              /\ \E lines \in Remains(all) : Store(s, lines)
              /\ UNCHANGED memory

-----------------------------------------------------------------------------
Init ==
  /\ files = [s \in Sessions |-> Missing]
  /\ session = 1
  /\ entries = <<>>
  /\ leaf = NoId
  /\ labels = <<>>
  /\ flushed = FALSE
  /\ lastId = 0
  /\ faults = 0

Next ==
  \/ AppendInput
  \/ AppendLabelChange
  \/ AppendCompaction
  \/ Branch
  \/ ResetLeaf
  \/ BranchWithSummary
  \/ NewSession
  \/ SetSessionFile
  \/ Fork
  \/ ForkFrom

Spec == Init /\ [][Next]_vars

-----------------------------------------------------------------------------
\* A list of entries is a forest in which every parent comes first.
Forest(s) ==
  \A i \in DOMAIN s :
    /\ s[i].parent = NoId \/ \E j \in 1 .. i - 1 : s[j].id = s[i].parent
    /\ \A j \in DOMAIN s : s[i].id = s[j].id => i = j

\* While no write has failed, the session in memory and every session that can
\* be opened is a forest of entries with their own ids, and the leaf is one of
\* them: no append, fork or reload orphans an entry, so that every path reaches
\* its root (_appendEntry, _buildIndex, createBranchedSession's re-chaining).
TreeWellFormed ==
  faults = 0 =>
    /\ Forest(entries)
    /\ leaf \in Ids(entries) \cup {NoId}
    /\ \A s \in Sessions : Forest(Loaded(files[s]))

\* While no write has failed, opening a saved session again gives what memory
\* holds: the file has exactly its entries after one header (_persist,
\* _rewriteFile), and building the index from them gives the labels it shows now,
\* in the same order, whatever was set, cleared or forked (appendLabelChange,
\* createBranchedSession).
ReopenGivesMemory ==
  faults = 0 /\ flushed =>
    /\ files[session] = File(<<Header>> \o entries)
    /\ LabelsOf(Loaded(files[session])) = labels

\* Both: a session that is opened again is whole, and the one it was.
SessionReopens == TreeWellFormed /\ ReopenGivesMemory

\* While no write has failed, a session that is not saved has no assistant
\* message and no file: from its first answer on a conversation is on disk, and
\* the exclusive creation in _persist ("wx") never meets an existing file,
\* whatever is forked, reopened or begun anew in between.
UnsavedHasNoAnswer ==
  faults = 0 /\ ~flushed => ~files[session].exists /\ ~HasAssistant(entries)

\* The entries a file gives from lines that end with a newline.
Kept(file) == Loaded([file EXCEPT !.lines = Ended(@)])

\* What a file once gave when opened it gives from then on, with more entries
\* at the end, whatever is forked, reopened or fails to be written: sessions are
\* append-only, and a failed write spoils nothing that was saved before it.  Not
\* covered: the entry of a write that failed just before its newline, which the
\* file gives until the next line is glued to it (session-manager.ts:527, 971).
FilesOnlyGrow ==
  [][\A s \in Sessions : IsPrefix(Kept(files[s]), Kept(files'[s]))]_vars

\* An entry appended to a saved session without an error is found when the
\* session is opened again: its id is a cursor that outlives the process
\* (docs/rpc.md, get_entries).  Not covered: a file that a failed fork left
\* without a header, and the entry after a write that was cut short, which the
\* line without a newline swallows (that one entry, not more).
AppendDurable ==
  [][/\ flushed /\ flushed' /\ session' = session /\ faults' = faults
     /\ Len(entries') = Len(entries) + 1
     /\ IsSession(files[session]) /\ Ended(files[session].lines) = files[session].lines
     => Last(entries').id \in Ids(Loaded(files'[session]))]_vars

\* What was saved stays, and what is appended is saved.
SavedIsDurable == FilesOnlyGrow /\ AppendDurable

\* The ids of a list of entries, one after the other.
IdsInOrder(s) == [i \in DOMAIN s |-> s[i].id]

\* A fork continues the conversation at the entry it is taken from: the model's
\* context at the new leaf is the context at that entry, message by message, and
\* the labels of its entries are kept.  Not covered: a compaction whose first
\* kept entry is a label, which the fork drops (session-manager.ts:1346-1350).
ForkKeepsConversation ==
  [][\A id \in Ids(entries) :
       LET path == PathTo(entries, id)
           new  == PathTo(entries', leaf')
           c    == LastCompaction(path)
       IN  CreateBranchedSession(id) =>
             /\ \/ IdsInOrder(ContextMessages(new)) = IdsInOrder(ContextMessages(path))
                \/ c # 0 /\ entries[IndexOf(entries, path[c].ref)].kind \in LabelKinds
             /\ labels' = Without(labels, Range(labels) \ Ids(new))]_vars
=============================================================================
