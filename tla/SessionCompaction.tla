------------------------- MODULE SessionCompaction -------------------------
(***************************************************************************)
(* Compacting a conversation: AgentSession.compact and _runAutoCompaction  *)
(* (core/agent-session.ts) over the session of SessionManager.  The        *)
(* preparation is made from the path to the leaf, then the model is asked  *)
(* for a summary, and when it answers the compaction is appended at the    *)
(* leaf.  Meanwhile the agent is idle, but the results of the user's own   *)
(* shell commands and metadata are appended, and the user may navigate.    *)
(***************************************************************************)
EXTENDS SessionManager, Compaction

CONSTANTS
  KeepRecent,   \* settings.keepRecentTokens
  MaxMoves      \* bound on the navigations

ASSUME KeepRecentAssumption == KeepRecent \in Nat \ {0}

VARIABLES
  job,     \* the preparation whose summary is being generated
  moves,   \* navigations so far
  tip,     \* history: the end of the path that preparation was made from
  strays,  \* history: compactions that arrived off the path they were made from
  gaps     \* history: compactions that took nothing over from the one before

allVars == <<vars, job, moves, tip, strays, gaps>>

branch == PathTo(entries, leaf)

\* The entry of the last message on the path.
LastMessageKind(p) ==
  LET i == SelectLastInSeq(p, IsMessage) IN IF i = 0 THEN "none" ELSE p[i].kind

\* The agent and the user add to the conversation.  A tool result follows the
\* answer that called the tool, or another result.
Say ==
  \E in \in Inputs :
    /\ in[1] = "toolResult" => LastMessageKind(branch) \in {"assistant", "toolResult"}
    /\ job.ok => in[1] \in {"bash", "meta"}
    /\ AppendMessage(in[1], in[2])
    /\ UNCHANGED <<job, moves, tip, strays, gaps>>

StartCompaction ==
  /\ ~job.ok
  /\ job' = PrepareCompaction(branch, KeepRecent)
  /\ job'.ok
  /\ tip' = leaf
  /\ UNCHANGED <<vars, moves, strays, gaps>>

\* The model is asked for the summary of the turn's prefix alone, and there was
\* a summary before.
TakesNothingOver(prep) == prep.split /\ prep.history = {} /\ prep.previous # {}

FinishCompaction ==
  /\ job.ok
  /\ AppendSummary(job.firstKept, CompactCovers(job))
  /\ job' = NothingToCompact
  /\ tip' = NoId
  /\ strays' = IF tip \in Ids(branch) THEN strays ELSE strays \cup {leaf'}
  /\ gaps' = IF TakesNothingOver(job) THEN gaps \cup {leaf'} ELSE gaps
  /\ UNCHANGED moves

\* The summary fails, is aborted, or an extension cancels.
CancelCompaction ==
  /\ job.ok
  /\ job' = NothingToCompact
  /\ tip' = NoId
  /\ UNCHANGED <<vars, moves, strays, gaps>>

\* navigateTree without a label: the user moves to an entry of the tree, or to
\* the parent of a message to edit it again, leaving a summary of the branch
\* there or not.  Nothing in it looks at whether a compaction is running.
Navigate ==
  /\ moves < MaxMoves
  /\ moves' = moves + 1
  /\ \E i \in DOMAIN entries :
       LET dest == IF entries[i].kind \in {"user", "custom"} THEN entries[i].parent ELSE entries[i].id
       IN  /\ entries[i].id # leaf
           /\ MoveLeaf(dest) \/ SummarizeFrom(dest)
  /\ UNCHANGED <<job, tip, strays, gaps>>

InitCompaction ==
  /\ Init
  /\ job = NothingToCompact /\ moves = 0
  /\ tip = NoId /\ strays = {} /\ gaps = {}

Converse == Say \/ StartCompaction \/ FinishCompaction \/ CancelCompaction \/ Navigate

SpecCompaction == InitCompaction /\ [][Converse]_allVars

-----------------------------------------------------------------------------
\* A compaction in progress names entries of the session, and splits them: what
\* its summary is made from comes before the first kept entry, and history and
\* turn prefix share no entry (prepareCompaction).
KeptIsNotSummarized ==
  job.ok =>
    /\ job.firstKept \in Ids(entries) /\ job.split \in BOOLEAN /\ job.previous \subseteq Ids(entries)
    /\ job.history \cap job.prefix = {}
    /\ \A id \in job.history \cup job.prefix :
         IndexOf(entries, id) \in 1 .. IndexOf(entries, job.firstKept) - 1

\* The messages of the model's context, and what the summaries among them were
\* made from.
Shown(p) == Ids(ContextMessages(p))

Known(p) == Shown(p) \cup UNION {e.covers : e \in Range(ContextMessages(p))}

Messages(p) == {p[i].id : i \in {k \in DOMAIN p : IsMessage(p[k]) /\ p[k].kind # "compaction"}}

\* docs/compaction.md: the summary of a split turn is merged with a history
\* summary of the "previous context (if any)".  Everything said on the path is
\* then in the context or went into a summary there.
HistoryCovered == Messages(branch) \subseteq Known(branch)

\* A path on which every summary took over the previous one, and none was made
\* from another branch (strays; agent-session.ts:1820).
Unbroken == (strays \cup gaps) \cap Ids(branch) = {}

\* A compaction takes no message from the context that does not go into its own
\* summary, if it arrives on the path it was made from, with no other compaction
\* on it since.
ContextIsSummarized ==
  [][LET after == PathTo(entries', leaf')
     IN  /\ FinishCompaction
         /\ tip \in Ids(branch) /\ LastCompaction(branch) <= IndexOf(branch, tip)
         => Shown(branch) \cap Messages(branch) \subseteq Shown(after) \cup CompactCovers(job)]_allVars

\* Compacting forgets nothing: everything said on the path to the leaf is in the
\* context or went into a summary there, however often it was compacted and
\* whatever was appended while a summary was generated; and each compaction
\* summarizes what it takes from the context.  Not covered by the first: a path
\* with a summary that took nothing over from the previous one (gaps), or that
\* was made from another branch (strays).
CompactionForgetsNothing == [](Unbroken => HistoryCovered) /\ ContextIsSummarized

\* A tool result in the context follows the answer that called the tool, or
\* another result: providers refuse a result without its call, so no cut may
\* fall between them (findValidCutPoints).  Not covered: a path with a summary
\* that was made from another branch (strays).  The entry it keeps from may be
\* metadata shared by both, which a message follows on one branch and a tool
\* result on the other.
ResultsKeepTheirCalls ==
  LET context == ContextMessages(branch)
  IN  strays \cap Ids(branch) = {} =>
        \A i \in DOMAIN context :
          context[i].kind = "toolResult" =>
            i > 1 /\ context[i - 1].kind \in {"assistant", "toolResult"}

\* Both: the cut parts the entries, and no call from its results.
CutIsClean == KeptIsNotSummarized /\ ResultsKeepTheirCalls

\* What is kept after its first message is below the budget, so that compacting
\* frees what it promises (findCutPoint).  Not covered: a path with a summary that
\* was made from another branch, after which the part to cut may begin with a
\* tool result and end with results that exceed the budget alone.
KeptWithinBudget ==
  [][StartCompaction /\ strays \cap Ids(branch) = {} =>
       LET first == SelectInSubSeq(branch, IndexOf(branch, job'.firstKept), Len(branch), IsMessage)
       IN  first # 0 /\ TokensFrom(branch, first + 1) < KeepRecent]_allVars
=============================================================================
