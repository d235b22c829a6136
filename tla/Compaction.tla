----------------------------- MODULE Compaction -----------------------------
(***************************************************************************)
(* Where a conversation is cut when it is compacted, and what its summary  *)
(* is made from: the pure part of core/compaction/compaction.ts.  Indices  *)
(* are 1-based, and 0 stands for the code's -1.                            *)
(***************************************************************************)
EXTENDS SessionTree, FiniteSetsExt

IsCutPoint(e) == e.kind \in {"user", "assistant", "bash", "custom", "summary"}

StartsTurn(e) == e.kind \in {"user", "bash", "custom", "summary"}

Tokens(e) == IF IsMessage(e) THEN e.size ELSE 0

\* The tokens of the entries from index i on, added up from the newest.
TokensFrom(path, i) ==
  LET sum[n \in 0 .. Len(path)] ==
        IF n = 0 THEN 0 ELSE sum[n - 1] + Tokens(path[Len(path) - n + 1])
  IN  sum[Len(path) - i + 1]

CutPoints(path, start) == {i \in start .. Len(path) : IsCutPoint(path[i])}

\* Mutant: the last cut point at or before the entry where the budget is reached.
BudgetCutBefore(path, start, keepRecent) ==
  LET cuts    == CutPoints(path, start)
      reached == {i \in start .. Len(path) : TokensFrom(path, i) >= keepRecent}
      before  == {c \in cuts : reached # {} /\ c < Max(reached)}
  IN  IF before = {} THEN Min(cuts) ELSE Max(before)

\* Walking back from the newest entry: the first cut point at or after the
\* entry where the budget is reached, the first cut point of all otherwise.
BudgetCut(path, start, keepRecent) ==
  LET cuts    == CutPoints(path, start)
      reached == {i \in start .. Len(path) : TokensFrom(path, i) >= keepRecent}
      after   == {c \in cuts : reached # {} /\ c >= Max(reached)}
  IN  IF after = {} THEN Min(cuts) ELSE Min(after)

\* The entries before the cut that add nothing to the context are kept too.
WithMetadata(path, start, cut) ==
  Min({i \in start .. cut : \A k \in i .. cut - 1 : ~IsMessage(path[k])})

TurnStart(path, start, i) == Max({0} \cup {k \in start .. i : StartsTurn(path[k])})

FindCutPoint(path, start, keepRecent) ==
  IF CutPoints(path, start) = {} THEN [kept |-> start, turn |-> 0, split |-> FALSE]
  ELSE LET kept == WithMetadata(path, start, BudgetCut(path, start, keepRecent))
           turn == IF StartsTurn(path[kept]) THEN 0 ELSE TurnStart(path, start, kept)
       IN  [kept |-> kept, turn |-> turn, split |-> turn # 0]

-----------------------------------------------------------------------------
\* The first index that the previous compaction did not summarize.
BoundaryStart(path) ==
  LET c    == LastCompaction(path)
      kept == IndexOf(path, path[c].ref)
  IN  IF c = 0 THEN 1 ELSE IF kept > 0 THEN kept ELSE c + 1

\* Mutant: the end of the range is included.
SummarizedInclusive(path, from, to) ==
  {path[i].id : i \in {k \in from .. Min({to + 1, Len(path)}) : IsMessage(path[k]) /\ path[k].kind # "compaction"}}

\* The entries of a range that a summary is made from.
Summarized(path, from, to) ==
  {path[i].id : i \in {k \in from .. to : IsMessage(path[k]) /\ path[k].kind # "compaction"}}

\* What the summary of the last compaction was made from.
PreviousSummary(path) ==
  IF LastCompaction(path) = 0 THEN {} ELSE path[LastCompaction(path)].covers

NothingToCompact == [ok |-> FALSE]

PrepareCompaction(path, keepRecent) ==
  LET start   == BoundaryStart(path)
      cut     == FindCutPoint(path, start, keepRecent)
      history == Summarized(path, start, (IF cut.split THEN cut.turn ELSE cut.kept) - 1)
      prefix  == IF cut.split THEN Summarized(path, cut.turn, cut.kept - 1) ELSE {}
  IN  IF \/ path = <<>>
         \/ Last(path).kind = "compaction"
         \/ cut.kept > Len(path)
         \/ history \cup prefix = {}
      THEN NothingToCompact
      ELSE [ok |-> TRUE, firstKept |-> path[cut.kept].id, split |-> cut.split,
            history |-> history, prefix |-> prefix, previous |-> PreviousSummary(path)]

\* Mutant: the summary is made without the previous one.
CompactCoversAnew(prep) == prep.history \cup prep.prefix

\* A split turn is summarized apart, next to the summary of the history before
\* it; without such history the previous summary is not passed on.
CompactCovers(prep) ==
  IF prep.split /\ prep.prefix # {}
  THEN prep.prefix \cup (IF prep.history = {} THEN {} ELSE prep.history \cup prep.previous)
  ELSE prep.history \cup prep.previous
=============================================================================
