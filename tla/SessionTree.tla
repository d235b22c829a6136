---------------------------- MODULE SessionTree ----------------------------
(***************************************************************************)
(* The entries of a session and the pure functions over them, from         *)
(* core/session-manager.ts.  A session is a list of entries in append      *)
(* order; each entry names its parent, so the list is a tree, and a        *)
(* conversation is the path from a root to some entry.                     *)
(*                                                                         *)
(* An entry is abstracted to what the tree and compaction look at:         *)
(*   kind    the entry type, or the role of a message: "user",             *)
(*           "assistant", "toolResult", "bash" (a command the user ran),   *)
(*           "custom" (custom_message), "summary" (branch_summary),        *)
(*           "compaction", "meta" (thinking level, model, name, custom),   *)
(*           "label" and "unlabel" (a label entry that sets or clears)     *)
(*   size    its estimated tokens                                          *)
(*   ref     the entry a label targets, or a compaction's firstKeptEntryId *)
(*   covers  for a compaction, the entries its summary text was made from  *)
(* The text of a summary is represented by what it was made from, so that  *)
(* losing part of a conversation can be told from summarizing it.          *)
(***************************************************************************)
EXTENDS Naturals, Sequences, SequencesExt

\* A null id: the parent of a root, the leaf of an empty conversation.
NoId == 0

Entry(id, parent, kind, size, ref, covers) ==
  [id |-> id, parent |-> parent, kind |-> kind, size |-> size, ref |-> ref, covers |-> covers]

LabelKinds == {"label", "unlabel"}

Ids(s) == {s[i].id : i \in DOMAIN s}

\* The elements of a sequence that are not in a set: SelectSeq by its
\* definition, which the provers can unfold.
Without(s, T) ==
  LET rest[n \in 0 .. Len(s)] ==
        IF n = 0 THEN <<>> ELSE IF s[n] \in T THEN rest[n - 1] ELSE Append(rest[n - 1], s[n])
  IN  rest[Len(s)]

IndexOf(s, id) == SelectInSeq(s, LAMBDA e : e.id = id)

\* The path from the root to an entry; it starts below a parent that is not
\* in the session, as buildSessionPath stops where byId has no entry.
PathTo(s, id) ==
  LET path[i \in Nat] ==
        IF i \in Ids(s) THEN LET e == s[IndexOf(s, i)] IN Append(path[e.parent], e)
                        ELSE <<>>
  IN  path[id]

\* What an entry adds to the model's context: nothing, or one message.
IsMessage(e) == e.kind \notin LabelKinds \cup {"meta"}

LastCompaction(path) == SelectLastInSeq(path, LAMBDA e : e.kind = "compaction")

\* The latest compaction, the entries kept before it and the entries after it.
\* Nothing is kept when its first kept entry is not on the path before it.
ContextEntries(path) ==
  LET c    == LastCompaction(path)
      kept == IndexOf(SubSeq(path, 1, c - 1), path[c].ref)
  IN  IF c = 0 THEN path
      ELSE <<path[c]>> \o (IF kept = 0 THEN <<>> ELSE SubSeq(path, kept, c - 1))
                       \o SubSeq(path, c + 1, Len(path))

ContextMessages(path) == Without(ContextEntries(path), {e \in Range(path) : ~IsMessage(e)})

-----------------------------------------------------------------------------
\* The label index, a map from entry to label kept in insertion order.
Relabel(labels, e) ==
  CASE e.kind = "label"   -> IF Contains(labels, e.ref) THEN labels ELSE Append(labels, e.ref)
    [] e.kind = "unlabel" -> Without(labels, {e.ref})
    [] OTHER              -> labels

\* The label index of a loaded session.
LabelsOf(s) ==
  LET index[n \in 0 .. Len(s)] == IF n = 0 THEN <<>> ELSE Relabel(index[n - 1], s[n])
  IN  index[Len(s)]
=============================================================================
