----------------------------- MODULE MCFileTools -----------------------------
(***************************************************************************)
(* FileTools: two edits and a write of one file, one of them by a link; an *)
(* edit of a file that comes and goes and whose realpath may throw.        *)
(***************************************************************************)
EXTENDS FileTools, TLC

CONSTANTS f, link_f, g
CONSTANTS o1, o2, o3, o4

MCPath == {f, link_f, g}
MCCanon == (link_f :> f) @@ [p \in MCPath |-> p]
MCPathOf == (o1 :> f) @@ (o2 :> link_f) @@ (o3 :> f) @@ (o4 :> g)
MCInitialFiles == {f, g}
MCVolatile == {g}
MCUnreadable == {g}
=============================================================================
