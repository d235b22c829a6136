------------------------------ MODULE FileLock ------------------------------
(***************************************************************************)
(* What the file mutation queue promises: one lock per key, granted in the *)
(* order of the requests.  FileMutationQueue implements it with a map and  *)
(* a chain of promises.                                                    *)
(***************************************************************************)
CONSTANTS Ops, Key, PathOf

VARIABLES
  phase,  \* "out", "waiting", "inside" or "left"
  wants,  \* the key each operation asked for
  ahead   \* the operations each one still waits for

lvars == <<phase, wants, ahead>>

Init ==
  /\ phase = [op \in Ops |-> "out"]
  /\ wants = PathOf
  /\ ahead = [op \in Ops |-> {}]

Holds(o, k) == phase[o] \in {"waiting", "inside"} /\ wants[o] = k

Request(op, k) ==
  /\ phase[op] = "out"
  /\ phase' = [phase EXCEPT ![op] = "waiting"]
  /\ wants' = [wants EXCEPT ![op] = k]
  /\ ahead' = [ahead EXCEPT ![op] = {o \in Ops : Holds(o, k)}]

Enter(op) ==
  /\ phase[op] = "waiting"
  /\ ahead[op] = {}
  /\ phase' = [phase EXCEPT ![op] = "inside"]
  /\ UNCHANGED <<wants, ahead>>

Exit(op) ==
  /\ phase[op] = "inside"
  /\ phase' = [phase EXCEPT ![op] = "left"]
  /\ ahead' = [o \in Ops |-> ahead[o] \ {op}]
  /\ UNCHANGED wants

Next ==
  \E op \in Ops :
    \/ \E k \in Key : Request(op, k)
    \/ Enter(op)
    \/ Exit(op)

Spec == Init /\ [][Next]_lvars
=============================================================================
