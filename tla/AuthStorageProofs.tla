-------------------------- MODULE AuthStorageProofs --------------------------
(***************************************************************************)
(* Proofs about AuthStorage, for any instances, providers and times: while *)
(* no refresh holds the lock for longer than SyncStale, nobody takes it    *)
(* from its holder, and the file is what its holder read.                  *)
(***************************************************************************)
EXTENDS AuthStorage, TLAPS

USE InstanceAssumption, FileAssumption, TimesAssumption, BoundsAssumption

\* Whoever works on a provider's credential has one in hand, and whoever locks
\* the file has seen to it that there is one.
ProvOK ==
  \A a \in Instance :
    /\ pc[a] \in {"waiting", "refreshing", "answered"} => prov[a] \in Provider
    /\ pc[a] = "creating" /\ job[a] = "none" => prov[a] \in Provider
    /\ job[a] \in {"load before change", "change"} => prov[a] \in Provider
    /\ pc[a] \in {"refreshing", "answered"} => got[a] # Torn
    /\ pc[a] \in {"locking", "waiting"} => file # Absent

Holding(a) == pc[a] = "locked" \/ Refreshing(a)

\* The lock is its holder's, and is not stale for anybody.
HoldOK ==
  slow \/ \A a \in Instance :
    /\ Holding(a) => lock = a /\ age <= waited[a]
    /\ Refreshing(a) => ~compromised[a] /\ waited[a] <= SyncStale
    /\ ~Refreshing(a) => waited[a] = 0

\* A content has the credentials of the last logins, but for those a write has lost.
Keeps(content, logins, lost) ==
  \A p \in Provider :
    \/ GrantIn(content, p) = logins[p]
    \/ GrantIn(content, p) = 0 /\ p \in lost

FileKept == slow \/ Keeps(file, stored, undone)

\* Whoever has read the file and may write it.
Reads(a) == pc[a] \in {"locked", "refreshing", "answered"}

\* Nobody wrote since the holder read the file, but a creation may have emptied it;
\* what the holder has read keeps the logins.
GotOK ==
  slow \/ \A a \in Instance : Reads(a) =>
    /\ got[a] = file \/ file \in {Torn, Empty}
    /\ Keeps(got[a], stored, undone)

IInv == TypeOK /\ ProvOK /\ HoldOK /\ GotOK /\ FileKept

LEMMA EmptyType == Empty \in Contents /\ NoCred \in Cred
  BY DEF Empty, Contents, Cred, NoCred, Grant

LEMMA NextGrant ==
  ASSUME NEW g \in Grant, g < MaxGrants PROVE g + 1 \in Grant
  BY DEF Grant

\* Under the invariant a lock that is free has no holder.
LEMMA FreeMeansNoHolder ==
  ASSUME TypeOK, HoldOK, ~slow, LockIsFree(SyncStale) \/ LockIsFree(AsyncStale)
  PROVE  \A a \in Instance : ~Holding(a)
<1> SUFFICES ASSUME NEW a \in Instance, Holding(a) PROVE FALSE
  OBVIOUS
<1>1. lock = a /\ age <= waited[a] /\ age \in Nat /\ waited[a] \in Nat
  BY DEF HoldOK, TypeOK
<1>2. waited[a] <= SyncStale
  BY <1>1 DEF HoldOK
<1> QED
  BY <1>1, <1>2 DEF LockIsFree

\* There is one holder.
LEMMA OneHolder ==
  ASSUME HoldOK, ~slow, NEW a \in Instance, NEW b \in Instance, Holding(a), Holding(b)
  PROVE  a = b
  BY DEF HoldOK

\* What a holder writes has the credentials' types.
LEMMA InHandType ==
  ASSUME TypeOK, ProvOK, NEW a \in Instance, pc[a] \in {"refreshing", "answered"}
  PROVE  /\ got[a] \in Contents /\ prov[a] \in Provider
         /\ InHand(a) \in Cred /\ InHand(a).grant \in Grant
         /\ NextToken(a) \in Cred
         /\ Rotated(a) \in Contents
         /\ \A p \in Provider : Rotated(a)[p].grant = got[a][p].grant
<1>1. got[a] \in Contents /\ prov[a] \in Provider
  BY DEF TypeOK, ProvOK
<1>2. \A p \in Provider : got[a][p] \in [grant : Grant, n : Nat]
  BY <1>1 DEF Contents, Cred
<1>3. InHand(a) \in Cred /\ InHand(a).grant \in Grant
  BY <1>1, <1>2 DEF InHand, Contents, Cred
<1>4. NextToken(a) \in Cred /\ NextToken(a).grant = InHand(a).grant
  BY <1>3 DEF NextToken, Cred
<1>5. Rotated(a) \in Contents
  BY <1>1, <1>4 DEF Rotated, Contents
<1>6. \A p \in Provider : Rotated(a)[p].grant = got[a][p].grant
  BY <1>1, <1>4 DEF Rotated, Contents, InHand
<1> QED
  BY <1>1, <1>3, <1>4, <1>5, <1>6

LEMMA MergedType ==
  ASSUME TypeOK, ProvOK, NEW a \in Instance, job[a] = "change", got[a] # Torn
  PROVE  /\ got[a] \in Contents /\ prov[a] \in Provider
         /\ Merged(a) \in Contents
         /\ \A p \in Provider : Merged(a)[p].grant =
              IF p = prov[a] THEN want[a].grant ELSE got[a][p].grant
  BY DEF TypeOK, ProvOK, Merged, Contents

\* No content keeps less when more is lost, and none has nothing at all.
LEMMA KeepsMore ==
  ASSUME NEW content, NEW logins, NEW lost, NEW more, lost \subseteq more,
         Keeps(content, logins, lost)
  PROVE  Keeps(content, logins, more)
  BY DEF Keeps

LEMMA KeepsNothing ==
  ASSUME TypeOK, Keeps(file, stored, undone)
  PROVE  /\ undone \subseteq Undone /\ Undone \subseteq Provider
         /\ \A content \in {Empty, Torn} : Keeps(content, stored, Undone)
<1>1. undone \subseteq Undone /\ Undone \subseteq Provider
  BY DEF Undone, TypeOK
<1>2. \A p \in Provider : GrantIn(Empty, p) = 0 /\ GrantIn(Torn, p) = 0
  BY EmptyType DEF GrantIn, Empty, NoCred
<1>3. \A p \in Provider : stored[p] = 0 \/ p \in Undone
  BY DEF Keeps, Undone
<1> QED
  BY <1>1, <1>2, <1>3 DEF Keeps

\* The call's own variables keep their types when it ends.
LEMMA LeaveType ==
  ASSUME TypeOK, NEW a \in Instance,
         NEW label \in {"idle", "creating", "locking", "down"}, NEW next \in {"none", "reload"},
         Leave(a, label, next)
  PROVE  /\ pc' \in [Instance -> {"idle", "creating", "locking", "locked", "waiting", "refreshing",
                                  "answered", "failed", "done", "down"}]
         /\ job' \in [Instance -> {"none", "reload", "load before change", "change"}]
         /\ prov' \in [Instance -> Provider \cup {None}]
         /\ want' \in [Instance -> Cred]
         /\ got' \in [Instance -> Contents \cup {Torn}]
         /\ compromised' \in [Instance -> BOOLEAN]
         /\ waited' \in [Instance -> Nat]
         /\ touched' \in [Instance -> Nat]
  BY EmptyType DEF TypeOK, Leave, Go

\* What a call that ends leaves to the others, and of itself.
LEMMA LeaveEffect ==
  ASSUME TypeOK, NEW a \in Instance,
         NEW label \in {"idle", "creating", "locking", "down"}, NEW next \in {"none", "reload"},
         Leave(a, label, next)
  PROVE  /\ pc'[a] = label /\ job'[a] = next /\ ~compromised'[a] /\ waited'[a] = 0
         /\ \A b \in Instance \ {a} :
              /\ pc'[b] = pc[b] /\ job'[b] = job[b] /\ prov'[b] = prov[b]
              /\ got'[b] = got[b] /\ waited'[b] = waited[b]
              /\ compromised'[b] = compromised[b]
  BY DEF TypeOK, Leave, Go

-----------------------------------------------------------------------------
(* Each kind of step preserves the invariant.                              *)

LEMMA InitContent ==
  ASSUME Init
  PROVE  \E label \in {"idle", "down"}, content \in Contents :
           /\ Started(label, content, 1)
           /\ file = content \/ (file = Absent /\ content = Empty)
           /\ \A p \in Provider : content[p] = NoCred \/ content[p] = [grant |-> 1, n |-> 0]
           /\ \A p, q \in Provider : content[p] # NoCred /\ content[q] # NoCred => p = q
<1>1. ASSUME NEW p \in Provider, file = [Empty EXCEPT ![p] = [grant |-> 1, n |-> 0]],
             Started("idle", file, 1)
      PROVE  file \in Contents /\ \A q \in Provider :
               file[q] = IF q = p THEN [grant |-> 1, n |-> 0] ELSE NoCred
  <2>1. [grant |-> 1, n |-> 0] \in Cred
    BY DEF Cred, Grant
  <2> QED
    BY <1>1, <2>1, EmptyType DEF Contents, Empty
<1>2. CASE \E p \in Provider : file = [Empty EXCEPT ![p] = [grant |-> 1, n |-> 0]]
                               /\ Started("idle", file, 1)
  <2>1. PICK p \in Provider : /\ file = [Empty EXCEPT ![p] = [grant |-> 1, n |-> 0]]
                              /\ Started("idle", file, 1)
    BY <1>2
  <2>2. file \in Contents /\ \A q \in Provider :
          file[q] = IF q = p THEN [grant |-> 1, n |-> 0] ELSE NoCred
    BY <1>1, <2>1
  <2> QED
    <3>1. \A q \in Provider : file[q] = NoCred \/ file[q] = [grant |-> 1, n |-> 0]
      BY <2>2
    <3>2. \A q, r \in Provider : file[q] # NoCred /\ file[r] # NoCred => q = r
      BY <2>2
    <3> QED
      BY <2>1, <2>2, <3>1, <3>2
<1>3. CASE file = Absent /\ Started("down", Empty, 1)
  <2>1. \A p \in Provider : Empty[p] = NoCred
    BY DEF Empty
  <2> QED
    BY <1>3, <2>1, EmptyType
<1> QED
  BY <1>2, <1>3 DEF Init

LEMMA InitIInv == Init => IInv
<1> SUFFICES ASSUME Init PROVE IInv
  OBVIOUS
<1>1. PICK label \in {"idle", "down"}, content \in Contents :
        /\ Started(label, content, 1)
        /\ file = content \/ (file = Absent /\ content = Empty)
  BY InitContent
<1>2. 1 \in Grant /\ 0 \in Grant /\ \A p \in Provider : content[p] \in Cred /\ content[p].grant \in Grant
  BY <1>1 DEF Cred, Grant, Contents
<1>3. /\ pc = [a \in Instance |-> label] /\ job = [a \in Instance |-> "none"]
      /\ stored = [p \in Provider |-> content[p].grant]
      /\ undone = {} /\ slow = FALSE
  BY <1>1 DEF Started
<1>4. TypeOK
  <2>1. /\ got \in [Instance -> Contents \cup {Torn}]
        /\ data \in [Instance -> Contents]
        /\ want \in [Instance -> Cred]
    BY <1>1, EmptyType DEF Started
  <2>2. stored \in [Provider -> Grant] /\ undone \subseteq Provider
    BY <1>2, <1>3
  <2>3. fresh \subseteq Cred /\ grants \in Grant /\ current \in [Grant -> Nat]
    BY <1>1, <1>2 DEF Started
  <2>4. /\ pc \in [Instance -> {"idle", "down"}] /\ job \in [Instance -> {"none"}]
        /\ prov \in [Instance -> {None}] /\ loadError \in [Instance -> BOOLEAN]
        /\ compromised \in [Instance -> BOOLEAN]
        /\ waited \in [Instance -> Nat] /\ touched \in [Instance -> Nat]
    BY <1>1 DEF Started
  <2>5. /\ lock = None /\ age = 0 /\ cut = {} /\ crashes = 0 /\ slow = FALSE
        /\ file \in Contents \cup {Absent}
    BY <1>1 DEF Started
  <2> QED
    BY <2>1, <2>2, <2>3, <2>4, <2>5 DEF TypeOK
<1>5. \A a \in Instance : pc[a] \in {"idle", "down"} /\ job[a] = "none"
  BY <1>3
<1>6. ProvOK /\ GotOK
  BY <1>5 DEF ProvOK, GotOK, Reads
<1>7. HoldOK
  BY <1>1, <1>5 DEF Started, HoldOK, Holding, Refreshing
<1>8. FileKept
  BY <1>1, <1>3, EmptyType DEF FileKept, Keeps, GrantIn, Empty, NoCred
<1> QED
  BY <1>4, <1>6, <1>7, <1>8 DEF IInv

LEMMA TickIInv == ASSUME IInv, Tick PROVE IInv'
<1> USE DEF IInv
<1>1. /\ \A a \in Instance : pc[a] \notin {"creating", "locked"}
      /\ age' = IF CountsAge THEN age + 1 ELSE age
      /\ waited' = [a \in Instance |-> IF Refreshing(a) THEN waited[a] + 1 ELSE waited[a]]
      /\ UNCHANGED <<pc, job, prov, want, got, data, loadError, compromised, touched,
                     lock, fresh, grants, current, file, stored, cut, undone, crashes>>
  BY Zenon DEF Tick, local, server
<1>2. slow' \in BOOLEAN /\ (~slow' => ~slow /\ \A a \in Instance : ~(waited'[a] > SyncStale))
  BY Zenon DEF Tick
<1>3. age' \in Nat /\ age' <= age + 1
  <2>1. age' = age \/ age' = age + 1
    BY Zenon, <1>1
  <2>2. age \in Nat
    BY DEF TypeOK
  <2> QED
    BY <2>1, <2>2
<1>4. waited' \in [Instance -> Nat]
  <2>1. waited \in [Instance -> Nat]
    BY DEF TypeOK
  <2>2. \A a \in Instance : waited[a] \in Nat /\ waited[a] + 1 \in Nat
    BY <2>1
  <2> QED
    BY Zenon, <1>1, <2>2
<1>5. TypeOK'
  BY <1>1, <1>2, <1>3, <1>4 DEF TypeOK
<1>6. ProvOK'
  BY <1>1 DEF ProvOK
<1>7. HoldOK'
  <2> SUFFICES ASSUME ~slow', NEW a \in Instance
               PROVE  /\ Holding(a)' => lock' = a /\ age' <= waited'[a]
                      /\ Refreshing(a)' => ~compromised'[a] /\ waited'[a] <= SyncStale
                      /\ ~Refreshing(a)' => waited'[a] = 0
    BY DEF HoldOK
  <2>1. ~slow /\ waited'[a] <= SyncStale /\ pc[a] # "locked"
    BY <1>1, <1>2, <1>4
  <2>2. (Refreshing(a)' <=> Refreshing(a)) /\ (Holding(a)' <=> Refreshing(a))
    BY <1>1, <2>1 DEF Holding, Refreshing
  <2>3. waited'[a] = IF Refreshing(a) THEN waited[a] + 1 ELSE waited[a]
    BY <1>1
  <2>4. Refreshing(a) => lock = a /\ ~compromised[a] /\ age <= waited[a]
    BY <2>1 DEF HoldOK, Holding
  <2>5. ~Refreshing(a) => waited[a] = 0
    BY <2>1 DEF HoldOK
  <2>6. age \in Nat /\ waited[a] \in Nat
    BY DEF TypeOK
  <2> QED
    BY <1>1, <1>3, <2>1, <2>2, <2>3, <2>4, <2>5, <2>6
<1>8. GotOK' /\ FileKept'
  BY <1>1, <1>2 DEF GotOK, FileKept, Reads
<1> QED
  BY <1>5, <1>6, <1>7, <1>8

LEMMA UpdateIInv == ASSUME IInv, NEW a \in Instance, UpdateLock(a) PROVE IInv'
<1> USE DEF IInv, UpdateLock, local, server, ghosts
<1>1. TypeOK'
  BY DEF TypeOK
<1>2. ProvOK' /\ GotOK' /\ FileKept'
  BY DEF ProvOK, GotOK, FileKept, Reads
<1>3. HoldOK'
  <2> SUFFICES ASSUME ~slow, NEW b \in Instance
               PROVE  /\ Holding(b)' => lock' = b /\ age' <= waited'[b]
                      /\ Refreshing(b)' => ~compromised'[b] /\ waited'[b] <= SyncStale
                      /\ ~Refreshing(b)' => waited'[b] = 0
    BY DEF HoldOK
  <2>1. lock = a
    BY DEF HoldOK, Holding, UpdateDue
  <2>2. age' = 0 /\ lock' = a /\ ~compromised'[a] /\ (b # a => compromised'[b] = compromised[b])
    BY <2>1 DEF TypeOK
  <2>3. (Refreshing(b)' <=> Refreshing(b)) /\ (Holding(b)' <=> Holding(b))
    BY DEF Holding, Refreshing
  <2>4. Holding(b) => b = a
    BY <2>1 DEF HoldOK
  <2> QED
    <3>1. waited'[b] = waited[b] /\ waited[b] \in Nat
      BY DEF TypeOK
    <3>2. Refreshing(b) => Holding(b) /\ waited[b] <= SyncStale
      BY DEF HoldOK, Holding
    <3>3. ~Refreshing(b) => waited[b] = 0
      BY DEF HoldOK
    <3> QED
      BY <2>2, <2>3, <2>4, <3>1, <3>2, <3>3
<1> QED
  BY <1>1, <1>2, <1>3

LEMMA CreateFileIInv == ASSUME IInv, NEW a \in Instance, CreateFile(a) PROVE IInv'
<1> USE DEF IInv
<1>1. /\ pc[a] = "creating" /\ file' \in {Empty, Torn} /\ undone' = Undone
      /\ Go(a, IF job[a] = "none" THEN "waiting" ELSE "locking")
      /\ UNCHANGED <<job, prov, want, got, data, loadError, compromised, waited, touched, lock,
                     age, fresh, grants, current, stored, cut, crashes, slow>>
  BY DEF CreateFile, lease, server
<1>2. /\ pc'[a] = IF job[a] = "none" THEN "waiting" ELSE "locking"
      /\ \A b \in Instance \ {a} : pc'[b] = pc[b]
      /\ pc' \in [Instance -> {"idle", "creating", "locking", "locked", "waiting", "refreshing",
                               "answered", "failed", "done", "down"}]
  BY <1>1 DEF Go, TypeOK
<1>3. file' \in Contents \cup {Torn} /\ file' # Absent
  BY <1>1, EmptyType
<1>4. Undone \subseteq Provider
  BY DEF Undone, TypeOK
<1>5. TypeOK'
  BY <1>1, <1>2, <1>3, <1>4 DEF TypeOK
<1>6. ProvOK'
  BY <1>1, <1>2, <1>3 DEF ProvOK
<1>7. HoldOK'
  BY <1>1, <1>2 DEF HoldOK, Holding, Refreshing
<1>8. GotOK' /\ FileKept'
  <2> SUFFICES ASSUME ~slow PROVE GotOK' /\ FileKept'
    BY <1>1 DEF GotOK, FileKept
  <2>1. /\ undone \subseteq Undone
        /\ \A content \in {Empty, Torn} : Keeps(content, stored, Undone)
    BY KeepsNothing DEF FileKept
  <2>2. FileKept'
    BY <1>1, <2>1 DEF FileKept
  <2>3. ASSUME NEW b \in Instance, Reads(b)' PROVE Reads(b) /\ got'[b] = got[b]
    BY <1>1, <1>2, <2>3 DEF Reads
  <2>4. ASSUME NEW b \in Instance, Reads(b) PROVE Keeps(got[b], stored, Undone)
    BY <2>1, <2>4, KeepsMore DEF GotOK
  <2>5. GotOK'
    BY <1>1, <2>3, <2>4 DEF GotOK
  <2> QED
    BY <2>2, <2>5
<1> QED
  BY <1>5, <1>6, <1>7, <1>8

LEMMA LoginIInv == ASSUME IInv, NEW a \in Instance, NEW p \in Provider, Login(a, p) PROVE IInv'
<1> USE DEF IInv, Leave, Return, Go, DropLock, TakeLock, local, lease, server, ghosts, Login, Change, Ensured
<1>1. TypeOK'
  <2>1. grants + 1 \in Grant /\ grants' = grants + 1
    <3>1. grants \in Grant
      BY DEF TypeOK
    <3>2. grants < MaxGrants /\ grants' = grants + 1
      OBVIOUS
    <3> QED
      BY <3>1, <3>2, NextGrant
  <2>2. [grant |-> grants + 1, n |-> 0] \in Cred
    BY <2>1 DEF Cred
  <2>3. fresh' \subseteq Cred
    BY <2>2 DEF TypeOK
  <2>4. want' \in [Instance -> Cred]
    BY <2>2 DEF TypeOK
  <2> QED
    BY <2>1, <2>3, <2>4 DEF TypeOK
<1>2. ProvOK'
  BY DEF ProvOK, TypeOK
<1>3. HoldOK'
  <2> SUFFICES ASSUME ~slow, NEW b \in Instance
               PROVE  /\ Holding(b)' => lock' = b /\ age' <= waited'[b]
                      /\ Refreshing(b)' => ~compromised'[b] /\ waited'[b] <= SyncStale
                      /\ ~Refreshing(b)' => waited'[b] = 0
    BY DEF HoldOK
  <2> QED
    BY DEF HoldOK, Holding, Refreshing, TypeOK
<1>4. GotOK' /\ FileKept'
  BY DEF GotOK, FileKept, Reads, TypeOK
<1> QED
  BY <1>1, <1>2, <1>3, <1>4

LEMMA LogoutIInv == ASSUME IInv, NEW a \in Instance, NEW p \in Provider, Logout(a, p) PROVE IInv'
<1> USE DEF IInv, Leave, Return, Go, DropLock, TakeLock, local, lease, server, ghosts, Logout, Change, Ensured
<1>1. TypeOK'
  BY EmptyType DEF TypeOK
<1>2. ProvOK'
  BY DEF ProvOK, TypeOK
<1>3. HoldOK'
  <2> SUFFICES ASSUME ~slow, NEW b \in Instance
               PROVE  /\ Holding(b)' => lock' = b /\ age' <= waited'[b]
                      /\ Refreshing(b)' => ~compromised'[b] /\ waited'[b] <= SyncStale
                      /\ ~Refreshing(b)' => waited'[b] = 0
    BY DEF HoldOK
  <2> QED
    BY DEF HoldOK, Holding, Refreshing, TypeOK
<1>4. GotOK' /\ FileKept'
  BY DEF GotOK, FileKept, Reads, TypeOK
<1> QED
  BY <1>1, <1>2, <1>3, <1>4

LEMMA GetApiKeyIInv == ASSUME IInv, NEW a \in Instance, NEW p \in Provider, GetApiKey(a, p) PROVE IInv'
<1> USE DEF IInv, Leave, Return, Go, DropLock, TakeLock, local, lease, server, ghosts, GetApiKey, Ensured
<1>1. TypeOK'
  BY DEF TypeOK
<1>2. ProvOK'
  BY DEF ProvOK, TypeOK
<1>3. HoldOK'
  <2> SUFFICES ASSUME ~slow, NEW b \in Instance
               PROVE  /\ Holding(b)' => lock' = b /\ age' <= waited'[b]
                      /\ Refreshing(b)' => ~compromised'[b] /\ waited'[b] <= SyncStale
                      /\ ~Refreshing(b)' => waited'[b] = 0
    BY DEF HoldOK
  <2> QED
    BY DEF HoldOK, Holding, Refreshing, TypeOK
<1>4. GotOK' /\ FileKept'
  BY DEF GotOK, FileKept, Reads, TypeOK
<1> QED
  BY <1>1, <1>2, <1>3, <1>4

LEMMA LockSyncIInv == ASSUME IInv, NEW a \in Instance, LockSync(a) PROVE IInv'
<1> USE DEF IInv, Leave, Return, Go, DropLock, TakeLock, local, lease, server, ghosts, LockSync
<1>0. file \in Contents \cup {Torn}
  BY DEF ProvOK, TypeOK
<1>1. TypeOK'
  BY <1>0 DEF TypeOK
<1>2. ProvOK'
  BY DEF ProvOK, TypeOK
<1>3. HoldOK'
  <2> SUFFICES ASSUME ~slow, NEW b \in Instance
               PROVE  /\ Holding(b)' => lock' = b /\ age' <= waited'[b]
                      /\ Refreshing(b)' => ~compromised'[b] /\ waited'[b] <= SyncStale
                      /\ ~Refreshing(b)' => waited'[b] = 0
    BY DEF HoldOK
  <2>1. ~Holding(b)
    BY FreeMeansNoHolder
  <2>2. waited'[b] = 0
    BY <2>1 DEF HoldOK, Holding
  <2>3. (Refreshing(b)' => b # a /\ Refreshing(b)) /\ (Holding(b)' => b = a \/ Holding(b))
    BY DEF Holding, Refreshing, TypeOK
  <2> QED
    BY <2>1, <2>2, <2>3 DEF Holding
<1>4. GotOK' /\ FileKept'
  BY DEF GotOK, FileKept, Reads, TypeOK
<1> QED
  BY <1>1, <1>2, <1>3, <1>4

LEMMA LockSyncFailsIInv == ASSUME IInv, NEW a \in Instance, LockSyncFails(a) PROVE IInv'
<1> USE DEF IInv, Leave, Return, Go, DropLock, TakeLock, local, lease, server, ghosts, LockSyncFails
<1>1. TypeOK'
  BY EmptyType DEF TypeOK
<1>2. ProvOK'
  BY DEF ProvOK, TypeOK
<1>3. HoldOK'
  <2> SUFFICES ASSUME ~slow, NEW b \in Instance
               PROVE  /\ Holding(b)' => lock' = b /\ age' <= waited'[b]
                      /\ Refreshing(b)' => ~compromised'[b] /\ waited'[b] <= SyncStale
                      /\ ~Refreshing(b)' => waited'[b] = 0
    BY DEF HoldOK
  <2> QED
    BY DEF HoldOK, Holding, Refreshing, TypeOK
<1>4. GotOK' /\ FileKept'
  BY DEF GotOK, FileKept, Reads, TypeOK
<1> QED
  BY <1>1, <1>2, <1>3, <1>4

LEMMA ReloadIInv == ASSUME IInv, NEW a \in Instance, Reload(a) PROVE IInv'
<1> USE DEF IInv
<1>1. /\ pc[a] = "locked" /\ job[a] # "change" /\ lock' = None /\ age' = 0
      /\ UNCHANGED <<fresh, grants, current, file, stored, cut, undone, crashes, slow>>
  BY DEF Reload, DropLock, server, ghosts
<1>2. /\ loadError' \in [Instance -> BOOLEAN]
      /\ data' \in [Instance -> Contents]
  BY DEF Reload, TypeOK
<1>3. \/ Leave(a, "idle", "none")
      \/ /\ job[a] = "load before change"
         /\ \E label \in {"creating", "locking"} :
              pc' = [pc EXCEPT ![a] = label] /\ (file = Absent => label = "creating")
         /\ job' = [job EXCEPT ![a] = "change"]
         /\ UNCHANGED <<prov, want, got, compromised, waited, touched>>
  BY DEF Reload, Return, Go, Ensured
<1>4. TypeOK'
  <2>1. CASE Leave(a, "idle", "none")
    BY <1>1, <1>2, <2>1, LeaveType DEF TypeOK
  <2>2. CASE ~Leave(a, "idle", "none")
    BY <1>1, <1>2, <1>3, <2>2 DEF TypeOK
  <2> QED
    BY <2>1, <2>2
<1>5. \A b \in Instance :
        /\ b # a => /\ pc'[b] = pc[b] /\ job'[b] = job[b] /\ prov'[b] = prov[b]
                    /\ got'[b] = got[b] /\ waited'[b] = waited[b]
                    /\ compromised'[b] = compromised[b]
        /\ b = a => /\ pc'[b] \in {"idle", "creating", "locking"} /\ waited'[b] \in {0, waited[b]}
                    /\ pc'[b] = "creating" => job'[b] = "change"
                    /\ pc'[b] = "locking" => file # Absent
                    /\ job'[b] # "none" => job[b] = "load before change" /\ prov'[b] = prov[b]
  <2>1. CASE Leave(a, "idle", "none")
    BY <2>1, LeaveEffect
  <2>2. CASE ~Leave(a, "idle", "none")
    BY <1>3, <2>2 DEF TypeOK
  <2> QED
    BY <2>1, <2>2
<1>6. ProvOK'
  BY <1>1, <1>5 DEF ProvOK
<1>7. HoldOK'
  <2> SUFFICES ASSUME ~slow, NEW b \in Instance
               PROVE  /\ Holding(b)' => lock' = b /\ age' <= waited'[b]
                      /\ Refreshing(b)' => ~compromised'[b] /\ waited'[b] <= SyncStale
                      /\ ~Refreshing(b)' => waited'[b] = 0
    BY <1>1 DEF HoldOK
  <2>1. lock = a
    BY <1>1 DEF HoldOK, Holding
  <2> QED
    BY <1>1, <1>5, <2>1 DEF HoldOK, Holding, Refreshing
<1>8. GotOK' /\ FileKept'
  BY <1>1, <1>5 DEF GotOK, FileKept, Reads
<1> QED
  BY <1>4, <1>6, <1>7, <1>8

LEMMA PersistIInv == ASSUME IInv, NEW a \in Instance, Persist(a) PROVE IInv'
<1> USE DEF IInv
<1>1. /\ pc[a] = "locked" /\ job[a] = "change" /\ lock' = None /\ age' = 0
      /\ Leave(a, "idle", "none")
      /\ UNCHANGED <<fresh, grants, current, cut, crashes, slow>>
  BY DEF Persist, DropLock, Return, server
<1>2. CASE got[a] = Torn
  <2>1. UNCHANGED <<file, data, loadError, stored, undone>>
    BY <1>2 DEF Persist
  <2>2. TypeOK'
    BY <1>1, <2>1, LeaveType DEF TypeOK
  <2>3. ProvOK' /\ GotOK' /\ FileKept'
    BY <1>1, <2>1, LeaveEffect DEF ProvOK, GotOK, FileKept, Reads
  <2>4. HoldOK'
    BY <1>1, LeaveEffect DEF HoldOK, Holding, Refreshing
  <2> QED
    BY <2>2, <2>3, <2>4
<1>3. CASE got[a] # Torn
  <2>1. /\ file' = Merged(a)
        /\ data' = [data EXCEPT ![a] = Merged(a)]
        /\ loadError' = [loadError EXCEPT ![a] = FALSE]
        /\ stored' = [stored EXCEPT ![prov[a]] = want[a].grant]
        /\ undone' = undone \ {prov[a]}
    BY <1>3 DEF Persist
  <2>2. /\ got[a] \in Contents /\ prov[a] \in Provider /\ Merged(a) \in Contents
        /\ \A p \in Provider : Merged(a)[p].grant =
             IF p = prov[a] THEN want[a].grant ELSE got[a][p].grant
    BY <1>1, <1>3, MergedType
  <2>3. want[a].grant \in Grant
    BY DEF TypeOK, Cred
  <2>4. TypeOK'
    BY <1>1, <2>1, <2>2, <2>3, LeaveType DEF TypeOK
  <2>5. ProvOK'
    BY <1>1, <2>1, <2>2, LeaveEffect DEF ProvOK
  <2>6. ~slow => /\ lock = a /\ Keeps(got[a], stored, undone)
                 /\ \A b \in Instance : Holding(b) => b = a
    <3>1. Holding(a) /\ Reads(a)
      BY <1>1 DEF Holding, Reads
    <3>2. ~slow => lock = a /\ Keeps(got[a], stored, undone)
      BY <1>1, <3>1 DEF HoldOK, GotOK
    <3>3. ~slow => \A b \in Instance : Holding(b) => b = a
      BY <3>1, OneHolder
    <3> QED
      BY <3>2, <3>3
  <2>7. HoldOK'
    BY <1>1, <2>6, LeaveEffect DEF HoldOK, Holding, Refreshing
  <2>8. GotOK'
    <3>1. ~slow => \A b \in Instance : ~Reads(b)'
      BY <1>1, <2>6, LeaveEffect DEF Reads, Holding, Refreshing
    <3> QED
      BY <1>1, <3>1 DEF GotOK
  <2>9. FileKept'
    <3> SUFFICES ASSUME ~slow, NEW p \in Provider
                 PROVE  \/ GrantIn(file', p) = stored'[p]
                        \/ GrantIn(file', p) = 0 /\ p \in undone'
      BY <1>1 DEF FileKept, Keeps
    <3>1. GrantIn(file', p) = Merged(a)[p].grant /\ GrantIn(got[a], p) = got[a][p].grant
      BY <2>1, <2>2 DEF GrantIn
    <3>2. \/ GrantIn(got[a], p) = stored[p]
          \/ GrantIn(got[a], p) = 0 /\ p \in undone
      BY <2>6 DEF Keeps
    <3>3. stored'[p] = IF p = prov[a] THEN want[a].grant ELSE stored[p]
      BY <2>1, <2>2 DEF TypeOK
    <3> QED
      BY <2>1, <2>2, <3>1, <3>2, <3>3
  <2> QED
    BY <2>4, <2>5, <2>7, <2>8, <2>9
<1> QED
  BY <1>2, <1>3

LEMMA LockAsyncIInv == ASSUME IInv, NEW a \in Instance, LockAsync(a) PROVE IInv'
<1> USE DEF IInv
<1>1. /\ pc[a] = "waiting" /\ LockIsFree(AsyncStale) /\ lock' = a /\ age' = 0
      /\ compromised' = [compromised EXCEPT ![a] = FALSE]
      /\ waited' = [waited EXCEPT ![a] = 0]
      /\ touched' = [touched EXCEPT ![a] = 0]
      /\ got' = [got EXCEPT ![a] = file]
      /\ UNCHANGED <<job, prov, want, fresh, grants, current, file, stored, cut, undone,
                     crashes, slow>>
  BY DEF LockAsync, TakeLock, server, ghosts
<1>0. file \in Contents \cup {Torn}
  BY <1>1 DEF ProvOK, TypeOK
<1>2. /\ data' \in [Instance -> Contents]
      /\ loadError' \in [Instance -> BOOLEAN]
  <2>1. CASE file = Torn
    BY <2>1 DEF LockAsync, TypeOK
  <2>2. CASE file # Torn
    <3>1. /\ data' = [data EXCEPT ![a] = file]
          /\ loadError' = [loadError EXCEPT ![a] = FALSE]
      BY <2>2 DEF LockAsync
    <3> QED
      BY <1>0, <2>2, <3>1 DEF TypeOK
  <2> QED
    BY <2>1, <2>2
<1>3. /\ pc'[a] \in {"refreshing", "failed", "done"}
      /\ pc' = [pc EXCEPT ![a] = pc'[a]]
      /\ pc'[a] = "refreshing" => file # Torn
  BY DEF LockAsync, TypeOK, Go
<1>4. TypeOK'
  BY <1>0, <1>1, <1>2, <1>3 DEF TypeOK
<1>5. ProvOK'
  BY <1>1, <1>3 DEF ProvOK, TypeOK
<1>6. HoldOK'
  <2> SUFFICES ASSUME ~slow, NEW b \in Instance
               PROVE  /\ Holding(b)' => lock' = b /\ age' <= waited'[b]
                      /\ Refreshing(b)' => ~compromised'[b] /\ waited'[b] <= SyncStale
                      /\ ~Refreshing(b)' => waited'[b] = 0
    BY <1>1 DEF HoldOK
  <2>1. ~Holding(b)
    BY <1>1, FreeMeansNoHolder
  <2>2. waited'[b] = 0
    BY <1>1, <2>1 DEF HoldOK, Holding, TypeOK
  <2>3. b # a => ~Holding(b)' /\ ~Refreshing(b)'
    BY <1>1, <1>3, <2>1 DEF Holding, Refreshing, TypeOK
  <2>4. ~compromised'[a]
    BY <1>1 DEF TypeOK
  <2> QED
    BY <1>1, <2>2, <2>3, <2>4
<1>7. GotOK' /\ FileKept'
  BY <1>1, <1>3 DEF GotOK, FileKept, Reads, TypeOK
<1> QED
  BY <1>4, <1>5, <1>6, <1>7

LEMMA LockAsyncFailsIInv == ASSUME IInv, NEW a \in Instance, LockAsyncFails(a) PROVE IInv'
<1> USE DEF IInv, Leave, Return, Go, DropLock, TakeLock, local, lease, server, ghosts, LockAsyncFails, Ensured
<1>1. TypeOK'
  BY EmptyType DEF TypeOK
<1>2. ProvOK'
  BY DEF ProvOK, TypeOK
<1>3. HoldOK'
  <2> SUFFICES ASSUME ~slow, NEW b \in Instance
               PROVE  /\ Holding(b)' => lock' = b /\ age' <= waited'[b]
                      /\ Refreshing(b)' => ~compromised'[b] /\ waited'[b] <= SyncStale
                      /\ ~Refreshing(b)' => waited'[b] = 0
    BY DEF HoldOK
  <2> QED
    BY DEF HoldOK, Holding, Refreshing, TypeOK
<1>4. GotOK' /\ FileKept'
  BY DEF GotOK, FileKept, Reads, TypeOK
<1> QED
  BY <1>1, <1>2, <1>3, <1>4

LEMMA ServerRotatesIInv == ASSUME IInv, NEW a \in Instance, ServerRotates(a) PROVE IInv'
<1> USE DEF IInv, Leave, Return, Go, DropLock, TakeLock, local, lease, server, ghosts, ServerRotates
<1>1. TypeOK'
  <2>1. InHand(a).grant \in Grant /\ NextToken(a) \in Cred
    BY InHandType
  <2>2. fresh' \subseteq Cred /\ current' \in [Grant -> Nat]
    <3>1. current \in [Grant -> Nat] /\ fresh \subseteq Cred
      BY DEF TypeOK
    <3>2. /\ current' = [current EXCEPT ![InHand(a).grant] = current[InHand(a).grant] + 1]
          /\ fresh' = fresh \cup {NextToken(a)}
      BY DEF ServerRotates
    <3>3. current[InHand(a).grant] + 1 \in Nat
      BY <2>1, <3>1
    <3> QED
      BY <2>1, <3>1, <3>2, <3>3
  <2> QED
    BY <2>2 DEF TypeOK
<1>2. ProvOK'
  BY DEF ProvOK, TypeOK
<1>3. HoldOK'
  <2> SUFFICES ASSUME ~slow, NEW b \in Instance
               PROVE  /\ Holding(b)' => lock' = b /\ age' <= waited'[b]
                      /\ Refreshing(b)' => ~compromised'[b] /\ waited'[b] <= SyncStale
                      /\ ~Refreshing(b)' => waited'[b] = 0
    BY DEF HoldOK
  <2> QED
    BY DEF HoldOK, Holding, Refreshing, TypeOK
<1>4. GotOK' /\ FileKept'
  BY DEF GotOK, FileKept, Reads, TypeOK
<1> QED
  BY <1>1, <1>2, <1>3, <1>4

LEMMA ServerRefusesIInv == ASSUME IInv, NEW a \in Instance, ServerRefuses(a) PROVE IInv'
<1> USE DEF IInv, Leave, Return, Go, DropLock, TakeLock, local, lease, server, ghosts, ServerRefuses
<1>1. TypeOK'
  BY EmptyType DEF TypeOK
<1>2. ProvOK'
  BY DEF ProvOK, TypeOK
<1>3. HoldOK'
  <2> SUFFICES ASSUME ~slow, NEW b \in Instance
               PROVE  /\ Holding(b)' => lock' = b /\ age' <= waited'[b]
                      /\ Refreshing(b)' => ~compromised'[b] /\ waited'[b] <= SyncStale
                      /\ ~Refreshing(b)' => waited'[b] = 0
    BY DEF HoldOK
  <2> QED
    BY DEF HoldOK, Holding, Refreshing, TypeOK
<1>4. GotOK' /\ FileKept'
  BY DEF GotOK, FileKept, Reads, TypeOK
<1> QED
  BY <1>1, <1>2, <1>3, <1>4

LEMMA AnswerLostIInv == ASSUME IInv, NEW a \in Instance, AnswerLost(a) PROVE IInv'
<1> USE DEF IInv, Leave, Return, Go, DropLock, TakeLock, local, lease, server, ghosts, AnswerLost
<1>1. TypeOK'
  <2>1. InHand(a).grant \in Grant
    BY InHandType
  <2> QED
    BY <2>1 DEF TypeOK
<1>2. ProvOK'
  BY DEF ProvOK, TypeOK
<1>3. HoldOK'
  <2> SUFFICES ASSUME ~slow, NEW b \in Instance
               PROVE  /\ Holding(b)' => lock' = b /\ age' <= waited'[b]
                      /\ Refreshing(b)' => ~compromised'[b] /\ waited'[b] <= SyncStale
                      /\ ~Refreshing(b)' => waited'[b] = 0
    BY DEF HoldOK
  <2> QED
    BY DEF HoldOK, Holding, Refreshing, TypeOK
<1>4. GotOK' /\ FileKept'
  BY DEF GotOK, FileKept, Reads, TypeOK
<1> QED
  BY <1>1, <1>2, <1>3, <1>4

LEMMA SaveRefreshedIInv == ASSUME IInv, NEW a \in Instance, SaveRefreshed(a) PROVE IInv'
<1> USE DEF IInv, Leave, Return, Go, DropLock, TakeLock, local, lease, server, ghosts, SaveRefreshed
<1>0. /\ Rotated(a) \in Contents /\ Rotated(a) # Absent
      /\ \A p \in Provider : Rotated(a)[p].grant = got[a][p].grant
  BY InHandType
<1>1. TypeOK'
  BY <1>0 DEF TypeOK
<1>2. ProvOK'
  BY <1>0 DEF ProvOK, TypeOK
<1>3. HoldOK'
  <2> SUFFICES ASSUME ~slow, NEW b \in Instance
               PROVE  /\ Holding(b)' => lock' = b /\ age' <= waited'[b]
                      /\ Refreshing(b)' => ~compromised'[b] /\ waited'[b] <= SyncStale
                      /\ ~Refreshing(b)' => waited'[b] = 0
    BY DEF HoldOK
  <2> QED
    BY DEF HoldOK, Holding, Refreshing, TypeOK
<1>4. GotOK' /\ FileKept'
  <2> SUFFICES ASSUME ~slow PROVE GotOK' /\ FileKept'
    BY DEF GotOK, FileKept, Reads
  <2>1. Holding(a) /\ Keeps(got[a], stored, undone) /\ ~compromised[a]
    BY DEF Holding, Refreshing, GotOK, Reads, HoldOK
  <2>2. \A b \in Instance : Holding(b) => b = a
    BY <2>1, OneHolder
  <2>3. GotOK'
    <3>1. \A b \in Instance : ~Reads(b)'
      BY <2>1, <2>2 DEF Reads, Holding, Refreshing, TypeOK
    <3> QED
      BY <3>1 DEF GotOK
  <2>4. FileKept'
    <3>1. file' = Rotated(a) /\ stored' = stored /\ undone' = undone
      BY <2>1
    <3>2. got[a] \in Contents
      BY InHandType
    <3>3. \A p \in Provider : GrantIn(Rotated(a), p) = GrantIn(got[a], p)
      BY <1>0, <3>2 DEF GrantIn
    <3> QED
      BY <2>1, <3>1, <3>3 DEF FileKept, Keeps
  <2> QED
    BY <2>3, <2>4
<1> QED
  BY <1>1, <1>2, <1>3, <1>4

LEMMA ReleaseIInv == ASSUME IInv, NEW a \in Instance, Release(a) PROVE IInv'
<1> USE DEF IInv
<1>1. /\ Refreshing(a)
      /\ lock' = lock \/ lock' = None
      /\ age' = age \/ age' = 0
      /\ UNCHANGED <<data, loadError, fresh, grants, current, file, stored, cut, undone, crashes, slow>>
  BY DEF Release, DropLock, Refreshing, server, ghosts
<1>2. PICK label \in {"idle", "creating", "locking"}, next \in {"none", "reload"} :
        /\ Leave(a, label, next)
        /\ label = "creating" => next = "reload"
        /\ label = "locking" => file # Absent
  BY DEF Release, Return, Ensured
<1>3. TypeOK'
  <2>1. lock' \in Instance \cup {None}
    BY <1>1 DEF TypeOK
  <2>2. age' \in Nat
    <3>1. age \in Nat
      BY DEF TypeOK
    <3> HIDE DEF IInv
    <3> QED
      BY <1>1, <3>1
  <2> QED
    <3>1. label \in {"idle", "creating", "locking", "down"}
      OBVIOUS
    <3>2. Leave(a, label, next)
      BY <1>2
    <3>3. /\ pc' \in [Instance -> {"idle", "creating", "locking", "locked", "waiting", "refreshing",
                                   "answered", "failed", "done", "down"}]
          /\ job' \in [Instance -> {"none", "reload", "load before change", "change"}]
          /\ prov' \in [Instance -> Provider \cup {None}]
          /\ want' \in [Instance -> Cred]
          /\ got' \in [Instance -> Contents \cup {Torn}]
          /\ compromised' \in [Instance -> BOOLEAN]
          /\ waited' \in [Instance -> Nat]
          /\ touched' \in [Instance -> Nat]
      BY <3>1, <3>2, LeaveType
    <3> QED
      BY <1>1, <2>1, <2>2, <3>3 DEF TypeOK
<1>4. /\ pc'[a] = label /\ job'[a] = next /\ ~compromised'[a] /\ waited'[a] = 0
      /\ \A b \in Instance \ {a} :
           /\ pc'[b] = pc[b] /\ job'[b] = job[b] /\ prov'[b] = prov[b]
           /\ got'[b] = got[b] /\ waited'[b] = waited[b]
           /\ compromised'[b] = compromised[b]
  BY <1>2, LeaveEffect
<1>5. ProvOK'
  BY <1>1, <1>2, <1>4 DEF ProvOK
<1>6. HoldOK'
  <2> SUFFICES ASSUME ~slow, NEW b \in Instance
               PROVE  /\ Holding(b)' => lock' = b /\ age' <= waited'[b]
                      /\ Refreshing(b)' => ~compromised'[b] /\ waited'[b] <= SyncStale
                      /\ ~Refreshing(b)' => waited'[b] = 0
    BY <1>1 DEF HoldOK
  <2>1. Holding(b) => b = a
    BY <1>1, OneHolder DEF Holding
  <2> QED
    BY <1>4, <2>1 DEF HoldOK, Holding, Refreshing
<1>7. GotOK' /\ FileKept'
  BY <1>1, <1>4 DEF GotOK, FileKept, Reads
<1> QED
  BY <1>3, <1>5, <1>6, <1>7

LEMMA CrashIInv == ASSUME IInv, NEW a \in Instance, Crash(a) PROVE IInv'
<1> USE DEF IInv, Leave, Return, Go, DropLock, TakeLock, local, lease, server, ghosts, Crash
<1>1. TypeOK'
  <2>1. cut' \subseteq Grant
    BY InHandType DEF TypeOK
  <2>2. data' \in [Instance -> Contents] /\ loadError' \in [Instance -> BOOLEAN]
    BY EmptyType DEF TypeOK
  <2>3. crashes' \in Nat
    <3>1. crashes \in Nat /\ crashes' = crashes + 1
      BY DEF TypeOK
    <3> HIDE DEF IInv, Crash
    <3> QED
      BY <3>1
  <2>4. Leave(a, "down", "none")
    BY DEF Crash
  <2> QED
    BY <2>1, <2>2, <2>3, <2>4, LeaveType DEF TypeOK
<1>2. ProvOK'
  BY DEF ProvOK, TypeOK
<1>3. HoldOK'
  <2> SUFFICES ASSUME ~slow, NEW b \in Instance
               PROVE  /\ Holding(b)' => lock' = b /\ age' <= waited'[b]
                      /\ Refreshing(b)' => ~compromised'[b] /\ waited'[b] <= SyncStale
                      /\ ~Refreshing(b)' => waited'[b] = 0
    BY DEF HoldOK
  <2> QED
    BY DEF HoldOK, Holding, Refreshing, TypeOK
<1>4. GotOK' /\ FileKept'
  BY DEF GotOK, FileKept, Reads, TypeOK
<1> QED
  BY <1>1, <1>2, <1>3, <1>4

LEMMA CrashInWriteIInv == ASSUME IInv, NEW a \in Instance, CrashInWrite(a) PROVE IInv'
<1> USE DEF IInv, Leave, Return, Go, DropLock, TakeLock, local, lease, server, ghosts, CrashInWrite
<1>1. /\ file' \in {Torn, Empty} /\ file' # Absent /\ undone' = Undone
      /\ crashes' = crashes + 1
      /\ Leave(a, "down", "none")
      /\ UNCHANGED <<stored, slow>>
  BY EmptyType
<1>2. TypeOK'
  <2>1. crashes' \in Nat /\ file' \in Contents \cup {Torn} /\ undone' \subseteq Provider
    <3>1. crashes \in Nat /\ Undone \subseteq Provider
      BY DEF TypeOK, Undone
    <3> HIDE DEF IInv, CrashInWrite
    <3> QED
      BY <1>1, <3>1, EmptyType
  <2> QED
    BY <2>1, EmptyType DEF TypeOK
<1>3. ProvOK'
  BY <1>1 DEF ProvOK, TypeOK
<1>4. HoldOK'
  <2> SUFFICES ASSUME ~slow, NEW b \in Instance
               PROVE  /\ Holding(b)' => lock' = b /\ age' <= waited'[b]
                      /\ Refreshing(b)' => ~compromised'[b] /\ waited'[b] <= SyncStale
                      /\ ~Refreshing(b)' => waited'[b] = 0
    BY DEF HoldOK
  <2> QED
    BY DEF HoldOK, Holding, Refreshing, TypeOK
<1>5. GotOK' /\ FileKept'
  <2> SUFFICES ASSUME ~slow PROVE GotOK' /\ FileKept'
    BY <1>1 DEF GotOK, FileKept
  <2>1. /\ undone \subseteq Undone
        /\ \A content \in {Empty, Torn} : Keeps(content, stored, Undone)
    BY KeepsNothing DEF FileKept
  <2>2. FileKept'
    BY <1>1, <2>1 DEF FileKept
  <2>3. ASSUME NEW b \in Instance, Reads(b)' PROVE Reads(b) /\ got'[b] = got[b]
    BY <2>3 DEF Reads, TypeOK
  <2>4. ASSUME NEW b \in Instance, Reads(b) PROVE Keeps(got[b], stored, Undone)
    BY <2>1, <2>4, KeepsMore DEF GotOK
  <2>5. GotOK'
    BY <1>1, <2>3, <2>4 DEF GotOK
  <2> QED
    BY <2>2, <2>5
<1> QED
  BY <1>2, <1>3, <1>4, <1>5

LEMMA RestartIInv == ASSUME IInv, NEW a \in Instance, Restart(a) PROVE IInv'
<1> USE DEF IInv, Leave, Return, Go, DropLock, TakeLock, local, lease, server, ghosts, Restart, Ensured
<1>1. TypeOK'
  BY EmptyType DEF TypeOK
<1>2. ProvOK'
  BY DEF ProvOK, TypeOK
<1>3. HoldOK'
  <2> SUFFICES ASSUME ~slow, NEW b \in Instance
               PROVE  /\ Holding(b)' => lock' = b /\ age' <= waited'[b]
                      /\ Refreshing(b)' => ~compromised'[b] /\ waited'[b] <= SyncStale
                      /\ ~Refreshing(b)' => waited'[b] = 0
    BY DEF HoldOK
  <2> QED
    BY DEF HoldOK, Holding, Refreshing, TypeOK
<1>4. GotOK' /\ FileKept'
  BY DEF GotOK, FileKept, Reads, TypeOK
<1> QED
  BY <1>1, <1>2, <1>3, <1>4

LEMMA StepIInv == IInv /\ [Next]_avars => IInv'
<1> SUFFICES ASSUME IInv, [Next]_avars PROVE IInv'
  OBVIOUS
<1>1. CASE Tick
  BY <1>1, TickIInv
<1>2. CASE \E t \in fresh : Expire(t)
  <2>1. /\ fresh' \subseteq fresh
        /\ UNCHANGED <<pc, job, prov, want, got, data, loadError, compromised, waited,
                       touched, file, lock, age, grants, current, stored, cut, undone, crashes, slow>>
    BY <1>2 DEF Expire, local, lease, ghosts
  <2>2. TypeOK'
    BY <2>1 DEF IInv, TypeOK
  <2>3. ProvOK' /\ GotOK' /\ FileKept'
    BY <2>1 DEF IInv, ProvOK, GotOK, FileKept, Reads
  <2>4. HoldOK'
    BY <2>1 DEF IInv, HoldOK, Holding, Refreshing
  <2> QED
    BY <2>2, <2>3, <2>4 DEF IInv
<1>3. ASSUME NEW a \in Instance, NEW p \in Provider,
             Login(a, p) \/ Logout(a, p) \/ GetApiKey(a, p)
      PROVE  IInv'
  BY <1>3, LoginIInv, LogoutIInv, GetApiKeyIInv
<1>4. ASSUME NEW a \in Instance,
             \/ UpdateLock(a) \/ CreateFile(a) \/ LockSync(a) \/ LockSyncFails(a) \/ Reload(a) \/ Persist(a)
             \/ LockAsync(a) \/ LockAsyncFails(a)
      PROVE  IInv'
  BY <1>4, UpdateIInv, CreateFileIInv, LockSyncIInv, LockSyncFailsIInv, ReloadIInv, PersistIInv,
     LockAsyncIInv, LockAsyncFailsIInv
<1>5. ASSUME NEW a \in Instance,
             \/ ServerRotates(a) \/ ServerRefuses(a) \/ AnswerLost(a) \/ SaveRefreshed(a)
             \/ Release(a)
      PROVE  IInv'
  BY <1>5, ServerRotatesIInv, ServerRefusesIInv, AnswerLostIInv, SaveRefreshedIInv,
     ReleaseIInv
<1>6. ASSUME NEW a \in Instance, Crash(a) \/ CrashInWrite(a) \/ Restart(a)
      PROVE  IInv'
  BY <1>6, CrashIInv, CrashInWriteIInv, RestartIInv
<1>7. CASE UNCHANGED avars
  <2>1. UNCHANGED <<pc, job, prov, want, got, data, loadError, compromised, waited,
                    touched, file, lock, age, fresh, grants, current, stored, cut, undone, crashes, slow>>
    BY <1>7 DEF avars, local, lease, server, ghosts
  <2>2. TypeOK'
    BY <2>1 DEF IInv, TypeOK
  <2>3. ProvOK' /\ GotOK' /\ FileKept'
    BY <2>1 DEF IInv, ProvOK, GotOK, FileKept, Reads
  <2>4. HoldOK'
    BY <2>1 DEF IInv, HoldOK, Holding, Refreshing
  <2> QED
    BY <2>2, <2>3, <2>4 DEF IInv
<1> QED
  BY <1>1, <1>2, <1>3, <1>4, <1>5, <1>6, <1>7 DEF Next

LEMMA Invariant == Spec => []IInv
  BY InitIInv, StepIInv, PTL DEF Spec

\* One request per token, as long as no refresh outlasts SyncStale: the
\* comment at auth-storage.ts:423-424, for any number of instances.
THEOREM RefreshesExclude == Spec => []RefreshedOnce
<1>1. IInv => RefreshedOnce
  BY OneHolder DEF IInv, RefreshedOnce, OneRefreshPerToken, Holding, Refreshing
<1> QED
  BY <1>1, Invariant, PTL

\* No login or logout is undone by another instance.
THEOREM LoginsAreKept == Spec => []LoginKept
<1>1. IInv => LoginKept
  BY DEF IInv, FileKept, Keeps, LoginKept
<1> QED
  BY <1>1, Invariant, PTL


-----------------------------------------------------------------------------
(* Rotations.  A second invariant, on top of the first: which grants are    *)
(* where, and what an answer in hand says of the server.                   *)

\* What the file holds, and what it may hold next: a file emptied under a
\* holder is written from what the holder has read.
Live == ({file} \cup {got[a] : a \in {b \in Instance : Reads(b)}}) \ {Torn, Absent}

\* A grant is stored once: by the login that has yet to save it, or under one
\* provider of a content.  A grant nobody saved has not been used.
GrantsOK ==
  /\ \A g \in Grant : g > grants => current[g] = 0
  /\ \A a \in Instance : want[a].grant # 0 =>
       /\ want[a].grant <= grants
       /\ want[a].n = 0
       /\ current[want[a].grant] = 0
       /\ \A c \in Live, p \in Provider : c[p].grant # want[a].grant
       /\ \A b \in Instance \ {a} : want[b].grant # want[a].grant
  /\ \A c \in Live, p \in Provider :
       /\ c[p].grant <= grants
       /\ \A q \in Provider \ {p} : c[q].grant = c[p].grant => c[p].grant = 0

\* An answer in hand is the last one the server gave for its grant.
AnsweredOK ==
  \A a \in Instance : pc[a] = "answered" => current[InHand(a).grant] = InHand(a).n + 1

InAnswer(g) == \E a \in Instance : pc[a] = "answered" /\ InHand(a).grant = g

\* RotationSaved, of each content.
RotationsOK ==
  \A c \in Live, p \in Provider : c[p].grant # 0 =>
    c[p].n = current[c[p].grant] \/ c[p].grant \in cut \/ InAnswer(c[p].grant)

RInv == slow \/ (GrantsOK /\ AnsweredOK /\ RotationsOK)

LEMMA GoEffect ==
  ASSUME TypeOK, NEW a \in Instance, NEW label, Go(a, label)
  PROVE  pc'[a] = label /\ \A b \in Instance \ {a} : pc'[b] = pc[b]
  BY DEF TypeOK, Go

LEMMA GrantType == Grant \subseteq Nat
  BY DEF Grant

LEMMA ContentType ==
  ASSUME NEW c \in Contents, NEW p \in Provider
  PROVE  c[p].grant \in Grant /\ c[p].grant \in Nat /\ c[p].n \in Nat
<1>1. c[p] \in [grant : Grant, n : Nat]
  BY DEF Contents, Cred
<1> QED
  BY <1>1, GrantType

LEMMA LiveType == ASSUME TypeOK PROVE Live \subseteq Contents
<1>1. file \in Contents \cup {Torn, Absent} /\ \A a \in Instance : got[a] \in Contents \cup {Torn}
  BY DEF TypeOK
<1> QED
  BY <1>1 DEF Live

LEMMA WantType ==
  ASSUME TypeOK, NEW a \in Instance
  PROVE  want[a].grant \in Grant /\ want[a].grant \in Nat
<1>1. want[a] \in [grant : Grant, n : Nat]
  BY DEF TypeOK, Cred
<1> QED
  BY <1>1, GrantType

\* No content comes to live but the empty one where the file is left alone or
\* truncated, and who begins to read reads the file.
LEMMA LiveStays ==
  ASSUME file' \in {file, Torn, Empty},
         \A b \in Instance : Reads(b)' => got'[b] = file \/ (Reads(b) /\ got'[b] = got[b])
  PROVE  \A c \in Live' : c \in Live \/ c = Empty
  BY DEF Live

\* Most steps leave the file and the server alone, or truncate the file:
\* they store no grant, and whoever gives up an answer records it as cut.
LEMMA QuietStep ==
  ASSUME IInv, RInv,
         slow => slow',
         UNCHANGED <<current, grants>>,
         cut \subseteq cut',
         \A c \in Live' : c \in Live \/ c = Empty,
         \A b \in Instance : want'[b] = want[b] \/ want'[b] = NoCred,
         \A b \in Instance : pc'[b] = "answered" =>
           pc[b] = "answered" /\ got'[b] = got[b] /\ prov'[b] = prov[b],
         \A b \in Instance : ~slow' /\ pc[b] = "answered" =>
           \/ Live' \subseteq {Empty}
           \/ pc'[b] = "answered" /\ got'[b] = got[b] /\ prov'[b] = prov[b]
           \/ InHand(b).grant \in cut'
  PROVE  RInv'
<1> SUFFICES ASSUME ~slow' PROVE GrantsOK' /\ AnsweredOK' /\ RotationsOK'
  BY DEF RInv
<1>1. ~slow /\ GrantsOK /\ AnsweredOK /\ RotationsOK
  BY DEF RInv
<1>2. NoCred.grant = 0 /\ \A p \in Provider : Empty[p].grant = 0
  BY DEF NoCred, Empty
<1>3. \A c \in Live', p \in Provider : c[p].grant = 0 \/ c \in Live
  BY <1>2
<1>4. grants \in Nat
  BY GrantType DEF IInv, TypeOK
<1>5. GrantsOK'
  <2>1. ASSUME NEW a \in Instance, want'[a].grant # 0
        PROVE  /\ want'[a].grant <= grants'
               /\ want'[a].n = 0
               /\ current'[want'[a].grant] = 0
               /\ \A c \in Live', p \in Provider : c[p].grant # want'[a].grant
               /\ \A b \in Instance \ {a} : want'[b].grant # want'[a].grant
    <3>1. want'[a] = want[a]
      BY <1>2, <2>1
    <3>2. /\ want[a].grant <= grants /\ want[a].n = 0 /\ current[want[a].grant] = 0
          /\ \A c \in Live, p \in Provider : c[p].grant # want[a].grant
          /\ \A b \in Instance \ {a} : want[b].grant # want[a].grant
      BY <1>1, <2>1, <3>1 DEF GrantsOK
    <3>3. \A c \in Live', p \in Provider : c[p].grant # want[a].grant
      BY <1>3, <2>1, <3>1, <3>2
    <3> QED
      BY <1>2, <2>1, <3>1, <3>2, <3>3
  <2>2. ASSUME NEW c \in Live', NEW p \in Provider
        PROVE  /\ c[p].grant <= grants'
               /\ \A q \in Provider \ {p} : c[q].grant = c[p].grant => c[p].grant = 0
    <3>1. CASE c[p].grant = 0
      BY <1>4, <3>1
    <3>2. CASE c \in Live
      BY <1>1, <3>2 DEF GrantsOK
    <3> QED
      BY <1>3, <3>1, <3>2
  <2> QED
    BY <1>1, <2>1, <2>2 DEF GrantsOK
<1>6. AnsweredOK'
  BY <1>1 DEF AnsweredOK, InHand
<1>7. RotationsOK'
  <2> SUFFICES ASSUME NEW c \in Live', NEW p \in Provider, c[p].grant # 0
               PROVE  c[p].n = current'[c[p].grant] \/ c[p].grant \in cut' \/ InAnswer(c[p].grant)'
    BY DEF RotationsOK
  <2>1. c \in Live /\ ~(Live' \subseteq {Empty})
    BY <1>2, <1>3
  <2>2. c[p].n = current[c[p].grant] \/ c[p].grant \in cut \/ InAnswer(c[p].grant)
    BY <1>1, <2>1 DEF RotationsOK
  <2>3. ASSUME InAnswer(c[p].grant) PROVE InAnswer(c[p].grant)' \/ c[p].grant \in cut'
    BY <2>1, <2>3 DEF InAnswer, InHand
  <2> QED
    BY <2>2, <2>3
<1> QED
  BY <1>5, <1>6, <1>7

\* A login takes a number no grant has had.
LEMMA LoginRInv ==
  ASSUME IInv, RInv, NEW a \in Instance, NEW p \in Provider, Login(a, p)
  PROVE  RInv'
<1>1. /\ grants < MaxGrants /\ grants' = grants + 1 /\ current' = current
      /\ pc[a] = "idle"
      /\ want' = [want EXCEPT ![a] = [grant |-> grants', n |-> 0]]
      /\ prov' = [prov EXCEPT ![a] = p]
      /\ Go(a, Ensured("locking"))
      /\ UNCHANGED <<got, file, cut, slow>>
  BY DEF Login, Change, ghosts
<1> SUFFICES ASSUME ~slow PROVE GrantsOK' /\ AnsweredOK' /\ RotationsOK'
  BY <1>1 DEF RInv
<1>2. GrantsOK /\ AnsweredOK /\ RotationsOK /\ TypeOK
  BY DEF RInv, IInv
<1>3. grants \in Nat /\ grants' \in Grant /\ grants' \in Nat /\ grants < grants' /\ grants' # 0
  <2>1. grants \in Grant
    BY <1>2 DEF TypeOK
  <2> QED
    BY <1>1, <2>1, NextGrant DEF Grant
<1>4. /\ want'[a].grant = grants' /\ want'[a].n = 0
      /\ \A b \in Instance \ {a} : want'[b] = want[b]
  BY <1>1, <1>2 DEF TypeOK
<1>5. \A b \in Instance : want[b].grant <= grants /\ want[b].grant \in Nat
  BY <1>2, <1>3, WantType DEF GrantsOK
<1>6. \A c \in Live, q \in Provider : c[q].grant <= grants /\ c[q].grant \in Nat
  BY <1>2, LiveType, ContentType DEF GrantsOK
<1>7. current[grants'] = 0
  BY <1>2, <1>3 DEF GrantsOK
<1>8. /\ pc'[a] \in {"creating", "locking"}
      /\ \A b \in Instance \ {a} : pc'[b] = pc[b]
  BY <1>1, <1>2, GoEffect DEF Ensured
<1>9. \A c \in Live' : c \in Live
  BY <1>1, <1>8 DEF Live, Reads
<1>10. GrantsOK'
  <2>1. \A g \in Grant : g > grants' => current'[g] = 0
    <3> SUFFICES ASSUME NEW g \in Grant, g > grants' PROVE current[g] = 0
      BY <1>1
    <3>1. g > grants
      BY <1>3 DEF Grant
    <3> QED
      BY <1>2, <3>1 DEF GrantsOK
  <2>2. ASSUME NEW b \in Instance, want'[b].grant # 0
        PROVE  /\ want'[b].grant <= grants'
               /\ want'[b].n = 0
               /\ current'[want'[b].grant] = 0
               /\ \A c \in Live', q \in Provider : c[q].grant # want'[b].grant
               /\ \A c \in Instance \ {b} : want'[c].grant # want'[b].grant
    <3>1. CASE b = a
      <4>1. \A c \in Live', q \in Provider : c[q].grant # want'[b].grant
        BY <1>3, <1>4, <1>6, <1>9, <3>1
      <4>2. \A c \in Instance \ {b} : want'[c].grant # want'[b].grant
        BY <1>3, <1>4, <1>5, <3>1
      <4>3. want'[b].grant <= grants' /\ want'[b].n = 0 /\ current'[want'[b].grant] = 0
        BY <1>1, <1>3, <1>4, <1>7, <3>1
      <4> QED
        BY <4>1, <4>2, <4>3
    <3>2. CASE b # a
      <4>1. want'[b] = want[b] /\ want[b].grant # 0
        BY <1>4, <2>2, <3>2
      <4>2. /\ want[b].grant <= grants /\ want[b].n = 0 /\ current[want[b].grant] = 0
            /\ \A c \in Live, q \in Provider : c[q].grant # want[b].grant
            /\ \A c \in Instance \ {b} : want[c].grant # want[b].grant
        BY <1>2, <4>1 DEF GrantsOK
      <4>3. \A c \in Instance \ {b} : want'[c].grant # want'[b].grant
        <5> SUFFICES ASSUME NEW c \in Instance \ {b} PROVE want'[c].grant # want[b].grant
          BY <4>1
        <5>1. CASE c = a
          BY <1>3, <1>4, <1>5, <5>1
        <5>2. CASE c # a
          BY <1>4, <4>2, <5>2
        <5> QED
          BY <5>1, <5>2
      <4>4. want'[b].grant <= grants'
        BY <1>3, <1>5, <4>1
      <4> QED
        BY <1>1, <1>9, <4>1, <4>2, <4>3, <4>4
    <3> QED
      BY <3>1, <3>2
  <2>3. ASSUME NEW c \in Live', NEW q \in Provider
        PROVE  /\ c[q].grant <= grants'
               /\ \A r \in Provider \ {q} : c[r].grant = c[q].grant => c[q].grant = 0
    <3>1. c[q].grant <= grants'
      BY <1>1, <1>3, <1>6, <1>9, <2>3
    <3>2. \A r \in Provider \ {q} : c[r].grant = c[q].grant => c[q].grant = 0
      BY <1>2, <1>9, <2>3 DEF GrantsOK
    <3> QED
      BY <3>1, <3>2
  <2> QED
    BY <2>1, <2>2, <2>3 DEF GrantsOK
<1>11. \A b \in Instance :
         /\ pc'[b] = "answered" <=> pc[b] = "answered"
         /\ pc[b] = "answered" => InHand(b)' = InHand(b)
  BY <1>1, <1>2, <1>8 DEF TypeOK, InHand
<1>12. AnsweredOK'
  BY <1>1, <1>2, <1>11 DEF AnsweredOK
<1>13. RotationsOK'
  BY <1>1, <1>2, <1>9, <1>11 DEF RotationsOK, InAnswer
<1> QED
  BY <1>10, <1>12, <1>13

\* Whoever writes the file holds the lock, and what it read is still there but
\* for a creation that emptied the file.
LEMMA HolderKnows ==
  ASSUME IInv, ~slow, NEW a \in Instance, Reads(a)
  PROVE  /\ \A b \in Instance : Reads(b) => b = a
         /\ \A c \in Live : c = got[a] \/ c = Empty
         /\ got[a] \in Contents => got[a] \in Live
         /\ pc[a] = "answered" => ~compromised[a]
<1>1. \A b \in Instance : Reads(b) => Holding(b)
  BY DEF Reads, Holding, Refreshing
<1>2. \A b \in Instance : Reads(b) => b = a
  BY <1>1, OneHolder DEF IInv
<1>3. got[a] = file \/ file \in {Torn, Empty}
  BY DEF IInv, GotOK
<1>4. \A c \in Live : c = got[a] \/ c = Empty
  BY <1>2, <1>3 DEF Live
<1>5. pc[a] = "answered" => ~compromised[a]
  BY DEF IInv, HoldOK, Refreshing
<1> QED
  BY <1>2, <1>4, <1>5 DEF Live

\* A change puts the grant of a login, unused so far, into the file.
LEMMA PersistRInv == ASSUME IInv, RInv, NEW a \in Instance, Persist(a) PROVE RInv'
<1>1. /\ pc[a] = "locked" /\ job[a] = "change"
      /\ Leave(a, "idle", "none")
      /\ UNCHANGED <<grants, current, cut, slow>>
  BY DEF Persist, Return, server
<1>2. /\ pc'[a] = "idle"
      /\ want' = [want EXCEPT ![a] = NoCred]
      /\ \A b \in Instance \ {a} : pc'[b] = pc[b] /\ prov'[b] = prov[b] /\ got'[b] = got[b]
  BY <1>1, LeaveEffect DEF IInv, Leave
<1>3. want \in [Instance -> Cred] /\ TypeOK
  BY DEF IInv, TypeOK
<1>4. want'[a] = NoCred /\ \A b \in Instance \ {a} : want'[b] = want[b]
  BY <1>2, <1>3
<1>5. CASE got[a] = Torn
  <2>1. file' = file
    BY <1>5 DEF Persist
  <2>2. \A b \in Instance : Reads(b)' => Reads(b) /\ got'[b] = got[b]
    BY <1>2 DEF Reads
  <2>3. \A c \in Live' : c \in Live \/ c = Empty
    BY <2>1, <2>2, LiveStays
  <2> QED
    BY <1>1, <1>2, <1>4, <2>3, QuietStep
<1>6. CASE got[a] # Torn
  <2> SUFFICES ASSUME ~slow PROVE GrantsOK' /\ AnsweredOK' /\ RotationsOK'
    BY <1>1 DEF RInv
  <2>1. GrantsOK /\ RotationsOK
    BY DEF RInv
  <2> DEFINE p == prov[a]
             w == want[a]
             old == got[a]
  <2>2. p \in Provider /\ old \in Contents
    BY <1>1, <1>6, MergedType DEF IInv
  <2>3. old \in Live /\ \A b \in Instance : Reads(b) => b = a
    BY <1>1, <2>2, HolderKnows DEF Reads
  <2>4. file' = [old EXCEPT ![p] = w]
    BY <1>6 DEF Persist, Merged
  <2>5. /\ file'[p] = w
        /\ \A q \in Provider \ {p} : file'[q] = old[q]
    BY <2>2, <2>4 DEF Contents
  <2>6. w.grant # 0 => /\ w.grant <= grants /\ w.n = 0 /\ current[w.grant] = 0
                       /\ \A q \in Provider : old[q].grant # w.grant
                       /\ \A b \in Instance \ {a} : want[b].grant # w.grant
    BY <2>1, <2>3 DEF GrantsOK
  <2>7. grants \in Nat /\ NoCred.grant = 0
    BY GrantType DEF IInv, TypeOK, NoCred
  <2>8. \A b \in Instance : ~Reads(b)'
    BY <1>2, <2>3 DEF Reads
  <2>9. \A c \in Live' : c = file'
    BY <2>8 DEF Live
  <2>10. \A b \in Instance : pc[b] # "answered" /\ pc'[b] # "answered"
    BY <1>1, <2>3, <2>8 DEF Reads
  <2> HIDE DEF p, w, old
  <2>11. \A b \in Instance : want'[b].grant # 0 => b # a /\ want'[b] = want[b]
    BY <1>4, <2>7
  <2>12. GrantsOK'
    <3>1. ASSUME NEW b \in Instance, want'[b].grant # 0
          PROVE  /\ want'[b].grant <= grants'
                 /\ want'[b].n = 0
                 /\ current'[want'[b].grant] = 0
                 /\ \A c \in Live', q \in Provider : c[q].grant # want'[b].grant
                 /\ \A c \in Instance \ {b} : want'[c].grant # want'[b].grant
      <4>1. b # a /\ want'[b] = want[b] /\ want[b].grant # 0
        BY <2>11, <3>1
      <4>2. /\ want[b].grant <= grants /\ want[b].n = 0 /\ current[want[b].grant] = 0
            /\ \A q \in Provider : old[q].grant # want[b].grant
            /\ \A c \in Instance \ {b} : want[c].grant # want[b].grant
        BY <2>1, <2>3, <4>1 DEF GrantsOK
      <4>3. \A q \in Provider : file'[q].grant # want[b].grant
        <5>1. w.grant # want[b].grant
          BY <4>1, <4>2 DEF w
        <5> QED
          BY <2>5, <4>2, <5>1
      <4>4. \A c \in Instance \ {b} : want'[c].grant # want[b].grant
        BY <2>11, <4>1, <4>2
      <4>5. \A c \in Live', q \in Provider : c[q].grant # want[b].grant
        BY <2>9, <4>3
      <4> QED
        BY <1>1, <4>1, <4>2, <4>4, <4>5
    <3>2. ASSUME NEW q \in Provider
          PROVE  /\ file'[q].grant <= grants'
                 /\ \A r \in Provider \ {q} : file'[r].grant = file'[q].grant => file'[q].grant = 0
      <4>1. /\ old[q].grant <= grants
            /\ \A r \in Provider \ {q} : old[r].grant = old[q].grant => old[q].grant = 0
        BY <2>1, <2>3 DEF GrantsOK
      <4>2. w.grant <= grants
        BY <2>6, <2>7
      <4>3. file'[q].grant <= grants
        BY <2>5, <4>1, <4>2
      <4>4. ASSUME NEW r \in Provider \ {q}, file'[r].grant = file'[q].grant
            PROVE  file'[q].grant = 0
        <5>1. CASE q = p
          BY <2>5, <2>6, <4>4, <5>1
        <5>2. CASE r = p
          BY <2>5, <2>6, <4>4, <5>2
        <5>3. CASE q # p /\ r # p
          BY <2>5, <4>1, <4>4, <5>3
        <5> QED
          BY <5>1, <5>2, <5>3
      <4> QED
        BY <1>1, <4>3, <4>4
    <3>3. \A c \in Live', q \in Provider :
            /\ c[q].grant <= grants'
            /\ \A r \in Provider \ {q} : c[r].grant = c[q].grant => c[q].grant = 0
      BY <2>9, <3>2
    <3> QED
      BY <1>1, <2>1, <3>1, <3>3 DEF GrantsOK
  <2>13. AnsweredOK'
    BY <2>10 DEF AnsweredOK
  <2>14. RotationsOK'
    <3> SUFFICES ASSUME NEW q \in Provider, file'[q].grant # 0
                 PROVE  file'[q].n = current[file'[q].grant] \/ file'[q].grant \in cut
      BY <1>1, <2>9 DEF RotationsOK
    <3>1. CASE q = p
      BY <2>5, <2>6, <3>1
    <3>2. CASE q # p
      BY <2>1, <2>3, <2>5, <2>10, <3>2 DEF RotationsOK, InAnswer
    <3> QED
      BY <3>1, <3>2
  <2> QED
    BY <2>12, <2>13, <2>14
<1> QED
  BY <1>5, <1>6

\* The server's answer is in hand: the token its holder has read is one behind it.
LEMMA ServerRotatesRInv == ASSUME IInv, RInv, NEW a \in Instance, ServerRotates(a) PROVE RInv'
<1> DEFINE g == InHand(a).grant
           old == got[a]
<1>1. /\ pc[a] = "refreshing" /\ InHand(a).n = current[g]
      /\ current' = [current EXCEPT ![g] = current[g] + 1]
      /\ Go(a, "answered")
      /\ UNCHANGED <<prov, want, got, grants, file, cut, slow>>
  BY DEF ServerRotates, ghosts
<1> SUFFICES ASSUME ~slow PROVE GrantsOK' /\ AnsweredOK' /\ RotationsOK'
  BY <1>1 DEF RInv
<1>2. GrantsOK /\ RotationsOK
  BY DEF RInv
<1>3. prov[a] \in Provider /\ old \in Contents /\ g \in Grant
  BY <1>1, InHandType DEF IInv
<1>4. /\ old \in Live /\ \A c \in Live : c = old \/ c = Empty
      /\ \A b \in Instance : Reads(b) => b = a
  BY <1>1, <1>3, HolderKnows DEF Reads
<1>5. g = old[prov[a]].grant
  BY DEF InHand
<1>6. current \in [Grant -> Nat] /\ grants \in Nat /\ g \in Nat
  BY <1>3, GrantType DEF IInv, TypeOK
<1>7. current'[g] = current[g] + 1 /\ \A h \in Grant \ {g} : current'[h] = current[h]
  BY <1>1, <1>3, <1>6
<1>8. /\ g <= grants
      /\ \A b \in Instance : want[b].grant # 0 => want[b].grant # g
      /\ \A q \in Provider \ {prov[a]} : old[q].grant = g => g = 0
  BY <1>2, <1>3, <1>4, <1>5 DEF GrantsOK
<1>9. \A b \in Instance : want[b].grant \in Grant
  BY WantType DEF IInv
<1>10. \A q \in Provider : old[q].grant \in Grant
  BY <1>3, ContentType
<1>11. pc'[a] = "answered" /\ \A b \in Instance \ {a} : pc'[b] = pc[b]
  BY <1>1, GoEffect DEF IInv
<1>12. \A b \in Instance : pc'[b] = "answered" => b = a
  BY <1>4, <1>11 DEF Reads
<1>13. InHand(a)' = InHand(a)
  BY <1>1 DEF InHand
<1>14. \A c \in Live' : c \in Live
  BY <1>1, <1>11 DEF Live, Reads
<1>15. \A q \in Provider : Empty[q].grant = 0
  BY DEF Empty, NoCred
<1>16. AnsweredOK'
  BY <1>1, <1>7, <1>12, <1>13 DEF AnsweredOK
<1> HIDE DEF g, old
<1>17. GrantsOK'
  <2>1. \A h \in Grant : h > grants => current'[h] = 0
    <3> SUFFICES ASSUME NEW h \in Grant, h > grants PROVE current'[h] = 0
      OBVIOUS
    <3>1. h # g
      BY <1>6, <1>8
    <3> QED
      BY <1>2, <1>7, <3>1 DEF GrantsOK
  <2>2. \A b \in Instance : want[b].grant # 0 => current'[want[b].grant] = 0
    BY <1>2, <1>7, <1>8, <1>9 DEF GrantsOK
  <2> QED
    BY <1>1, <1>2, <1>14, <2>1, <2>2 DEF GrantsOK
<1>18. RotationsOK'
  <2>1. \A c \in Live', q \in Provider : c[q].grant # 0 => c = old
    BY <1>4, <1>14, <1>15
  <2> SUFFICES ASSUME NEW q \in Provider, old[q].grant # 0
               PROVE  \/ old[q].n = current'[old[q].grant]
                      \/ old[q].grant \in cut
                      \/ \E b \in Instance : pc'[b] = "answered" /\ InHand(b)'.grant = old[q].grant
    BY <1>1, <2>1 DEF RotationsOK, InAnswer
  <2>2. CASE q = prov[a]
    BY <1>5, <1>11, <1>13, <2>2 DEF g
  <2>3. CASE q # prov[a]
    <3>1. old[q].grant # g
      BY <1>8, <2>3
    <3>2. current'[old[q].grant] = current[old[q].grant]
      BY <1>7, <1>10, <3>1
    <3>3. \A b \in Instance : pc[b] # "answered"
      BY <1>1, <1>4 DEF Reads
    <3> QED
      BY <1>2, <1>4, <3>2, <3>3 DEF RotationsOK, InAnswer
  <2> QED
    BY <2>2, <2>3
<1> QED
  BY <1>16, <1>17, <1>18

\* The answer reaches the file, for its holder has not lost the lock.
LEMMA SaveRefreshedRInv == ASSUME IInv, RInv, NEW a \in Instance, SaveRefreshed(a) PROVE RInv'
<1>1. /\ pc[a] = "answered"
      /\ UNCHANGED <<want, got, prov, grants, current, cut, slow>>
      /\ ~compromised[a] => file' = Rotated(a) /\ Go(a, "done")
  BY DEF SaveRefreshed, server, ghosts
<1> SUFFICES ASSUME ~slow PROVE GrantsOK' /\ AnsweredOK' /\ RotationsOK'
  BY <1>1 DEF RInv
<1> DEFINE old == got[a]
<1>2. GrantsOK /\ AnsweredOK /\ RotationsOK
  BY DEF RInv
<1>3. /\ old \in Contents /\ prov[a] \in Provider
      /\ \A p \in Provider : Rotated(a)[p].grant = old[p].grant
  BY <1>1, InHandType DEF IInv
<1>4. /\ old \in Live /\ ~compromised[a]
      /\ \A b \in Instance : Reads(b) => b = a
  BY <1>1, <1>3, HolderKnows DEF Reads
<1>5. file' = Rotated(a) /\ \A p \in Provider : file'[p].grant = old[p].grant
  BY <1>1, <1>3, <1>4
<1>6. file'[prov[a]] = NextToken(a) /\ \A p \in Provider \ {prov[a]} : file'[p] = old[p]
  BY <1>3, <1>5 DEF Rotated, Contents
<1>7. pc'[a] = "done" /\ \A b \in Instance \ {a} : pc'[b] = pc[b]
  BY <1>1, <1>4, GoEffect DEF IInv
<1>8. \A b \in Instance : ~Reads(b)'
  BY <1>4, <1>7 DEF Reads
<1>9. \A c \in Live' : c = file'
  BY <1>8 DEF Live
<1>10. AnsweredOK'
  BY <1>8 DEF AnsweredOK, Reads
<1>11. InHand(a) = old[prov[a]]
  BY DEF InHand
<1>12. NextToken(a).grant = InHand(a).grant /\ NextToken(a).n = InHand(a).n + 1
  BY DEF NextToken
<1> HIDE DEF old
<1>13. GrantsOK'
  <2>1. \A c \in Live', q \in Provider : c[q].grant = old[q].grant
    BY <1>5, <1>9
  <2> QED
    BY <1>1, <1>2, <1>4, <2>1 DEF GrantsOK
<1>14. RotationsOK'
  <2> SUFFICES ASSUME NEW p \in Provider, file'[p].grant # 0
               PROVE  file'[p].n = current[file'[p].grant] \/ file'[p].grant \in cut
    BY <1>1, <1>9 DEF RotationsOK
  <2>1. CASE p = prov[a]
    BY <1>1, <1>2, <1>6, <1>12, <2>1 DEF AnsweredOK
  <2>2. CASE p # prov[a]
    <3>1. old[p].n = current[old[p].grant] \/ old[p].grant \in cut \/ InHand(a).grant = old[p].grant
      BY <1>2, <1>4, <1>5, <2>2 DEF RotationsOK, InAnswer, Reads
    <3>2. InHand(a).grant # old[p].grant
      BY <1>2, <1>3, <1>4, <1>5, <1>11, <2>2 DEF GrantsOK
    <3> QED
      BY <1>6, <2>2, <3>1, <3>2
  <2> QED
    BY <2>1, <2>2
<1> QED
  BY <1>10, <1>13, <1>14

LEMMA CreateFileRInv == ASSUME IInv, RInv, NEW a \in Instance, CreateFile(a) PROVE RInv'
<1>1. /\ pc[a] = "creating" /\ file' \in {Empty, Torn}
      /\ Go(a, IF job[a] = "none" THEN "waiting" ELSE "locking")
      /\ UNCHANGED <<prov, want, got, current, grants, cut, slow>>
  BY DEF CreateFile, server
<1>2. /\ pc'[a] \in {"waiting", "locking"}
      /\ \A b \in Instance \ {a} : pc'[b] = pc[b]
  BY <1>1, GoEffect DEF IInv
<1>3. \A b \in Instance : Reads(b)' => Reads(b) /\ got'[b] = got[b]
  BY <1>1, <1>2 DEF Reads
<1>4. \A c \in Live' : c \in Live \/ c = Empty
  BY <1>1, <1>3, LiveStays
<1> QED
  BY <1>1, <1>2, <1>4, QuietStep

\* A holder that dies inside its write leaves nothing of what it had read.
LEMMA CrashInWriteRInv == ASSUME IInv, RInv, NEW a \in Instance, CrashInWrite(a) PROVE RInv'
<1>1. /\ pc[a] \in {"locked", "answered", "creating"}
      /\ Leave(a, "down", "none")
      /\ UNCHANGED <<grants, current, cut, slow>>
      /\ file' \in {Torn, Empty}
  BY DEF CrashInWrite, server
<1>2. /\ pc'[a] = "down"
      /\ want' = [want EXCEPT ![a] = NoCred]
      /\ \A b \in Instance \ {a} : pc'[b] = pc[b] /\ got'[b] = got[b] /\ prov'[b] = prov[b]
  BY <1>1, LeaveEffect DEF IInv, Leave
<1>3. \A b \in Instance : want'[b] = want[b] \/ want'[b] = NoCred
  BY <1>2 DEF IInv, TypeOK
<1>4. \A b \in Instance : Reads(b)' => Reads(b) /\ b # a /\ got'[b] = got[b]
  BY <1>2 DEF Reads
<1>5. \A c \in Live' : c \in Live \/ c = Empty
  BY <1>1, <1>4, LiveStays
<1>6. ASSUME ~slow, pc[a] = "answered" PROVE Live' \subseteq {Empty}
  <2>1. \A b \in Instance : ~Reads(b)'
    BY <1>4, <1>6, HolderKnows DEF Reads
  <2> QED
    BY <1>1, <2>1 DEF Live
<1>7. \A b \in Instance : ~slow' /\ pc[b] = "answered" =>
        \/ Live' \subseteq {Empty}
        \/ pc'[b] = "answered" /\ got'[b] = got[b] /\ prov'[b] = prov[b]
  BY <1>1, <1>2, <1>6
<1> QED
  BY <1>1, <1>2, <1>3, <1>5, <1>7, QuietStep

LEMMA StepRInv == IInv /\ RInv /\ [Next]_avars => RInv'
<1> SUFFICES ASSUME IInv, RInv, [Next]_avars PROVE RInv'
  OBVIOUS
<1>1. ASSUME UNCHANGED <<pc, prov, want, got, file, grants, current, cut>>, slow => slow'
      PROVE  RInv'
  <2>1. \A c \in Live' : c \in Live \/ c = Empty
    BY <1>1, LiveStays DEF Reads
  <2> QED
    BY <1>1, <2>1, QuietStep
<1>2. ASSUME NEW a \in Instance, NEW label, Go(a, label), label # "answered", pc[a] # "answered",
             label \in {"locked", "refreshing"} => got'[a] = file,
             UNCHANGED <<file, grants, current, cut, slow>>,
             \A b \in Instance : want'[b] = want[b] \/ want'[b] = NoCred,
             \A b \in Instance \ {a} : got'[b] = got[b] /\ prov'[b] = prov[b]
      PROVE  RInv'
  <2>1. pc'[a] = label /\ \A b \in Instance \ {a} : pc'[b] = pc[b]
    BY <1>2, GoEffect DEF IInv
  <2>2. \A b \in Instance : Reads(b)' => got'[b] = file \/ (Reads(b) /\ got'[b] = got[b])
    BY <1>2, <2>1 DEF Reads
  <2>3. \A c \in Live' : c \in Live \/ c = Empty
    BY <1>2, <2>2, LiveStays
  <2> QED
    BY <1>2, <2>1, <2>3, QuietStep
<1>3. ASSUME NEW a \in Instance, NEW label \in {"idle", "creating", "locking", "down"},
             NEW next \in {"none", "reload"}, Leave(a, label, next)
      PROVE  /\ Go(a, label) /\ pc'[a] = label
             /\ \A b \in Instance : want'[b] = want[b] \/ want'[b] = NoCred
             /\ \A b \in Instance \ {a} : pc'[b] = pc[b] /\ got'[b] = got[b] /\ prov'[b] = prov[b]
  <2>1. want \in [Instance -> Cred] /\ want' = [want EXCEPT ![a] = NoCred] /\ Go(a, label)
    BY <1>3 DEF IInv, TypeOK, Leave
  <2> QED
    BY <1>3, <2>1, LeaveEffect DEF IInv
<1>4. CASE Tick
  BY <1>1, <1>4 DEF Tick, local, server
<1>5. CASE \E t \in fresh : Expire(t)
  BY <1>1, <1>5 DEF Expire, local, ghosts
<1>6. ASSUME NEW a \in Instance, NEW p \in Provider, Login(a, p)
      PROVE  RInv'
  BY <1>6, LoginRInv
<1>7. ASSUME NEW a \in Instance, NEW p \in Provider, Logout(a, p) \/ GetApiKey(a, p)
      PROVE  RInv'
  <2>1. /\ pc[a] = "idle"
        /\ \E label \in {"creating", "locking", "waiting"} : Go(a, label)
        /\ UNCHANGED <<got, file, grants, current, cut, slow>>
        /\ want' = [want EXCEPT ![a] = NoCred] \/ want' = want
        /\ prov' = [prov EXCEPT ![a] = p]
    BY <1>7 DEF Logout, Change, GetApiKey, Ensured, server, ghosts
  <2>2. want \in [Instance -> Cred] /\ prov \in [Instance -> Provider \cup {None}]
    BY DEF IInv, TypeOK
  <2>3. \A b \in Instance : want'[b] = want[b] \/ want'[b] = NoCred
    BY <2>1, <2>2
  <2>4. \A b \in Instance \ {a} : got'[b] = got[b] /\ prov'[b] = prov[b]
    BY <2>1, <2>2
  <2> QED
    BY <1>2, <2>1, <2>3, <2>4
<1>8. ASSUME NEW a \in Instance, UpdateLock(a)
      PROVE  RInv'
  BY <1>1, <1>8 DEF UpdateLock, local, server, ghosts
<1>9. ASSUME NEW a \in Instance, LockSync(a) \/ LockAsync(a)
      PROVE  RInv'
  <2>1. /\ pc[a] \in {"locking", "waiting"}
        /\ \E label \in {"locked", "failed", "refreshing", "done"} : Go(a, label)
        /\ UNCHANGED <<prov, want, file, grants, current, cut, slow>>
        /\ got' = [got EXCEPT ![a] = file]
    BY <1>9 DEF LockSync, LockAsync, server, ghosts
  <2>2. got'[a] = file /\ \A b \in Instance \ {a} : got'[b] = got[b]
    BY <2>1 DEF IInv, TypeOK
  <2> QED
    BY <1>2, <2>1, <2>2
<1>10. ASSUME NEW a \in Instance,
              LockSyncFails(a) \/ LockAsyncFails(a) \/ Release(a) \/ Restart(a)
       PROVE  RInv'
  <2>1. /\ pc[a] # "answered"
        /\ \E label \in {"idle", "creating", "locking", "down"}, next \in {"none", "reload"} :
             Leave(a, label, next)
        /\ UNCHANGED <<file, grants, current, cut, slow>>
    BY <1>10 DEF LockSyncFails, LockAsyncFails, Release, Restart, Return, Ensured, server, ghosts
  <2> QED
    BY <1>2, <1>3, <2>1
<1>11. ASSUME NEW a \in Instance, Reload(a)
       PROVE  RInv'
  <2>1. pc[a] = "locked" /\ UNCHANGED <<file, grants, current, cut, slow>>
    BY <1>11 DEF Reload, server, ghosts
  <2>2. \/ Leave(a, "idle", "none")
        \/ /\ \E label \in {"creating", "locking"} : Go(a, label)
           /\ UNCHANGED <<prov, want, got>>
    BY <1>11 DEF Reload, Return, Ensured
  <2> QED
    BY <1>2, <1>3, <2>1, <2>2
<1>12. ASSUME NEW a \in Instance,
              Persist(a) \/ ServerRotates(a) \/ SaveRefreshed(a) \/ CreateFile(a) \/ CrashInWrite(a)
       PROVE  RInv'
  BY <1>12, PersistRInv, ServerRotatesRInv, SaveRefreshedRInv, CreateFileRInv, CrashInWriteRInv
<1>13. ASSUME NEW a \in Instance, ServerRefuses(a)
       PROVE  RInv'
  <2>1. /\ pc[a] = "refreshing" /\ Go(a, "failed")
        /\ UNCHANGED <<prov, want, got, file, grants, current, cut, slow>>
    BY <1>13 DEF ServerRefuses, server, ghosts
  <2> QED
    BY <1>2, <2>1
<1>14. ASSUME NEW a \in Instance, AnswerLost(a)
       PROVE  RInv'
  <2>1. /\ Go(a, "failed") /\ cut' = cut \cup {InHand(a).grant}
        /\ UNCHANGED <<prov, want, got, file, grants, current, slow>>
    BY <1>14 DEF AnswerLost, server
  <2>2. pc'[a] = "failed" /\ \A b \in Instance \ {a} : pc'[b] = pc[b]
    BY <2>1, GoEffect DEF IInv
  <2>3. \A b \in Instance : Reads(b)' => Reads(b) /\ got'[b] = got[b]
    BY <2>1, <2>2 DEF Reads
  <2>4. \A c \in Live' : c \in Live \/ c = Empty
    BY <2>1, <2>3, LiveStays
  <2> QED
    BY <2>1, <2>2, <2>4, QuietStep
<1>15. ASSUME NEW a \in Instance, Crash(a)
       PROVE  RInv'
  <2>1. /\ Leave(a, "down", "none")
        /\ UNCHANGED <<file, grants, current, slow>>
        /\ cut \subseteq cut'
        /\ pc[a] = "answered" => InHand(a).grant \in cut'
    BY <1>15 DEF Crash, server
  <2>2. /\ pc'[a] = "down"
        /\ \A b \in Instance : want'[b] = want[b] \/ want'[b] = NoCred
        /\ \A b \in Instance \ {a} : pc'[b] = pc[b] /\ got'[b] = got[b] /\ prov'[b] = prov[b]
    BY <1>3, <2>1
  <2>3. \A b \in Instance : Reads(b)' => Reads(b) /\ got'[b] = got[b]
    BY <2>2 DEF Reads
  <2>4. \A c \in Live' : c \in Live \/ c = Empty
    BY <2>1, <2>3, LiveStays
  <2> QED
    BY <2>1, <2>2, <2>4, QuietStep
<1>16. CASE UNCHANGED avars
  BY <1>1, <1>16 DEF avars, local, server, ghosts
<1> QED
  BY <1>4, <1>5, <1>6, <1>7, <1>8, <1>9, <1>10, <1>11, <1>12, <1>13, <1>14, <1>15, <1>16 DEF Next

LEMMA InitRInv == Init => RInv
<1> SUFFICES ASSUME Init PROVE GrantsOK /\ AnsweredOK /\ RotationsOK
  BY DEF RInv
<1>1. PICK label \in {"idle", "down"}, content \in Contents :
        /\ Started(label, content, 1)
        /\ file = content \/ (file = Absent /\ content = Empty)
        /\ \A p \in Provider : content[p] = NoCred \/ content[p] = [grant |-> 1, n |-> 0]
        /\ \A p, q \in Provider : content[p] # NoCred /\ content[q] # NoCred => p = q
  BY InitContent
<1>2. NoCred.grant = 0 /\ grants = 1 /\ 0 \in Grant /\ 1 \in Grant
  BY <1>1 DEF NoCred, Grant, Started
<1>3. /\ current = [g \in Grant |-> 0]
      /\ \A a \in Instance : want[a] = NoCred /\ pc[a] = label
  BY <1>1 DEF Started
<1>4. \A c \in Live : c = content
  BY <1>1, <1>3 DEF Live, Reads
<1>5. \A p \in Provider : content[p].grant \in {0, 1} /\ content[p].n = 0
  BY <1>1 DEF NoCred
<1>6. \A p, q \in Provider : content[p].grant = 1 /\ content[q].grant = 1 => p = q
  BY <1>1, <1>2
<1>7. GrantsOK
  BY <1>2, <1>3, <1>4, <1>5, <1>6 DEF GrantsOK
<1>8. AnsweredOK
  BY <1>3 DEF AnsweredOK
<1>9. RotationsOK
  BY <1>2, <1>3, <1>4, <1>5 DEF RotationsOK
<1> QED
  BY <1>7, <1>8, <1>9

\* The file holds the token the server accepts next, for any instances,
\* providers, logins and uses of a token, while no refresh outlasts
\* SyncStale: a rotation is lost to a crash or a lost answer only.
THEOREM RotationsAreSaved == Spec => []RotationSaved
<1>1. IInv /\ RInv /\ [Next]_avars => (IInv /\ RInv)'
  BY StepIInv, StepRInv
<1>2. Init => IInv /\ RInv
  BY InitIInv, InitRInv
<1>3. RInv => RotationSaved
  BY DEF RInv, RotationSaved, RotationsOK, InAnswer, Live
<1> QED
  BY <1>1, <1>2, <1>3, PTL DEF Spec
=============================================================================
