----------------------------- MODULE AuthStorage -----------------------------
(***************************************************************************)
(* AuthStorage over FileAuthStorageBackend (packages/coding-agent/src/core *)
(* /auth-storage.ts): the credentials file that all running instances      *)
(* share, the lock on it, and the copy each instance keeps in memory.      *)
(*                                                                         *)
(* The lock is a directory beside the file.  Whoever finds it older than   *)
(* the age HE calls stale removes it and takes it: ten seconds for the     *)
(* synchronous lock of a login, a logout or a reload, thirty for the lock  *)
(* of a token refresh.  The holder of the latter touches it every fifteen  *)
(* seconds, and finds out only then that it was taken.                     *)
(*                                                                         *)
(* A file that is not there is created before the lock is asked for, and   *)
(* without it: what another process has written meanwhile is overwritten.  *)
(*                                                                         *)
(* A synchronous section blocks its process and takes no time here; time   *)
(* passes while a refresh awaits the OAuth server.  A refresh token is     *)
(* good for one use: token n of a grant is answered with token n + 1.      *)
(***************************************************************************)
EXTENDS Naturals

CONSTANTS
  Instance,     \* the running instances, one AuthStorage each
  Provider,     \* the providers
  Torn,         \* the content of a file that does not parse
  Absent,       \* no file
  None,         \* no holder of the lock, no provider in hand
  SyncStale,    \* the age at which lockSync takes a lock (its default)
  UpdateEvery,  \* how often the holder of an asynchronous lock touches it
  AsyncStale,   \* the age at which a refresh takes a lock
  MaxHold,      \* the longest a refresh holds the lock
  MaxGrants,    \* bound: logins
  MaxUses,      \* bound: uses of a refresh token of one grant
  MaxCrashes    \* bound: crashes

ASSUME InstanceAssumption == None \notin Instance \cup Provider
ASSUME TimesAssumption ==
  /\ SyncStale \in Nat
  /\ UpdateEvery \in Nat \ {0}
  /\ AsyncStale \in Nat
  /\ SyncStale <= AsyncStale
  /\ MaxHold \in Nat
ASSUME BoundsAssumption ==
  /\ MaxGrants \in Nat \ {0}
  /\ MaxUses \in Nat
  /\ MaxCrashes \in Nat

VARIABLES
  pc,          \* where each instance is
  job,         \* what its synchronous section is for
  prov,        \* the provider in hand
  want,        \* the credential a login or a logout stores
  got,         \* the file as it was read under the lock
  data,        \* the credentials in memory
  loadError,   \* the last load failed
  compromised, \* onCompromised was called
  waited,      \* how long a refresh has held the lock
  touched,     \* when, in that time, it last touched it
  file,        \* auth.json
  lock,        \* the owner of the lock directory
  age,         \* the time since the directory was touched
  fresh,       \* the tokens that have not expired
  grants,      \* logins so far
  current,     \* per grant, the number of the token the server accepts
  stored,      \* per provider, the grant of the last login or logout
  cut,         \* the grants with a refresh whose answer never arrived
  undone,      \* the providers whose credential a write has lost since its login
  crashes,     \* crashes so far
  slow         \* a refresh has held the lock for longer than SyncStale

local == <<pc, job, prov, want, got, data, loadError>>
lease == <<compromised, waited, touched, lock, age>>
server == <<fresh, grants, current>>
ghosts == <<stored, cut, undone, crashes, slow>>
avars == <<local, lease, server, file, ghosts>>

Grant == 0 .. MaxGrants
\* A key is a grant whose token never expires; grant 0 is no credential.
Cred == [grant : Grant, n : Nat]
NoCred == [grant |-> 0, n |-> 0]
Empty == [p \in Provider |-> NoCred]
Contents == [Provider -> Cred]

ASSUME FileAssumption == Torn # Absent /\ Torn \notin Contents /\ Absent \notin Contents

Started(label, content, logins) ==
  /\ pc = [a \in Instance |-> label]
  /\ job = [a \in Instance |-> "none"]
  /\ prov = [a \in Instance |-> None]
  /\ want = [a \in Instance |-> NoCred]
  /\ got = [a \in Instance |-> Empty]
  /\ data = [a \in Instance |-> content]
  /\ loadError = [a \in Instance |-> FALSE]
  /\ compromised = [a \in Instance |-> FALSE]
  /\ waited = [a \in Instance |-> 0]
  /\ touched = [a \in Instance |-> 0]
  /\ lock = None
  /\ age = 0
  /\ fresh = {content[p] : p \in Provider} \ {NoCred}
  /\ grants = logins
  /\ current = [g \in Grant |-> 0]
  /\ stored = [p \in Provider |-> content[p].grant]
  /\ cut = {}
  /\ undone = {}
  /\ crashes = 0
  /\ slow = FALSE

\* The instances are running and the user has logged in to one provider; or none is
\* running and the file is gone.
Init ==
  \/ \E p \in Provider :
       /\ file = [Empty EXCEPT ![p] = [grant |-> 1, n |-> 0]]
       /\ Started("idle", file, 1)
  \/ /\ file = Absent
     /\ Started("down", Empty, 1)

Go(a, label) == pc' = [pc EXCEPT ![a] = label]

\* The call's own variables go out of scope; what follows it is "next".
Leave(a, label, next) ==
  /\ Go(a, label)
  /\ job' = [job EXCEPT ![a] = next]
  /\ prov' = [prov EXCEPT ![a] = None]
  /\ want' = [want EXCEPT ![a] = NoCred]
  /\ got' = [got EXCEPT ![a] = Empty]
  /\ compromised' = [compromised EXCEPT ![a] = FALSE]
  /\ waited' = [waited EXCEPT ![a] = 0]
  /\ touched' = [touched EXCEPT ![a] = 0]

Return(a) == Leave(a, "idle", "none")

-----------------------------------------------------------------------------
(* The lock.                                                               *)

\* Mutant: the lock is taken without a look.
LockIsTaken(stale) == TRUE

\* proper-lockfile: there is no lock directory, or it is stale for the taker.
LockIsFree(stale) == lock = None \/ age > stale

TakeLock(a) ==
  /\ lock' = a
  /\ age' = 0

\* Removing the directory asks nobody who made it.
DropLock ==
  /\ lock' = None
  /\ age' = 0

\* An instance that is between the acquisition and the release of the lock
\* of a refresh.
Refreshing(a) == pc[a] \in {"refreshing", "answered", "failed", "done"}

UpdateDue(a) ==
  /\ Refreshing(a)
  /\ ~compromised[a]
  /\ waited[a] - touched[a] >= UpdateEvery

\* The holder's timer: it touches its lock, or finds that it lost it.
UpdateLock(a) ==
  /\ UpdateDue(a)
  /\ touched' = [touched EXCEPT ![a] = waited[a]]
  /\ age' = IF lock = a THEN 0 ELSE age
  /\ compromised' = [compromised EXCEPT ![a] = lock # a]
  /\ UNCHANGED <<local, waited, lock, server, file, ghosts>>

\* The lock is there and not yet stale for everybody.
CountsAge == lock # None /\ age <= AsyncStale

\* Time passes, no more of it than MaxHold under one refresh.  Timers are on
\* time and synchronous sections are instantaneous.
Tick ==
  /\ \A a \in Instance :
       /\ pc[a] \notin {"creating", "locked"}
       /\ ~UpdateDue(a)
       /\ Refreshing(a) => waited[a] < MaxHold
  /\ CountsAge \/ \E a \in Instance : Refreshing(a)
  /\ age' = IF CountsAge THEN age + 1 ELSE age
  /\ waited' = [a \in Instance |-> IF Refreshing(a) THEN waited[a] + 1 ELSE waited[a]]
  /\ slow' = (slow \/ \E a \in Instance : waited'[a] > SyncStale)
  /\ UNCHANGED <<local, compromised, touched, lock, server, file, stored, cut, undone, crashes>>

-----------------------------------------------------------------------------
(* The file is there before it is locked.                                  *)

\* ensureFileExists, where a section begins: the look at the file.
Ensured(label) == IF file = Absent THEN "creating" ELSE label

\* The grant a content has for a provider.
GrantIn(content, p) == IF content \in {Absent, Torn} THEN 0 ELSE content[p].grant

\* With the providers whose login a write undoes that loses what the file has.
Undone == undone \cup {p \in Provider : GrantIn(file, p) # 0}

\* The file is created, whether or not it is there by now.  A write of another
\* process between the truncation and the new content leaves something of both.
CreateFile(a) ==
  /\ pc[a] = "creating"
  /\ file' \in IF file \in {Absent, Empty} THEN {Empty} ELSE {Empty, Torn}
  /\ undone' = Undone
  /\ Go(a, IF job[a] = "none" THEN "waiting" ELSE "locking")
  /\ UNCHANGED <<job, prov, want, got, data, loadError, lease, server, stored, cut, crashes, slow>>

-----------------------------------------------------------------------------
(* Synchronous sections: reload, set and remove.                           *)

\* persistProviderChange: a failed load is repeated first.
Change(a, p, cred) ==
  /\ pc[a] = "idle"
  /\ prov' = [prov EXCEPT ![a] = p]
  /\ want' = [want EXCEPT ![a] = cred]
  /\ job' = [job EXCEPT ![a] = IF loadError[a] THEN "load before change" ELSE "change"]
  /\ Go(a, Ensured("locking"))
  /\ UNCHANGED <<got, data, loadError, lease, file, ghosts>>

\* login: the server makes a new grant, and the credentials are set.  A key
\* is set in the same way.
Login(a, p) ==
  /\ grants < MaxGrants
  /\ grants' = grants + 1
  /\ Change(a, p, [grant |-> grants', n |-> 0])
  /\ fresh' = fresh \cup {want'[a]}
  /\ UNCHANGED current

Logout(a, p) ==
  /\ stored[p] # 0
  /\ Change(a, p, NoCred)
  /\ UNCHANGED server

\* An attempt of acquireLockSyncWithRetry succeeds and the file is read.
LockSync(a) ==
  /\ pc[a] = "locking"
  /\ LockIsFree(SyncStale)
  /\ TakeLock(a)
  /\ got' = [got EXCEPT ![a] = file]
  /\ Go(a, "locked")
  /\ UNCHANGED <<job, prov, want, data, loadError, compromised, waited, touched,
                 server, file, ghosts>>

\* All its attempts end with ELOCKED: a reload records the error, a change
\* throws.
LockSyncFails(a) ==
  /\ pc[a] = "locking"
  /\ ~LockIsFree(SyncStale)
  /\ loadError' = [loadError EXCEPT ![a] = @ \/ job[a] = "reload"]
  /\ Return(a)
  /\ UNCHANGED <<data, lock, age, server, file, ghosts>>

\* reload(): what was read becomes the data in memory, if it parses.
Reload(a) ==
  /\ pc[a] = "locked"
  /\ job[a] # "change"
  /\ DropLock
  /\ loadError' = [loadError EXCEPT ![a] = got[a] = Torn]
  /\ data' = IF got[a] = Torn THEN data ELSE [data EXCEPT ![a] = got[a]]
  /\ IF job[a] = "load before change" /\ got[a] # Torn
       THEN /\ Go(a, Ensured("locking"))
            /\ job' = [job EXCEPT ![a] = "change"]
            /\ UNCHANGED <<prov, want, got, compromised, waited, touched>>
       ELSE Return(a)
  /\ UNCHANGED <<server, file, ghosts>>

\* Mutant: the provider's change is merged into the copy in memory.
MergedOwn(a) == [data[a] EXCEPT ![prov[a]] = want[a]]

\* The change of one provider, merged into what the file holds.
Merged(a) == [got[a] EXCEPT ![prov[a]] = want[a]]

\* set and remove: the merged file is written.  A file that does not parse
\* is left alone, and the change throws.
Persist(a) ==
  /\ pc[a] = "locked"
  /\ job[a] = "change"
  /\ DropLock
  /\ IF got[a] = Torn
       THEN UNCHANGED <<file, data, loadError, stored, undone>>
       ELSE /\ file' = Merged(a)
            /\ data' = [data EXCEPT ![a] = Merged(a)]
            /\ loadError' = [loadError EXCEPT ![a] = FALSE]
            /\ stored' = [stored EXCEPT ![prov[a]] = want[a].grant]
            /\ undone' = undone \ {prov[a]}
  /\ Return(a)
  /\ UNCHANGED <<server, cut, crashes, slow>>

-----------------------------------------------------------------------------
(* Refreshing a token.                                                     *)

Expired(cred) == cred.grant # 0 /\ cred \notin fresh

Expire(token) ==
  /\ token \in fresh
  /\ fresh' = fresh \ {token}
  /\ UNCHANGED <<local, lease, grants, current, file, ghosts>>

\* getApiKey with a token in memory that has expired.  With any other
\* credential it answers at once and changes nothing.
GetApiKey(a, p) ==
  /\ pc[a] = "idle"
  /\ Expired(data[a][p])
  /\ prov' = [prov EXCEPT ![a] = p]
  /\ Go(a, Ensured("waiting"))
  /\ UNCHANGED <<job, want, got, data, loadError, lease, server, file, ghosts>>

\* The credential that withLockAsync's function looks at.
TokenToRefresh(a) == file[prov[a]]

\* withLockAsync acquires the lock and calls its function, which reads the
\* file and asks the server if the token there has expired.
LockAsync(a) ==
  /\ pc[a] = "waiting"
  /\ LockIsFree(AsyncStale)
  /\ TakeLock(a)
  /\ compromised' = [compromised EXCEPT ![a] = FALSE]
  /\ waited' = [waited EXCEPT ![a] = 0]
  /\ touched' = [touched EXCEPT ![a] = 0]
  /\ got' = [got EXCEPT ![a] = file]
  /\ IF file = Torn
       THEN Go(a, "failed") /\ UNCHANGED <<data, loadError>>
       ELSE /\ data' = [data EXCEPT ![a] = file]
            /\ loadError' = [loadError EXCEPT ![a] = FALSE]
            /\ Go(a, IF Expired(TokenToRefresh(a)) THEN "refreshing" ELSE "done")
  /\ UNCHANGED <<job, prov, want, server, file, ghosts>>

\* The attempts are exhausted: getApiKey's catch block reloads.
LockAsyncFails(a) ==
  /\ pc[a] = "waiting"
  /\ ~LockIsFree(AsyncStale)
  /\ Leave(a, Ensured("locking"), "reload")
  /\ UNCHANGED <<data, loadError, lock, age, server, file, ghosts>>

\* The credential it sends, and the one it gets in exchange.
InHand(a) == got[a][prov[a]]
NextToken(a) == [grant |-> InHand(a).grant, n |-> InHand(a).n + 1]

\* The OAuth server accepts the current token of a grant and replaces it.
ServerRotates(a) ==
  /\ pc[a] = "refreshing"
  /\ InHand(a).n = current[InHand(a).grant]
  /\ InHand(a).n < MaxUses
  /\ current' = [current EXCEPT ![InHand(a).grant] = @ + 1]
  /\ fresh' = fresh \cup {NextToken(a)}
  /\ Go(a, "answered")
  /\ UNCHANGED <<job, prov, want, got, data, loadError, lease, grants, file, ghosts>>

\* refreshToken throws: the server refuses, or is not reached.
ServerRefuses(a) ==
  /\ pc[a] = "refreshing"
  /\ Go(a, "failed")
  /\ UNCHANGED <<job, prov, want, got, data, loadError, lease, server, file, ghosts>>

\* The server's answer is lost.
AnswerLost(a) ==
  /\ pc[a] = "answered"
  /\ cut' = cut \cup {InHand(a).grant}
  /\ Go(a, "failed")
  /\ UNCHANGED <<job, prov, want, got, data, loadError, lease, server, file, stored, undone, crashes, slow>>

Rotated(a) == [got[a] EXCEPT ![prov[a]] = NextToken(a)]

\* Mutant: the answer of the server is not written.
NotSaved(a) ==
  /\ pc[a] = "answered"
  /\ data' = [data EXCEPT ![a] = Rotated(a)]
  /\ Go(a, "done")
  /\ UNCHANGED <<job, prov, want, got, loadError, lease, server, file, ghosts>>

\* The function returns the rotated token, which is in memory by now, and it
\* is written unless the lock is known to be lost.
SaveRefreshed(a) ==
  /\ pc[a] = "answered"
  /\ data' = [data EXCEPT ![a] = Rotated(a)]
  /\ loadError' = [loadError EXCEPT ![a] = FALSE]
  /\ IF compromised[a]
       THEN Go(a, "failed") /\ UNCHANGED file
       ELSE Go(a, "done") /\ file' = Rotated(a)
  /\ UNCHANGED <<job, prov, want, got, lease, server, ghosts>>

\* The finally block releases; after an error getApiKey reloads.  The
\* release of a lock known to be lost does nothing.
Release(a) ==
  /\ pc[a] \in {"failed", "done"}
  /\ IF compromised[a] THEN UNCHANGED <<lock, age>> ELSE DropLock
  /\ IF pc[a] = "failed" THEN Leave(a, Ensured("locking"), "reload") ELSE Return(a)
  /\ UNCHANGED <<data, loadError, server, file, ghosts>>

-----------------------------------------------------------------------------
(* Crashes.                                                                *)

\* The process dies and leaves its lock directory.  The server may yet act
\* on the request of its refresh.
Crash(a) ==
  /\ pc[a] # "down"
  /\ crashes < MaxCrashes
  /\ crashes' = crashes + 1
  /\ Leave(a, "down", "none")
  /\ cut' = IF pc[a] \in {"refreshing", "answered"} THEN cut \cup {InHand(a).grant} ELSE cut
  /\ data' = [data EXCEPT ![a] = Empty]
  /\ loadError' = [loadError EXCEPT ![a] = FALSE]
  /\ UNCHANGED <<lock, age, server, file, stored, undone, slow>>

\* It dies inside writeFileSync, which has truncated the file.
CrashInWrite(a) ==
  /\ \/ pc[a] = "locked" /\ job[a] = "change" /\ got[a] # Torn
     \/ pc[a] = "answered" /\ ~compromised[a]
     \/ pc[a] = "creating"
  /\ crashes < MaxCrashes
  /\ crashes' = crashes + 1
  /\ Leave(a, "down", "none")
  /\ file' \in {Torn, Empty}
  /\ undone' = Undone
  /\ data' = [data EXCEPT ![a] = Empty]
  /\ loadError' = [loadError EXCEPT ![a] = FALSE]
  /\ UNCHANGED <<lock, age, server, stored, cut, slow>>

\* A new instance: its constructor reloads.
Restart(a) ==
  /\ pc[a] = "down"
  /\ Leave(a, Ensured("locking"), "reload")
  /\ UNCHANGED <<data, loadError, lock, age, server, file, ghosts>>

Next ==
  \/ Tick
  \/ \E t \in fresh : Expire(t)
  \/ \E a \in Instance :
       \/ \E p \in Provider :
            \/ Login(a, p)
            \/ Logout(a, p)
            \/ GetApiKey(a, p)
       \/ UpdateLock(a)
       \/ CreateFile(a)
       \/ LockSync(a)
       \/ LockSyncFails(a)
       \/ Reload(a)
       \/ Persist(a)
       \/ LockAsync(a)
       \/ LockAsyncFails(a)
       \/ ServerRotates(a)
       \/ ServerRefuses(a)
       \/ AnswerLost(a)
       \/ SaveRefreshed(a)
       \/ Release(a)
       \/ Crash(a)
       \/ CrashInWrite(a)
       \/ Restart(a)

Spec == Init /\ [][Next]_avars

-----------------------------------------------------------------------------
TypeOK ==
  /\ pc \in [Instance -> {"idle", "creating", "locking", "locked", "waiting", "refreshing",
                          "answered", "failed", "done", "down"}]
  /\ job \in [Instance -> {"none", "reload", "load before change", "change"}]
  /\ prov \in [Instance -> Provider \cup {None}]
  /\ want \in [Instance -> Cred]
  /\ got \in [Instance -> Contents \cup {Torn}]
  /\ data \in [Instance -> Contents]
  /\ loadError \in [Instance -> BOOLEAN]
  /\ compromised \in [Instance -> BOOLEAN]
  /\ waited \in [Instance -> Nat]
  /\ touched \in [Instance -> Nat]
  /\ file \in Contents \cup {Torn, Absent}
  /\ lock \in Instance \cup {None}
  /\ age \in Nat
  /\ fresh \subseteq Cred
  /\ grants \in Grant
  /\ current \in [Grant -> Nat]
  /\ stored \in [Provider -> Grant]
  /\ cut \subseteq Grant
  /\ undone \subseteq Provider
  /\ crashes \in Nat
  /\ slow \in BOOLEAN

\* While one instance awaits the refresh of a token, or has its answer in
\* hand, no other asks for the refresh of the same token, which the server
\* would refuse.
OneRefreshPerToken ==
  \A a, b \in Instance :
    /\ pc[a] \in {"refreshing", "answered"}
    /\ pc[b] = "refreshing"
    /\ InHand(a) = InHand(b)
    => a = b

\* The lock's purpose (auth-storage.ts:5-6 and 423-424), as long as no
\* refresh takes longer than the age at which lockSync calls a lock stale.
RefreshedOnce == slow \/ OneRefreshPerToken

\* The credential of the last login, or its absence after the last logout,
\* is what the file holds, whichever instances refreshed, logged in to other
\* providers or reloaded since.  Only a write that loses what the file has undoes
\* it: a crash inside a write, and the creation of a file that another process has
\* created in between, which takes no lock (auth-storage.ts:75-76).
LoginKept ==
  slow \/ \A p \in Provider :
    \/ GrantIn(file, p) = stored[p]
    \/ GrantIn(file, p) = 0 /\ p \in undone

\* The file holds the token the server will accept next, unless the instance
\* that has it in hand is about to write it: no rotation is lost, except to a
\* crash or a lost answer.
RotationSaved ==
  slow \/ file \in {Absent, Torn} \/
    \A p \in Provider :
      file[p].grant # 0 =>
        \/ file[p].n = current[file[p].grant]
        \/ file[p].grant \in cut
        \/ \E a \in Instance : pc[a] = "answered" /\ InHand(a).grant = file[p].grant
=============================================================================
