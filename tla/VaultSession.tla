--------------------------- MODULE VaultSession ---------------------------
(***************************************************************************)
(* The unlock session of one vault: the encrypted file with its key        *)
(* metadata, the handle and key the process holds while it is unlocked,    *)
(* edit mode, the cached income profile, and backup and restore.           *)
(*                                                                         *)
(* The API runs on one event loop and the database driver is synchronous,  *)
(* so a handler is one step unless it waits for the key-derivation worker. *)
(* Only Vault.unlock and Vault.verifyPassphrase wait; each is a Start and  *)
(* a Finish action here, and everything else may run in between.  A        *)
(* restore writes two files and clears a third: nothing else runs between  *)
(* those writes, but the process may die there, so each is a step of its   *)
(* own.                                                                    *)
(*                                                                         *)
(* Abstractions: the derived key is the pair <<salt, passphrase>>; the     *)
(* rows of the vault are reduced to the one settings row cached in memory  *)
(* (the income profile); the WAL holds the rows of the commits not yet     *)
(* folded into the main file; an empty passphrase, refused before any      *)
(* state is read, is not an element of Pass.                               *)
(***************************************************************************)
EXTENDS Naturals, FiniteSets

CONSTANTS
  Pass,             \* passphrases somebody types
  Req,              \* requests that can wait on key derivation at one time
  Profile,          \* values of the income profile
  Salt,             \* salts of this vault and of others
  OwnSalt,          \* the salt made when this directory had no metadata yet
  ForeignArchives,  \* archives of other vaults the user may offer
  None,             \* absent
  MaxSessions,      \* bound on unlock sessions of one process
  MaxOpens,         \* bound on Vault.open states of one process
  MaxCrashes        \* bound on crashes

Key == [salt : Salt, pass : Pass]
Rows == Profile \cup {None}
File == [key : Key, rows : Rows]
Archive == [db : File, meta : Salt]

ASSUME VaultConstants ==
  /\ None \notin Pass \cup Profile \cup File \cup Archive
  /\ OwnSalt \in Salt
  /\ MaxSessions \in Nat
  /\ MaxOpens \in Nat \ {0}
  /\ MaxCrashes \in Nat

\* Whoever made the other archives made them with this program.
ASSUME ForeignArchivesOpen ==
  \A a \in ForeignArchives : a \in Archive /\ a.meta = a.db.key.salt

VARIABLES
  db,          \* vault.db: None, or its key and rows as of the last checkpoint
  wal,         \* vault.db-wal: None, or the key and rows of later commits
  meta,        \* vault.db.meta.json: None, or the salt
  superseded,  \* the copy of the vault the last restore replaced
  archives,    \* backup archives that exist
  objs,        \* objs[o]: the OpenState objects Vault.open has made
  cur,         \* the one `state` points to
  sessions,    \* the number of successful unlocks
  keyOf,       \* keyOf[s]: the key derived for session s
  zeroed,      \* sessions whose key buffer was overwritten with zeros
  edit,        \* edit mode: its flag and the session it was granted in
  profile,     \* the cached income profile
  req,         \* req[r]: what request r waits for
  restore,     \* the restore in progress: its phase and archive
  crashes      \* crashes so far

disk == <<db, wal, meta, superseded, archives>>
memory == <<objs, cur, sessions, keyOf, zeroed>>
vars == <<disk, memory, edit, profile, req, restore, crashes>>
---------------------------------------------------------------------------
Opens == 1..MaxOpens
Sessions == 1..MaxSessions

ClosedState(salt) == [salt |-> salt, open |-> FALSE, session |-> 0]
Idle == [kind |-> "idle", pass |-> None, obj |-> 0, session |-> 0]
Failed == [kind |-> "failed", pass |-> None, obj |-> 0, session |-> 0]
EditOff == [on |-> FALSE, grantedIn |-> 0]
NotRestoring == [phase |-> "no", archive |-> None]

TypeOK ==
  /\ db \in File \cup {None}
  /\ wal \in File \cup {None}
  /\ meta \in Salt
  /\ superseded \in Archive \cup {None}
  /\ archives \subseteq Archive
  /\ objs \in [Opens -> [salt : Salt, open : BOOLEAN, session : 0..MaxSessions]]
  /\ cur \in Opens
  /\ sessions \in 0..MaxSessions
  /\ keyOf \in [Sessions -> Key \cup {None}]
  /\ zeroed \subseteq Sessions
  /\ edit \in [on : BOOLEAN, grantedIn : 0..MaxSessions]
  /\ profile \in Rows
  /\ req \in [Req -> [kind : {"idle", "unlock", "enable", "failed"}, pass : Pass \cup {None},
                      obj : 0..MaxOpens, session : 0..MaxSessions]]
  /\ restore \in [phase : {"no", "meta", "sidecars"}, archive : Archive \cup {None}]
  /\ crashes \in 0..MaxCrashes

Unlocked == objs[cur].open
SessionId == IF Unlocked THEN objs[cur].session ELSE 0   \* 0: undefined
EditInForce == edit.on /\ SessionId = edit.grantedIn
\* What `current()` leaves in the edit-mode state: a stale grant is dropped.
CurrentEdit == IF EditInForce THEN edit ELSE EditOff

\* The rows a handle reads: those of the log when there is one.
Committed(file, log) == IF log # None THEN log ELSE file
OthersOpen(o) == \E p \in Opens \ {o} : objs[p].open
\* The process runs handlers only between the synchronous steps of a restore.
Serving == restore.phase = "no"
---------------------------------------------------------------------------
(* The files after the handle of OpenState o is closed: the last handle    *)
(* folds the log into the main file, an earlier one leaves it.             *)
Folds(o) == objs[o].open /\ ~OthersOpen(o) /\ wal # None
DbAfterClose(o) == IF Folds(o) THEN wal ELSE db
WalAfterClose(o) == IF Folds(o) THEN None ELSE wal

\* Fault: zeroed also when there is none.
KeyZeroedUnchecked == zeroed \cup {objs[cur].session}
\* Vault.lock overwrites the key buffer in place, whoever still holds it.
KeyZeroed == zeroed \cup ({objs[cur].session} \ {0})

HandleClosed == [objs EXCEPT ![cur] = ClosedState(@.salt)]

(* The part of Vault.lock and VaultUC.lock that is in memory.              *)
LockMemory ==
  /\ zeroed' = KeyZeroed
  /\ edit' = EditOff
  /\ profile' = None

Lock ==
  /\ Serving
  /\ LockMemory
  /\ objs' = HandleClosed
  /\ db' = DbAfterClose(cur)
  /\ wal' = WalAfterClose(cur)
  /\ UNCHANGED <<meta, superseded, archives, cur, sessions, keyOf, req, restore, crashes>>

(* Vault.open: the same open vault is left alone, otherwise `state` is     *)
(* replaced by a fresh object with the metadata read from disk.            *)
OpenEffect ==
  IF Unlocked
  THEN UNCHANGED <<objs, cur>>
  ELSE /\ cur < MaxOpens
       /\ cur' = cur + 1
       /\ objs' = [objs EXCEPT ![cur + 1] = ClosedState(meta)]
---------------------------------------------------------------------------
(* Vault.unlock up to its await: the object is captured, the worker runs.  *)
StartUnlock(r, p) ==
  /\ Serving
  /\ req[r] = Idle
  /\ sessions + Cardinality({q \in Req : req[q].kind = "unlock"}) < MaxSessions
  /\ req' = [req EXCEPT ![r] = [kind |-> "unlock", pass |-> p, obj |-> cur, session |-> 0]]
  /\ UNCHANGED <<disk, memory, edit, profile, restore, crashes>>

RequestKey(r) == [salt |-> objs[req[r].obj].salt, pass |-> req[r].pass]
\* Fault: the key is set but never tried.
AnyKeyPasses(key) == TRUE
\* quick_check reads every page, of the log too; a missing file is created.
PassesQuickCheck(key) ==
  /\ db # None => db.key = key
  /\ wal # None => wal.key = key

\* Fault: the cache is not loaded.
CacheLeft == UNCHANGED profile
(* VaultUC.unlock after Vault.unlock succeeded: the cache is loaded from   *)
(* whatever connection is current, or cleared when there is none.          *)
LoadCaches ==
  profile' = IF objs'[cur].open THEN Committed(db', wal').rows ELSE None

\* The handle is there already: no new session, the second handle is closed.
ReUnlock(r) ==
  /\ PassesQuickCheck(RequestKey(r))
  /\ objs[req[r].obj].open
  /\ UNCHANGED <<disk, memory>>
  /\ LoadCaches

OpenSession(r) ==
  LET o == req[r].obj
      key == RequestKey(r)
  IN /\ PassesQuickCheck(key)
     /\ ~objs[o].open
     /\ sessions < MaxSessions
     /\ sessions' = sessions + 1
     /\ objs' = [objs EXCEPT ![o] = [salt |-> @.salt, open |-> TRUE, session |-> sessions + 1]]
     /\ keyOf' = [keyOf EXCEPT ![sessions + 1] = key]
     /\ db' = IF db = None THEN [key |-> key, rows |-> None] ELSE db
     /\ UNCHANGED <<wal, meta, superseded, archives, cur, zeroed>>
     /\ LoadCaches

WrongKey(r) ==
  /\ ~PassesQuickCheck(RequestKey(r))
  /\ UNCHANGED <<disk, memory, profile>>

FinishUnlock(r) ==
  /\ Serving
  /\ req[r].kind = "unlock"
  /\ ReUnlock(r) \/ OpenSession(r) \/ WrongKey(r)
  /\ req' = [req EXCEPT ![r] = Idle]
  /\ UNCHANGED <<edit, restore, crashes>>

(* The derivation worker dies before it posts a key.                       *)
WorkerDies(r) ==
  /\ Serving
  /\ req[r].kind \in {"unlock", "enable"}
  /\ req' = [req EXCEPT ![r] = Failed]
  /\ UNCHANGED <<disk, memory, edit, profile, restore, crashes>>

\* Fault: nobody listens to the worker's exit.
NobodyListens(r) == req[r].kind = "failed" /\ UNCHANGED vars
(* Its exit rejects the promise: the request fails and nothing is opened.  *)
RejectRequest(r) ==
  /\ Serving
  /\ req[r].kind = "failed"
  /\ req' = [req EXCEPT ![r] = Idle]
  /\ UNCHANGED <<disk, memory, edit, profile, restore, crashes>>
---------------------------------------------------------------------------
(* EditModeUC.enable up to the await inside Vault.verifyPassphrase, which  *)
(* has captured the salt and the key buffer of the current session.        *)
StartEnable(r, p) ==
  /\ Serving
  /\ req[r] = Idle
  /\ Unlocked
  /\ req' = [req EXCEPT ![r] = [kind |-> "enable", pass |-> p, obj |-> cur,
                                session |-> objs[cur].session]]
  /\ UNCHANGED <<disk, memory, edit, profile, restore, crashes>>

\* Fault: the key is read after the await instead of before it.
VerifiedAgainstCurrentKey(r) == Unlocked /\ keyOf[SessionId] = RequestKey(r)
(* The comparison reads the captured buffer now: a lock has zeroed it.     *)
Verified(r) ==
  /\ req[r].session \notin zeroed
  /\ keyOf[req[r].session] = RequestKey(r)

FinishEnable(r) ==
  /\ Serving
  /\ req[r].kind = "enable"
  /\ edit' = IF Verified(r) THEN [on |-> TRUE, grantedIn |-> SessionId] ELSE edit
  /\ req' = [req EXCEPT ![r] = Idle]
  /\ UNCHANGED <<disk, memory, profile, restore, crashes>>

Disable ==
  /\ Serving
  /\ edit' = EditOff
  /\ UNCHANGED <<disk, memory, profile, req, restore, crashes>>

(* Anything that only asks whether edit mode is on.                        *)
AskEditMode ==
  /\ Serving
  /\ edit' = CurrentEdit
  /\ UNCHANGED <<disk, memory, profile, req, restore, crashes>>

(* saveIncomeProfile: gated only when one is cached; the cache is set      *)
(* before the settings row is written, and a locked vault refuses the row. *)
SaveProfile(p) ==
  /\ Serving
  /\ profile # None => EditInForce
  /\ profile' = p
  /\ wal' = IF Unlocked THEN [key |-> keyOf[SessionId], rows |-> p] ELSE wal
  /\ edit' = IF profile # None THEN CurrentEdit ELSE edit
  /\ UNCHANGED <<db, meta, superseded, archives, memory, req, restore, crashes>>
---------------------------------------------------------------------------
\* Faults: a locked vault is archived; the log is not checkpointed first.
VaultFileExists == db # None
MainFileOnly == [db |-> db, meta |-> meta]

MayBackUp == Unlocked
ArchiveOf == [db |-> Committed(db, wal), meta |-> meta]
(* BackupUC.create: the log is checkpointed and truncated, then both files *)
(* are read.                                                               *)
CreateBackup ==
  /\ Serving
  /\ MayBackUp
  /\ db' = Committed(db, wal)
  /\ wal' = None
  /\ archives' = archives \cup {ArchiveOf}
  /\ UNCHANGED <<meta, superseded, memory, edit, profile, req, restore, crashes>>

(* BackupUC.restore up to the first write: edit mode and an unlocked vault *)
(* when one is being replaced; the lock; the copy aside of both files.     *)
MayRestore == db # None => EditInForce /\ Unlocked
CopyAside ==
  superseded' = IF db = None THEN superseded
                ELSE [db |-> DbAfterClose(cur), meta |-> meta]

RestoreDb(a) ==
  /\ Serving
  /\ MayRestore
  /\ cur < MaxOpens
  /\ LockMemory
  /\ objs' = HandleClosed
  /\ CopyAside
  /\ wal' = WalAfterClose(cur)
  /\ db' = a.db
  /\ restore' = [phase |-> "meta", archive |-> a]
  /\ UNCHANGED <<meta, archives, cur, sessions, keyOf, req, crashes>>

RestoreMeta ==
  /\ restore.phase = "meta"
  /\ meta' = restore.archive.meta
  /\ restore' = [restore EXCEPT !.phase = "sidecars"]
  /\ UNCHANGED <<db, wal, superseded, archives, memory, edit, profile, req, crashes>>

\* Fault: the log of the replaced vault is left beside the new file.
SidecarsKept == wal
SidecarsEmptied == None
(* The sidecars are emptied and the vault re-opened, locked.               *)
RestoreReopen ==
  /\ restore.phase = "sidecars"
  /\ wal' = SidecarsEmptied
  /\ OpenEffect
  /\ restore' = NotRestoring
  /\ UNCHANGED <<db, meta, superseded, archives, sessions, keyOf, zeroed, edit, profile, req, crashes>>

(* A file that is not an archive is refused only after the lock and the    *)
(* copy: the vault is re-opened, locked, with its files as they were.      *)
RestoreInvalid ==
  /\ Serving
  /\ MayRestore
  /\ cur < MaxOpens
  /\ db' = DbAfterClose(cur)
  /\ wal' = WalAfterClose(cur)
  /\ CopyAside
  /\ LockMemory
  /\ objs' = [HandleClosed EXCEPT ![cur + 1] = ClosedState(meta)]
  /\ cur' = cur + 1
  /\ UNCHANGED <<meta, archives, sessions, keyOf, req, restore, crashes>>

(* The process dies at any point and is started again: the files stay,     *)
(* memory is gone, and boot opens the vault without unlocking it.          *)
Crash ==
  /\ crashes < MaxCrashes
  /\ crashes' = crashes + 1
  /\ objs' = [o \in Opens |-> ClosedState(IF o = 1 THEN meta ELSE OwnSalt)]
  /\ cur' = 1
  /\ sessions' = 0
  /\ keyOf' = [s \in Sessions |-> None]
  /\ zeroed' = {}
  /\ edit' = EditOff
  /\ profile' = None
  /\ req' = [r \in Req |-> Idle]
  /\ restore' = NotRestoring
  /\ UNCHANGED disk
---------------------------------------------------------------------------
Init ==
  /\ db = None
  /\ wal = None
  /\ meta = OwnSalt
  /\ superseded = None
  /\ archives = ForeignArchives
  /\ objs = [o \in Opens |-> ClosedState(OwnSalt)]
  /\ cur = 1
  /\ sessions = 0
  /\ keyOf = [s \in Sessions |-> None]
  /\ zeroed = {}
  /\ edit = EditOff
  /\ profile = None
  /\ req = [r \in Req |-> Idle]
  /\ restore = NotRestoring
  /\ crashes = 0

Finish(r) == FinishUnlock(r) \/ FinishEnable(r) \/ WorkerDies(r) \/ RejectRequest(r)

Next ==
  \/ \E r \in Req, p \in Pass : StartUnlock(r, p) \/ StartEnable(r, p)
  \/ \E r \in Req : Finish(r)
  \/ Lock \/ Disable \/ AskEditMode
  \/ \E p \in Profile : SaveProfile(p)
  \/ CreateBackup
  \/ \E a \in archives : RestoreDb(a)
  \/ RestoreMeta \/ RestoreReopen \/ RestoreInvalid
  \/ Crash

Spec == Init /\ [][Next]_vars

(* A worker posts its key, exits or errors, each of which settles the      *)
(* promise, and a restore runs to its end once it has begun.               *)
Fairness ==
  /\ \A r \in Req : WF_vars(Finish(r))
  /\ WF_vars(RestoreMeta)
  /\ WF_vars(RestoreReopen)

FairSpec == Spec /\ Fairness
---------------------------------------------------------------------------
(* Edit mode is never in force on a locked vault: a grant carries a        *)
(* session number and the undefined one is never granted (edit-mode.ts).   *)
EditNeedsUnlocked == EditInForce => Unlocked

(* Edit mode comes into force only when a request that was submitted in    *)
(* the session now open ends with that session's own passphrase: no lock,  *)
(* unlock, restore or late verification of another session grants it.      *)
GrantedForThisSession ==
  [][~EditInForce /\ EditInForce' =>
       \E r \in Req :
          /\ req[r].kind = "enable" /\ req'[r] = Idle
          /\ req[r].session = SessionId
          /\ keyOf[SessionId].pass = req[r].pass]_vars

(* The key of the open session is the key the file is encrypted with, its  *)
(* salt is the one beside it: what is committed can be read again.         *)
SessionKeyOpensVault ==
  Serving /\ Unlocked => db # None /\ keyOf[SessionId] = db.key /\ meta = db.key.salt

(* Unlocked, the cached income profile is the committed settings row       *)
(* (use-cases.ts: "Cached in memory and written through to the vault").    *)
CacheMatchesVault == Unlocked => profile = Committed(db, wal).rows

(* Every archive taken carries the salt its database opens with, also      *)
(* after a restore was cut short between its two writes (backup.ts).       *)
ArchivesOpenable == \A a \in archives : a.meta = a.db.key.salt

(* An archive holds everything committed when it was taken, not only what  *)
(* was checkpointed (backup.ts: "Checkpoint FIRST").                       *)
ArchiveComplete ==
  [][\A a \in archives' \ archives : a.db = Committed(db, wal)]_vars

(* The copy put aside by a restore holds every commit of the vault it      *)
(* replaces, as long as no other handle keeps the log from being folded.   *)
SupersededComplete ==
  [][restore'.phase = "meta" /\ Serving /\ db # None /\ ~OthersOpen(cur) =>
       superseded'.db = Committed(db, wal)]_vars

(* Whatever is written away holds every commit there is: the archive of a  *)
(* backup, and the copy a restore leaves of the vault it replaces.         *)
ArchivesComplete == ArchiveComplete /\ SupersededComplete

(* A restore that ran to its end leaves the archive's rows and salt, even  *)
(* if a log was left behind, and the vault locked with nothing cached.     *)
RestoreYieldsArchive ==
  [][restore.phase = "sidecars" /\ Serving' /\ crashes' = crashes =>
       /\ Committed(db', wal') = restore.archive.db
       /\ meta' = restore.archive.meta
       /\ ~Unlocked' /\ ~EditInForce' /\ profile' = None]_vars

(* Every request waiting on the derivation worker is answered.             *)
EveryRequestAnswered == \A r \in Req : req[r] # Idle ~> req[r] = Idle
---------------------------------------------------------------------------
(* Stated by a comment of the code, and not so:                            *)

(* backup-uc.ts: the database is closed BEFORE anything is written, since  *)
(* overwriting the file underneath a live handle corrupts both.            *)
NoHandleWhileRestoring == ~Serving => \A o \in Opens : ~objs[o].open
=============================================================================
