------------------------ MODULE VaultSessionProofs ------------------------
(***************************************************************************)
(* What VaultSession promises for every set of passphrases, requests,      *)
(* profiles and archives and for every bound.                              *)
(*                                                                         *)
(* SessionInv is the inductive invariant behind all of it.  Its core says  *)
(* which key buffers are still readable: a buffer that was captured by a   *)
(* pending verification and is not yet zeroed belongs to the session that  *)
(* is open now.  EditNeedsUnlocked alone is not inductive: a verification  *)
(* that finishes late needs that fact.                                     *)
(*                                                                         *)
(* At the end: what an archive, the copy a restore puts aside and a        *)
(* restored vault hold, which rest on the same invariant.                  *)
(***************************************************************************)
EXTENDS VaultSession, TLAPS

\* A pending request names a passphrase and an OpenState object.
RequestsOK ==
  \A r \in Req : req[r].kind \in {"unlock", "enable"} =>
                   req[r].pass \in Pass /\ req[r].obj \in Opens

\* Sessions of open handles are numbered, distinct and not zeroed; a closed
\* handle has none.
HandlesOK ==
  /\ zeroed \subseteq 1..sessions
  /\ \A o \in Opens : IF objs[o].open THEN objs[o].session \in 1..sessions \ zeroed
                                      ELSE objs[o].session = 0
  /\ \A o, p \in Opens : objs[o].open /\ objs[p].open /\ o # p => objs[o].session # objs[p].session

\* A captured buffer that still holds its key is the open session's.
BuffersOK ==
  \A r \in Req : req[r].kind = "enable" =>
    /\ req[r].session \in 1..sessions
    /\ req[r].session \notin zeroed => Unlocked /\ objs[cur].session = req[r].session

\* A grant names a session that has existed.
GrantOK == edit.on => edit.grantedIn \in 1..sessions

\* Restoring, the vault is locked and the archive is known.
RestoreOK ==
  ~Serving => ~Unlocked /\ restore.archive \in Archive

\* The open session can read the file, its log and its salt.
FilesOK ==
  /\ Serving => objs[cur].salt = meta
  /\ Serving /\ Unlocked =>
       /\ db # None
       /\ keyOf[objs[cur].session] = db.key
       /\ meta = db.key.salt
       /\ wal # None => wal.key = db.key

SessionInv ==
  /\ TypeOK
  /\ RequestsOK
  /\ HandlesOK
  /\ BuffersOK
  /\ GrantOK
  /\ RestoreOK
  /\ FilesOK
  /\ CacheMatchesVault
  /\ ArchivesOpenable
---------------------------------------------------------------------------
LEMMA InitEstablishes == Init => SessionInv
<1> SUFFICES ASSUME Init PROVE SessionInv
  OBVIOUS
<1> USE VaultConstants, ForeignArchivesOpen DEF Init
<1>1. TypeOK
  BY DEF TypeOK, Opens, Sessions, ClosedState, Idle, EditOff, NotRestoring, Rows
<1>2. RequestsOK /\ HandlesOK /\ BuffersOK /\ GrantOK
  BY DEF RequestsOK, HandlesOK, BuffersOK, GrantOK, Opens, ClosedState, Idle, EditOff
<1>3. RestoreOK /\ FilesOK /\ CacheMatchesVault /\ ArchivesOpenable
  BY DEF RestoreOK, FilesOK, CacheMatchesVault, ArchivesOpenable, Unlocked, Serving,
         Opens, ClosedState, NotRestoring
<1>4. QED
  BY <1>1, <1>2, <1>3 DEF SessionInv

(* A step that starts, abandons or rejects a request touches only req.     *)
LEMMA RequestOnly ==
  ASSUME SessionInv, TypeOK', RequestsOK', BuffersOK',
         UNCHANGED <<disk, memory, edit, profile, restore, crashes>>
  PROVE  SessionInv'
<1> USE DEF SessionInv, disk, memory
<1>1. HandlesOK' /\ GrantOK' /\ RestoreOK' /\ FilesOK'
  BY DEF HandlesOK, GrantOK, RestoreOK, FilesOK, Unlocked, Serving
<1>2. CacheMatchesVault' /\ ArchivesOpenable'
  BY DEF CacheMatchesVault, ArchivesOpenable, Unlocked, Committed
<1>3. QED
  BY <1>1, <1>2

LEMMA RequestStep ==
  ASSUME SessionInv, NEW r \in Req, NEW p \in Pass, StartUnlock(r, p) \/ StartEnable(r, p)
  PROVE  SessionInv'
<1> USE VaultConstants DEF SessionInv, StartUnlock, StartEnable, disk, memory
<1>1. TypeOK'
  <2>1. CASE StartUnlock(r, p)
    BY <2>1 DEF TypeOK, Opens
  <2>2. CASE StartEnable(r, p)
    BY <2>2 DEF TypeOK, Opens
  <2>3. QED
    BY <2>1, <2>2
<1>2. RequestsOK'
  BY DEF RequestsOK, TypeOK, Idle
<1>3. BuffersOK'
  <2>1. CASE StartUnlock(r, p)
    BY <2>1 DEF BuffersOK, TypeOK, Unlocked
  <2>2. CASE StartEnable(r, p)
    <3>1. objs[cur].session \in 1..sessions \ zeroed
      BY <2>2 DEF HandlesOK, TypeOK, Unlocked
    <3>2. QED
      BY <2>2, <3>1 DEF BuffersOK, TypeOK, Unlocked
  <2>3. QED
    BY <2>1, <2>2
<1>4. QED
  BY <1>1, <1>2, <1>3, RequestOnly

LEMMA AbandonStep ==
  ASSUME SessionInv, NEW r \in Req, WorkerDies(r) \/ RejectRequest(r)
  PROVE  SessionInv'
<1> USE VaultConstants
<1>1. UNCHANGED <<disk, memory, edit, profile, restore, crashes>>
  BY DEF WorkerDies, RejectRequest
<1>2. PICK q \in {Idle, Failed} : req' = [req EXCEPT ![r] = q]
  BY DEF WorkerDies, RejectRequest
<1>3. q.kind \notin {"unlock", "enable"}
  BY DEF Idle, Failed
<1>4. TypeOK'
  BY <1>1, <1>2 DEF SessionInv, TypeOK, Idle, Failed, disk, memory
<1>5. RequestsOK'
  BY <1>2, <1>3 DEF SessionInv, RequestsOK, TypeOK
<1>6. BuffersOK'
  BY <1>1, <1>2, <1>3 DEF SessionInv, BuffersOK, TypeOK, Unlocked, memory
<1>7. QED
  BY <1>1, <1>4, <1>5, <1>6, RequestOnly

OpenState == [salt : Salt, open : BOOLEAN, session : 0..MaxSessions]

(* The record of a closed handle keeps its salt and has no session.        *)
LEMMA HandleClosedType ==
  ASSUME TypeOK
  PROVE  /\ HandleClosed \in [Opens -> OpenState]
         /\ HandleClosed[cur] = ClosedState(objs[cur].salt)
         /\ \A o \in Opens \ {cur} : HandleClosed[o] = objs[o]
<1>1. objs \in [Opens -> OpenState] /\ cur \in Opens
  BY DEF TypeOK, OpenState
<1>2. ClosedState(objs[cur].salt) \in OpenState
  BY <1>1, VaultConstants DEF OpenState, ClosedState
<1>3. QED
  BY <1>1, <1>2 DEF HandleClosed

(* Closing the current handle zeroes its buffer and touches no other: what *)
(* a lock and both forms of restore have in common.                        *)
LEMMA ClosingStep ==
  ASSUME SessionInv, LockMemory, objs' = HandleClosed, UNCHANGED <<cur, sessions, req>>
  PROVE  ~Unlocked' /\ RequestsOK' /\ HandlesOK' /\ BuffersOK' /\ GrantOK'
<1> USE VaultConstants DEF SessionInv, LockMemory, HandleClosed, KeyZeroed, ClosedState
<1>1. ~Unlocked'
  BY DEF TypeOK, Unlocked
<1>2. RequestsOK'
  BY DEF RequestsOK
<1>3. HandlesOK'
  <2>1. \A o \in Opens : objs'[o].open => o # cur /\ objs[o].open /\ objs'[o] = objs[o]
    BY DEF TypeOK
  <2>2. \A o \in Opens : ~objs'[o].open => objs'[o].session = 0
    BY DEF HandlesOK, TypeOK
  <2>3. {objs[cur].session} \ {0} \subseteq 1..sessions
    BY DEF HandlesOK, TypeOK
  <2>4. \A o \in Opens : o # cur /\ objs[o].open => objs[o].session # objs[cur].session
    BY DEF HandlesOK, TypeOK
  <2>5. QED
    BY <2>1, <2>2, <2>3, <2>4 DEF HandlesOK, TypeOK
<1>4. BuffersOK'
  BY DEF BuffersOK, TypeOK, Unlocked, HandlesOK
<1>5. GrantOK'
  BY DEF GrantOK, EditOff
<1>6. QED
  BY <1>1, <1>2, <1>3, <1>4, <1>5

LEMMA ClosingType ==
  ASSUME TypeOK, LockMemory
  PROVE  /\ DbAfterClose(cur) \in File \cup {None}
         /\ WalAfterClose(cur) \in File \cup {None}
         /\ zeroed' \subseteq Sessions
         /\ edit' \in [on : BOOLEAN, grantedIn : 0..MaxSessions]
         /\ profile' \in Rows
<1> USE VaultConstants DEF TypeOK
<1>1. DbAfterClose(cur) \in File \cup {None} /\ WalAfterClose(cur) \in File \cup {None}
  BY DEF DbAfterClose, WalAfterClose, Folds
<1>2. zeroed' \subseteq Sessions
  <2>1. objs[cur].session \in 0..MaxSessions
    OBVIOUS
  <2>2. {objs[cur].session} \ {0} \subseteq Sessions
    BY <2>1 DEF Sessions
  <2>3. QED
    BY <2>2 DEF LockMemory, KeyZeroed
<1>3. QED
  BY <1>1, <1>2 DEF LockMemory, EditOff, Rows

LEMMA LockStep == SessionInv /\ Lock => SessionInv'
<1> SUFFICES ASSUME SessionInv, Lock PROVE SessionInv'
  OBVIOUS
<1> USE VaultConstants
<1>1. TypeOK'
  BY HandleClosedType, ClosingType DEF SessionInv, Lock, TypeOK, OpenState
<1>2. ~Unlocked' /\ RequestsOK' /\ HandlesOK' /\ BuffersOK' /\ GrantOK'
  BY ClosingStep DEF Lock
<1>3. RestoreOK' /\ CacheMatchesVault' /\ ArchivesOpenable'
  BY <1>2 DEF SessionInv, Lock, RestoreOK, Serving, CacheMatchesVault, ArchivesOpenable
<1>4. FilesOK'
  BY <1>2, HandleClosedType DEF SessionInv, Lock, FilesOK, Serving, ClosedState
<1>5. QED
  BY <1>1, <1>2, <1>3, <1>4 DEF SessionInv

LEMMA RestoreDbStep ==
  ASSUME SessionInv, NEW a \in archives, RestoreDb(a)
  PROVE  SessionInv'
<1> USE VaultConstants
<1>1. a \in Archive
  BY DEF SessionInv, TypeOK
<1>2. TypeOK'
  <2>1. superseded' \in Archive \cup {None}
    <3>1. db # None => DbAfterClose(cur) \in File
      BY DEF SessionInv, TypeOK, DbAfterClose, Folds
    <3>2. QED
      BY <3>1 DEF SessionInv, RestoreDb, CopyAside, TypeOK, Archive
  <2>2. db' \in File /\ restore' \in [phase : {"no", "meta", "sidecars"}, archive : Archive \cup {None}]
    BY <1>1 DEF RestoreDb, Archive
  <2>3. QED
    BY <2>1, <2>2, HandleClosedType, ClosingType DEF SessionInv, RestoreDb, TypeOK, OpenState
<1>3. ~Unlocked' /\ RequestsOK' /\ HandlesOK' /\ BuffersOK' /\ GrantOK'
  BY ClosingStep DEF RestoreDb
<1>4. RestoreOK' /\ FilesOK' /\ CacheMatchesVault' /\ ArchivesOpenable'
  BY <1>1, <1>3 DEF SessionInv, RestoreDb, RestoreOK, FilesOK, Serving, CacheMatchesVault, ArchivesOpenable
<1>5. QED
  BY <1>2, <1>3, <1>4 DEF SessionInv

LEMMA RestoreMetaStep == SessionInv /\ RestoreMeta => SessionInv'
<1> SUFFICES ASSUME SessionInv, RestoreMeta PROVE SessionInv'
  OBVIOUS
<1> USE VaultConstants DEF SessionInv, RestoreMeta, memory
<1>1. ~Serving /\ restore.archive \in Archive
  BY DEF RestoreOK, Serving
<1>2. TypeOK'
  BY <1>1 DEF TypeOK, Archive
<1>3. RequestsOK' /\ HandlesOK' /\ BuffersOK' /\ GrantOK'
  BY DEF RequestsOK, HandlesOK, BuffersOK, GrantOK, Unlocked
<1>4. RestoreOK' /\ FilesOK' /\ CacheMatchesVault' /\ ArchivesOpenable'
  BY <1>1 DEF RestoreOK, FilesOK, CacheMatchesVault, ArchivesOpenable, Serving, Unlocked, TypeOK
<1>5. QED
  BY <1>2, <1>3, <1>4

(* The fresh object is closed, so every captured buffer must be zeroed by  *)
(* now: the vault was locked all through the restore.                      *)
LEMMA RestoreReopenStep == SessionInv /\ RestoreReopen => SessionInv'
<1> SUFFICES ASSUME SessionInv, RestoreReopen PROVE SessionInv'
  OBVIOUS
<1> USE VaultConstants DEF SessionInv, RestoreReopen, OpenEffect, ClosedState
<1>1. ~Serving /\ ~Unlocked /\ Serving'
  BY DEF RestoreOK, Serving, NotRestoring
<1>2. cur + 1 \in Opens /\ cur' = cur + 1 /\ objs' = [objs EXCEPT ![cur + 1] = ClosedState(meta)]
  BY <1>1 DEF TypeOK, Opens
<1>3. ~Unlocked' /\ objs'[cur'].salt = meta'
  BY <1>2 DEF TypeOK, Unlocked
<1>4. TypeOK'
  BY <1>2 DEF TypeOK, SidecarsEmptied, NotRestoring
<1>5. RequestsOK' /\ GrantOK'
  BY DEF RequestsOK, GrantOK
<1>6. HandlesOK'
  BY <1>2 DEF HandlesOK, TypeOK
<1>7. BuffersOK'
  BY <1>1 DEF BuffersOK
<1>8. RestoreOK' /\ FilesOK' /\ CacheMatchesVault' /\ ArchivesOpenable'
  BY <1>1, <1>3 DEF RestoreOK, FilesOK, CacheMatchesVault, ArchivesOpenable
<1>9. QED
  BY <1>4, <1>5, <1>6, <1>7, <1>8

LEMMA RestoreInvalidStep == SessionInv /\ RestoreInvalid => SessionInv'
<1> SUFFICES ASSUME SessionInv, RestoreInvalid PROVE SessionInv'
  OBVIOUS
<1> USE VaultConstants
<1>1. cur + 1 \in Opens /\ cur \in Opens /\ cur + 1 # cur /\ cur' = cur + 1
  BY DEF SessionInv, TypeOK, RestoreInvalid, Opens
<1>2. /\ objs' = [HandleClosed EXCEPT ![cur + 1] = ClosedState(meta)]
      /\ HandleClosed \in [Opens -> OpenState]
      /\ HandleClosed[cur] = ClosedState(objs[cur].salt)
      /\ \A o \in Opens \ {cur} : HandleClosed[o] = objs[o]
  BY HandleClosedType DEF SessionInv, RestoreInvalid
<1>3. TypeOK'
  <2>1. superseded' \in Archive \cup {None}
    <3>1. db # None => DbAfterClose(cur) \in File
      BY DEF SessionInv, TypeOK, DbAfterClose, Folds
    <3>2. QED
      BY <3>1 DEF SessionInv, RestoreInvalid, CopyAside, TypeOK, Archive
  <2>2. objs' \in [Opens -> OpenState]
    BY <1>1, <1>2 DEF SessionInv, TypeOK, OpenState, ClosedState
  <2>3. QED
    BY <1>1, <2>1, <2>2, ClosingType DEF SessionInv, RestoreInvalid, TypeOK, OpenState
<1>4. ~Unlocked' /\ objs'[cur'].salt = meta
  BY <1>1, <1>2 DEF Unlocked, ClosedState
<1>5. \A o \in Opens : objs'[o].open => o # cur /\ objs[o].open /\ objs'[o] = objs[o]
  BY <1>1, <1>2 DEF ClosedState
<1>6. \A o \in Opens : ~objs'[o].open => objs'[o].session = 0
  BY <1>1, <1>2 DEF ClosedState, SessionInv, HandlesOK
<1>7. zeroed' = zeroed \cup ({objs[cur].session} \ {0}) /\ sessions' = sessions
  BY DEF RestoreInvalid, LockMemory, KeyZeroed
<1>8. HandlesOK'
  <2>1. {objs[cur].session} \ {0} \subseteq 1..sessions
    BY DEF SessionInv, HandlesOK, TypeOK
  <2>2. \A o \in Opens : o # cur /\ objs[o].open => objs[o].session # objs[cur].session
    BY DEF SessionInv, HandlesOK, TypeOK
  <2>3. zeroed' \subseteq 1..sessions'
    BY <1>7, <2>1 DEF SessionInv, HandlesOK
  <2>4. \A o \in Opens : objs'[o].open => objs'[o].session \in 1..sessions' \ zeroed'
    BY <1>5, <1>7, <2>2 DEF SessionInv, HandlesOK
  <2>5. \A o, p \in Opens : objs'[o].open /\ objs'[p].open /\ o # p =>
                                objs'[o].session # objs'[p].session
    BY <1>5 DEF SessionInv, HandlesOK
  <2>6. QED
    BY <1>6, <2>3, <2>4, <2>5 DEF HandlesOK
<1>9. BuffersOK'
  BY <1>7 DEF SessionInv, BuffersOK, RestoreInvalid, Unlocked, HandlesOK, TypeOK
<1>10. RequestsOK' /\ GrantOK' /\ RestoreOK' /\ FilesOK' /\ CacheMatchesVault' /\ ArchivesOpenable'
  BY <1>4 DEF SessionInv, RestoreInvalid, LockMemory, EditOff, RequestsOK, GrantOK, RestoreOK,
              FilesOK, CacheMatchesVault, ArchivesOpenable, Serving
<1>11. QED
  BY <1>3, <1>8, <1>9, <1>10 DEF SessionInv
---------------------------------------------------------------------------
(* Opening a session: its number is new, so no captured buffer, zeroed     *)
(* buffer or grant can name it.                                            *)
LEMMA OpenSessionStep ==
  ASSUME SessionInv, NEW r \in Req, FinishUnlock(r), OpenSession(r)
  PROVE  SessionInv'
<1> DEFINE o == req[r].obj
<1> DEFINE new == [salt |-> objs[o].salt, open |-> TRUE, session |-> sessions + 1]
<1> USE VaultConstants
<1>1. /\ o \in Opens /\ req[r].pass \in Pass /\ objs[o] \in OpenState /\ cur \in Opens
      /\ sessions \in Nat /\ sessions + 1 \in Sessions /\ ~objs[o].open
  BY DEF SessionInv, TypeOK, RequestsOK, FinishUnlock, OpenSession, OpenState, Sessions
<1>2. RequestKey(r) \in Key /\ RequestKey(r).salt = objs[o].salt
  BY <1>1 DEF RequestKey, Key, OpenState
<1>3. objs' = [objs EXCEPT ![o] = new] /\ new \in OpenState
  BY <1>1 DEF OpenSession, OpenState, Sessions
<1>4. \A q \in Opens : objs'[q] = IF q = o THEN new ELSE objs[q]
  BY <1>1, <1>3 DEF SessionInv, TypeOK
<1>5. db' \in File /\ (db # None => db' = db)
  BY <1>2 DEF SessionInv, TypeOK, OpenSession, File, Rows
<1>6. Unlocked' => profile' = Committed(db', wal').rows
  BY DEF OpenSession, LoadCaches, Unlocked
<1>7. profile' \in Rows
  BY <1>5 DEF OpenSession, LoadCaches, Committed, SessionInv, TypeOK, File, Rows
<1>8. TypeOK'
  <2>1. keyOf' \in [Sessions -> Key \cup {None}]
    BY <1>1, <1>2 DEF SessionInv, TypeOK, OpenSession
  <2>2. req' \in [Req -> [kind : {"idle", "unlock", "enable", "failed"}, pass : Pass \cup {None},
                          obj : 0..MaxOpens, session : 0..MaxSessions]]
    BY DEF SessionInv, TypeOK, FinishUnlock, Idle
  <2>3. objs' \in [Opens -> OpenState] /\ sessions' \in 0..MaxSessions
    BY <1>1, <1>3 DEF SessionInv, TypeOK, OpenState, OpenSession, Sessions
  <2>4. QED
    BY <1>5, <1>7, <2>1, <2>2, <2>3 DEF SessionInv, TypeOK, OpenSession, FinishUnlock, OpenState
<1>9. RequestsOK'
  BY DEF SessionInv, RequestsOK, FinishUnlock, Idle, TypeOK
<1>10. HandlesOK'
  <2>1. sessions' = sessions + 1 /\ zeroed' = zeroed /\ zeroed' \subseteq 1..sessions'
    BY <1>1 DEF SessionInv, HandlesOK, OpenSession
  <2>2. \A q \in Opens : IF objs'[q].open THEN objs'[q].session \in 1..sessions' \ zeroed'
                                         ELSE objs'[q].session = 0
    BY <1>1, <1>4, <2>1 DEF SessionInv, HandlesOK
  <2>3. \A q \in Opens : q # o /\ objs[q].open => objs[q].session # sessions + 1
    BY <1>1 DEF SessionInv, HandlesOK
  <2>4. QED
    BY <1>1, <1>4, <2>1, <2>2, <2>3 DEF SessionInv, HandlesOK
<1>11. BuffersOK'
  BY <1>1, <1>4 DEF SessionInv, BuffersOK, OpenSession, FinishUnlock, Unlocked, Idle, TypeOK
<1>12. GrantOK' /\ RestoreOK'
  BY <1>1 DEF SessionInv, GrantOK, RestoreOK, OpenSession, FinishUnlock, Serving
<1>13. FilesOK'
  <2>1. objs'[cur'].salt = objs[cur].salt /\ meta' = meta /\ wal' = wal
    BY <1>1, <1>4 DEF OpenSession
  <2>2. ASSUME o = cur PROVE FilesOK'
    <3>1. objs'[cur'].session = sessions + 1 /\ keyOf'[sessions + 1] = RequestKey(r)
      BY <1>1, <1>4, <2>2 DEF SessionInv, TypeOK, OpenSession
    <3>2. db'.key = RequestKey(r) /\ db' # None
      BY <1>5 DEF OpenSession, PassesQuickCheck, File
    <3>3. wal' # None => wal'.key = RequestKey(r)
      BY <2>1 DEF OpenSession, PassesQuickCheck
    <3>4. QED
      BY <1>2, <2>1, <2>2, <3>1, <3>2, <3>3 DEF SessionInv, FilesOK, FinishUnlock
  <2>3. ASSUME o # cur PROVE FilesOK'
    <3>1. objs'[cur'] = objs[cur] /\ cur' = cur
      BY <1>1, <1>4, <2>3 DEF OpenSession
    <3>2. Unlocked => objs[cur].session \in 1..sessions
      BY <1>1 DEF SessionInv, HandlesOK, Unlocked
    <3>3. Unlocked => keyOf'[objs[cur].session] = keyOf[objs[cur].session]
      BY <1>1, <3>2 DEF OpenSession, SessionInv, TypeOK, Sessions
    <3>4. QED
      BY <1>5, <2>1, <3>1, <3>3 DEF SessionInv, FilesOK, Unlocked, FinishUnlock, Serving
  <2>4. QED
    BY <2>2, <2>3
<1>14. CacheMatchesVault' /\ ArchivesOpenable'
  BY <1>6 DEF CacheMatchesVault, SessionInv, ArchivesOpenable, OpenSession
<1>15. QED
  BY <1>8, <1>9, <1>10, <1>11, <1>12, <1>13, <1>14 DEF SessionInv

LEMMA FinishUnlockStep ==
  ASSUME SessionInv, NEW r \in Req, FinishUnlock(r)
  PROVE  SessionInv'
<1>1. CASE OpenSession(r)
  BY <1>1, OpenSessionStep
<1>2. CASE ReUnlock(r) \/ WrongKey(r)
  <2> USE <1>2, VaultConstants DEF SessionInv, FinishUnlock, ReUnlock, WrongKey, disk, memory
  <2>1. profile' \in Rows
    <3>1. Unlocked => db # None
      BY DEF FilesOK
    <3>2. Unlocked => Committed(db, wal) \in File
      BY <3>1 DEF TypeOK, Committed
    <3>3. CASE ReUnlock(r)
      BY <3>2, <3>3 DEF LoadCaches, Unlocked, Committed, File, Rows
    <3>4. CASE WrongKey(r)
      BY <3>4 DEF TypeOK
    <3>5. QED
      BY <3>3, <3>4
  <2>2. TypeOK' /\ RequestsOK'
    BY <2>1 DEF TypeOK, RequestsOK, Idle
  <2>3. BuffersOK'
    BY DEF BuffersOK, Unlocked, Idle, TypeOK
  <2>6. HandlesOK' /\ GrantOK' /\ RestoreOK' /\ FilesOK'
    BY DEF HandlesOK, GrantOK, RestoreOK, FilesOK, Unlocked, Serving
  <2>4. CacheMatchesVault' /\ ArchivesOpenable'
    BY DEF CacheMatchesVault, ArchivesOpenable, LoadCaches, Unlocked, Committed
  <2>5. QED
    BY <2>2, <2>3, <2>4, <2>6
<1>3. QED
  BY <1>1, <1>2 DEF FinishUnlock

---------------------------------------------------------------------------
(* A verified request was made in the session that is still open: its      *)
(* buffer is not zeroed and holds the open session's key.                  *)
LEMMA VerifiedIsCurrent ==
  ASSUME SessionInv, NEW r \in Req, req[r].kind = "enable", Verified(r)
  PROVE  /\ Unlocked /\ req[r].session = SessionId
         /\ SessionId \in 1..sessions
         /\ keyOf[SessionId].pass = req[r].pass
<1>1. req[r].session \in 1..sessions /\ Unlocked /\ objs[cur].session = req[r].session
  BY DEF SessionInv, BuffersOK, Verified
<1>2. keyOf[req[r].session] = RequestKey(r)
  BY DEF Verified
<1>3. QED
  BY <1>1, <1>2 DEF SessionId, RequestKey

LEMMA EditStep ==
  ASSUME SessionInv, (\E r \in Req : FinishEnable(r)) \/ Disable \/ AskEditMode
  PROVE  SessionInv'
<1> USE VaultConstants
<1>1. edit' \in [on : BOOLEAN, grantedIn : 0..MaxSessions] /\ GrantOK'
  <2>1. CASE \E r \in Req : FinishEnable(r)
    <3>1. PICK r \in Req : FinishEnable(r)
      BY <2>1
    <3>2. CASE Verified(r)
      BY <3>1, <3>2, VerifiedIsCurrent DEF FinishEnable, GrantOK, SessionInv, TypeOK, memory
    <3>3. CASE ~Verified(r)
      BY <3>1, <3>3 DEF FinishEnable, GrantOK, SessionInv, TypeOK, memory
    <3>4. QED
      BY <3>2, <3>3
  <2>2. CASE Disable \/ AskEditMode
    <3>1. edit' \in {edit, EditOff} /\ sessions' = sessions
      BY <2>2 DEF Disable, AskEditMode, CurrentEdit, memory
    <3>2. CASE edit' = edit
      BY <3>1, <3>2 DEF GrantOK, SessionInv, TypeOK
    <3>3. CASE edit' = EditOff
      BY <3>3 DEF EditOff, GrantOK
    <3>4. QED
      BY <3>1, <3>2, <3>3
  <2>3. QED
    BY <2>1, <2>2
<1>2. UNCHANGED <<disk, memory, profile, restore, crashes>>
  BY DEF FinishEnable, Disable, AskEditMode
<1>3. \A q \in Req : req'[q] = req[q] \/ req'[q] = Idle
  BY DEF FinishEnable, Disable, AskEditMode, SessionInv, TypeOK
<1>4. req' \in [Req -> [kind : {"idle", "unlock", "enable", "failed"}, pass : Pass \cup {None},
                        obj : 0..MaxOpens, session : 0..MaxSessions]]
  BY DEF FinishEnable, Disable, AskEditMode, SessionInv, TypeOK, Idle
<1>5. TypeOK'
  BY <1>1, <1>2, <1>4 DEF SessionInv, TypeOK, disk, memory
<1>6. RequestsOK'
  BY <1>3 DEF SessionInv, RequestsOK, Idle
<1>7. BuffersOK'
  BY <1>2, <1>3 DEF SessionInv, BuffersOK, Idle, Unlocked, memory
<1>8. HandlesOK' /\ RestoreOK' /\ FilesOK'
  BY <1>2 DEF SessionInv, HandlesOK, RestoreOK, FilesOK, Unlocked, Serving, memory, disk
<1>9. CacheMatchesVault' /\ ArchivesOpenable'
  BY <1>2 DEF SessionInv, CacheMatchesVault, ArchivesOpenable, Unlocked, memory, disk
<1>10. QED
  BY <1>1, <1>5, <1>6, <1>7, <1>8, <1>9 DEF SessionInv

LEMMA SaveProfileStep ==
  ASSUME SessionInv, NEW p \in Profile, SaveProfile(p)
  PROVE  SessionInv'
<1> USE VaultConstants DEF SessionInv, SaveProfile, memory
<1>1. Unlocked => /\ keyOf[SessionId] = db.key /\ db \in File
  BY DEF FilesOK, SessionId, TypeOK
<1>2. wal' = (IF Unlocked THEN [key |-> db.key, rows |-> p] ELSE wal)
  BY <1>1
<1>3. TypeOK'
  BY <1>1, <1>2 DEF TypeOK, File, Rows, CurrentEdit, EditOff
<1>4. RequestsOK' /\ HandlesOK' /\ BuffersOK' /\ RestoreOK'
  BY DEF RequestsOK, HandlesOK, BuffersOK, RestoreOK, Unlocked, Serving
<1>5. GrantOK'
  BY DEF GrantOK, CurrentEdit, EditOff
<1>6. FilesOK'
  BY <1>2 DEF FilesOK, Serving, Unlocked
<1>7. CacheMatchesVault' /\ ArchivesOpenable'
  <2>1. Unlocked => wal' # None /\ wal'.rows = p
    BY <1>1, <1>2 DEF File, Rows
  <2>2. QED
    BY <2>1 DEF CacheMatchesVault, ArchivesOpenable, Unlocked, Committed
<1>8. QED
  BY <1>3, <1>4, <1>5, <1>6, <1>7

LEMMA CreateBackupStep == SessionInv /\ CreateBackup => SessionInv'
<1> SUFFICES ASSUME SessionInv, CreateBackup PROVE SessionInv'
  OBVIOUS
<1> USE VaultConstants DEF SessionInv, CreateBackup, memory, MayBackUp
<1>1. Committed(db, wal) \in File /\ Committed(db, wal).key = db.key /\ meta = db.key.salt
  BY DEF FilesOK, TypeOK, Committed
<1>2. ArchiveOf \in Archive /\ ArchiveOf.meta = ArchiveOf.db.key.salt
  BY <1>1 DEF ArchiveOf, Archive, TypeOK
<1>3. TypeOK' /\ ArchivesOpenable'
  BY <1>1, <1>2 DEF TypeOK, ArchivesOpenable
<1>4. RequestsOK' /\ HandlesOK' /\ BuffersOK' /\ GrantOK' /\ RestoreOK'
  BY DEF RequestsOK, HandlesOK, BuffersOK, GrantOK, RestoreOK, Unlocked, Serving
<1>5. FilesOK'
  BY <1>1 DEF FilesOK, Serving, Unlocked
<1>6. CacheMatchesVault'
  BY DEF CacheMatchesVault, Unlocked, Committed
<1>7. QED
  BY <1>3, <1>4, <1>5, <1>6

LEMMA CrashStep == SessionInv /\ Crash => SessionInv'
<1> SUFFICES ASSUME SessionInv, Crash PROVE SessionInv'
  OBVIOUS
<1> USE VaultConstants DEF SessionInv, Crash, disk, ClosedState
<1>1. 1 \in Opens /\ \A o \in Opens : objs'[o] = ClosedState(IF o = 1 THEN meta ELSE OwnSalt)
  BY DEF Opens
<1>2. TypeOK'
  BY DEF TypeOK, Opens, Sessions, EditOff, Idle, NotRestoring, Rows
<1>3. RequestsOK' /\ BuffersOK' /\ GrantOK' /\ HandlesOK'
  BY <1>1 DEF RequestsOK, BuffersOK, GrantOK, HandlesOK, EditOff, Idle
<1>4. RestoreOK' /\ FilesOK' /\ CacheMatchesVault' /\ ArchivesOpenable'
  BY <1>1 DEF RestoreOK, FilesOK, CacheMatchesVault, ArchivesOpenable, Unlocked, Serving, NotRestoring
<1>5. QED
  BY <1>2, <1>3, <1>4

LEMMA NextPreserves == SessionInv /\ [Next]_vars => SessionInv'
<1> SUFFICES ASSUME SessionInv, [Next]_vars PROVE SessionInv'
  OBVIOUS
<1>1. CASE \E r \in Req, p \in Pass : StartUnlock(r, p) \/ StartEnable(r, p)
  BY <1>1, RequestStep
<1>2. CASE \E r \in Req : Finish(r)
  <2>1. PICK r \in Req : Finish(r)
    BY <1>2
  <2>2. CASE FinishUnlock(r)
    BY <2>2, FinishUnlockStep
  <2>3. CASE FinishEnable(r)
    BY <2>3, EditStep
  <2>4. CASE WorkerDies(r) \/ RejectRequest(r)
    BY <2>4, AbandonStep
  <2>5. QED
    BY <2>1, <2>2, <2>3, <2>4 DEF Finish
<1>3. CASE Lock \/ Disable \/ AskEditMode \/ CreateBackup \/ Crash
  BY <1>3, LockStep, EditStep, CreateBackupStep, CrashStep
<1>4. CASE \E p \in Profile : SaveProfile(p)
  BY <1>4, SaveProfileStep
<1>5. CASE \E a \in archives : RestoreDb(a)
  BY <1>5, RestoreDbStep
<1>6. CASE RestoreMeta \/ RestoreReopen \/ RestoreInvalid
  BY <1>6, RestoreMetaStep, RestoreReopenStep, RestoreInvalidStep
<1>7. CASE UNCHANGED vars
  BY <1>7 DEF vars, disk, memory, SessionInv, TypeOK, RequestsOK, HandlesOK, BuffersOK, GrantOK,
              RestoreOK, FilesOK, CacheMatchesVault, ArchivesOpenable, Unlocked, Serving, Committed
<1>8. QED
  BY <1>1, <1>2, <1>3, <1>4, <1>5, <1>6, <1>7 DEF Next
---------------------------------------------------------------------------
(* SessionInv holds in every reachable state.                              *)
THEOREM SessionInvariant == Spec => []SessionInv
  BY InitEstablishes, NextPreserves, PTL DEF Spec

(* Type correctness of the session (vault.ts, edit-mode.ts, backup.ts).    *)
THEOREM TypeCorrect == Spec => []TypeOK
<1>1. SessionInv => TypeOK
  BY DEF SessionInv
<1>2. QED
  BY <1>1, SessionInvariant, PTL

(* Edit mode is never in force on a locked vault (edit-mode.ts current):   *)
(* a grant names a session that existed, and a locked vault is in none.    *)
THEOREM EditModeNeedsUnlocked == Spec => []EditNeedsUnlocked
<1>1. SessionInv => EditNeedsUnlocked
  BY VaultConstants DEF SessionInv, TypeOK, GrantOK, EditNeedsUnlocked, EditInForce, SessionId
<1>2. QED
  BY <1>1, SessionInvariant, PTL

(* Edit mode comes into force only by a verification that was asked for in *)
(* the session now open, with its passphrase (EditModeUC.enable).          *)
THEOREM GrantsAreForThisSession == Spec => GrantedForThisSession
<1> DEFINE Granted == \E r \in Req :
                        /\ req[r].kind = "enable" /\ req'[r] = Idle
                        /\ req[r].session = SessionId
                        /\ keyOf[SessionId].pass = req[r].pass
<1>1. ASSUME SessionInv, [Next]_vars, ~EditInForce, EditInForce'
      PROVE  Granted
  <2>1. CASE \E r \in Req : FinishEnable(r) /\ Verified(r)
    <3>1. PICK r \in Req : FinishEnable(r) /\ Verified(r)
      BY <2>1
    <3>2. req'[r] = Idle /\ req[r].kind = "enable"
      BY <1>1, <3>1 DEF FinishEnable, SessionInv, TypeOK
    <3>3. QED
      BY <1>1, <3>1, <3>2, VerifiedIsCurrent
  <2>2. CASE edit' = EditOff
    BY <1>1, <2>2 DEF EditInForce, EditOff
  <2>3. CASE edit' = edit /\ SessionId' = SessionId
    BY <1>1, <2>3 DEF EditInForce
  <2>4. CASE edit' = CurrentEdit /\ SessionId' = SessionId
    BY <1>1, <2>2, <2>4 DEF EditInForce, CurrentEdit
  <2>5. CASE edit' = edit /\ SessionId' \notin 1..sessions
    BY <1>1, <2>5 DEF SessionInv, GrantOK, EditInForce
  <2>6. \/ \E r \in Req : FinishEnable(r) /\ Verified(r)
        \/ edit' = EditOff
        \/ edit' \in {edit, CurrentEdit} /\ SessionId' = SessionId
        \/ edit' = edit /\ SessionId' \notin 1..sessions
    <3>1. UNCHANGED memory => SessionId' = SessionId
      BY DEF memory, SessionId, Unlocked
    <3>2. CASE \E r \in Req, p \in Pass : StartUnlock(r, p) \/ StartEnable(r, p)
      BY <3>1, <3>2 DEF StartUnlock, StartEnable
    <3>3. ASSUME NEW r \in Req, FinishUnlock(r), OpenSession(r)
          PROVE  edit' = edit /\ (SessionId' = SessionId \/ SessionId' \notin 1..sessions)
      <4>1. cur' = cur /\ cur \in Opens /\ req[r].obj \in Opens /\ sessions \in Nat
        BY <1>1, <3>3 DEF SessionInv, TypeOK, RequestsOK, FinishUnlock, OpenSession
      <4>2. CASE req[r].obj = cur
        <5>1. objs'[cur'] = [salt |-> objs[cur].salt, open |-> TRUE, session |-> sessions + 1]
          BY <1>1, <3>3, <4>1, <4>2 DEF OpenSession, SessionInv, TypeOK
        <5>2. SessionId' = sessions + 1
          BY <5>1 DEF SessionId, Unlocked
        <5>3. QED
          BY <3>3, <4>1, <5>2 DEF FinishUnlock
      <4>3. CASE req[r].obj # cur
        <5>1. objs'[cur'] = objs[cur]
          BY <1>1, <3>3, <4>1, <4>3 DEF OpenSession, SessionInv, TypeOK
        <5>2. QED
          BY <3>3, <5>1 DEF SessionId, Unlocked, FinishUnlock
      <4>4. QED
        BY <4>2, <4>3
    <3>4. CASE \E r \in Req : Finish(r)
      BY <3>1, <3>3, <3>4 DEF Finish, FinishUnlock, ReUnlock, WrongKey, FinishEnable,
                              WorkerDies, RejectRequest
    <3>5. CASE Lock \/ Disable \/ Crash \/ RestoreInvalid \/ \E a \in archives : RestoreDb(a)
      BY <3>5 DEF Lock, Disable, Crash, RestoreInvalid, RestoreDb, LockMemory
    <3>6. CASE AskEditMode \/ CreateBackup \/ RestoreMeta \/ UNCHANGED vars
      BY <3>1, <3>6 DEF AskEditMode, CreateBackup, RestoreMeta, vars
    <3>7. CASE \E p \in Profile : SaveProfile(p)
      BY <3>1, <3>7 DEF SaveProfile
    <3>8. CASE RestoreReopen
      <4>1. ~Unlocked
        BY <1>1, <3>8 DEF SessionInv, RestoreOK, RestoreReopen, Serving
      <4>2. cur' = cur + 1 /\ cur + 1 \in Opens /\ objs' = [objs EXCEPT ![cur + 1] = ClosedState(meta)]
        BY <1>1, <3>8, <4>1, VaultConstants DEF RestoreReopen, OpenEffect, SessionInv, TypeOK, Opens
      <4>3. ~objs'[cur'].open
        BY <1>1, <4>2 DEF SessionInv, TypeOK, ClosedState
      <4>4. SessionId' = 0 /\ 0 \notin 1..sessions
        BY <1>1, <4>3, VaultConstants DEF SessionId, Unlocked, SessionInv, TypeOK
      <4>5. QED
        BY <3>8, <4>4 DEF RestoreReopen
    <3>9. QED
      BY <1>1, <3>2, <3>4, <3>5, <3>6, <3>7, <3>8 DEF Next
  <2>7. QED
    BY <2>1, <2>2, <2>3, <2>4, <2>5, <2>6
<1>2. SessionInv /\ [Next]_vars => [~EditInForce /\ EditInForce' => Granted]_vars
  BY <1>1
<1>3. QED
  BY <1>2, SessionInvariant, PTL DEF Spec, GrantedForThisSession

(* What the open session committed can be read again with its key and the  *)
(* salt on disk (Vault.unlock, BackupUC.restore).                          *)
THEOREM SessionKeyOpens == Spec => []SessionKeyOpensVault
<1>1. SessionInv => SessionKeyOpensVault
  BY DEF SessionInv, FilesOK, SessionKeyOpensVault, SessionId
<1>2. QED
  BY <1>1, SessionInvariant, PTL

(* The cached income profile is the committed one whenever the vault is    *)
(* unlocked (VaultUC.unlock, saveIncomeProfile).                           *)
THEOREM CacheCoherent == Spec => []CacheMatchesVault
<1>1. SessionInv => CacheMatchesVault
  BY DEF SessionInv
<1>2. QED
  BY <1>1, SessionInvariant, PTL

(* No archive is ever taken with a salt that does not open it, even after  *)
(* a restore died between its two writes (BackupUC.create).                *)
THEOREM ArchivesAlwaysOpen == Spec => []ArchivesOpenable
<1>1. SessionInv => ArchivesOpenable
  BY DEF SessionInv
<1>2. QED
  BY <1>1, SessionInvariant, PTL
---------------------------------------------------------------------------
(* An archive holds every commit there was when it was taken, and so does  *)
(* the copy a restore puts aside of the vault it replaces, as long as no   *)
(* other handle keeps the log (BackupUC.create, BackupUC.restore).         *)
THEOREM BackupsAreComplete == Spec => ArchivesComplete
<1> DEFINE Taken == \A a \in archives' \ archives : a.db = Committed(db, wal)
<1> DEFINE Aside == restore'.phase = "meta" /\ Serving /\ db # None /\ ~OthersOpen(cur) =>
                      superseded'.db = Committed(db, wal)
<1>1. ASSUME Next PROVE Taken
  <2>1. CASE CreateBackup
    BY <2>1 DEF CreateBackup, ArchiveOf
  <2>2. CASE archives' = archives
    BY <2>2
  <2>3. CreateBackup \/ archives' = archives
    BY <1>1 DEF Next, Finish, StartUnlock, StartEnable, FinishUnlock, ReUnlock, OpenSession, WrongKey,
                FinishEnable, WorkerDies, RejectRequest, Lock, Disable, AskEditMode, SaveProfile,
                RestoreDb, RestoreMeta, RestoreReopen, RestoreInvalid, Crash, disk
  <2>4. QED
    BY <2>1, <2>2, <2>3
<1>2. ASSUME Next, Serving, restore'.phase = "meta"
      PROVE  \E a \in archives : RestoreDb(a)
  <2>1. restore.phase = "no" /\ restore' # restore
    BY <1>2 DEF Serving
  <2>2. ~(RestoreMeta \/ RestoreReopen \/ Crash)
    BY <1>2, <2>1 DEF RestoreMeta, RestoreReopen, Crash, NotRestoring
  <2>3. QED
    BY <1>2, <2>1, <2>2 DEF
       Next, Finish, StartUnlock, StartEnable, FinishUnlock, FinishEnable, WorkerDies, RejectRequest,
       Lock, Disable, AskEditMode, SaveProfile, CreateBackup, RestoreInvalid
<1>3. ASSUME NEW a \in archives, RestoreDb(a), db # None, ~OthersOpen(cur)
      PROVE  superseded'.db = Committed(db, wal)
  <2>1. objs[cur].open
    BY <1>3 DEF RestoreDb, MayRestore, Unlocked
  <2>2. DbAfterClose(cur) = Committed(db, wal)
    BY <1>3, <2>1 DEF DbAfterClose, Folds, Committed
  <2>3. QED
    BY <1>3, <2>2 DEF RestoreDb, CopyAside
<1>4. [Next]_vars => [Taken]_vars
  BY <1>1
<1>5. [Next]_vars => [Aside]_vars
  BY <1>2, <1>3
<1>6. QED
  BY <1>4, <1>5, PTL DEF Spec, ArchivesComplete, ArchiveComplete, SupersededComplete

(* What a restore has written so far: the archive's database, then its     *)
(* salt; since its lock nothing is cached and no edit mode was granted.    *)
RestoringOK ==
  ~Serving =>
    /\ db = restore.archive.db
    /\ restore.phase = "sidecars" => meta = restore.archive.meta
    /\ edit = EditOff /\ profile = None

(* Nothing but the restore's own steps runs until it is over.              *)
LEMMA RestoringStep == RestoringOK /\ [Next]_vars => RestoringOK'
<1> SUFFICES ASSUME RestoringOK, [Next]_vars PROVE RestoringOK'
  OBVIOUS
<1>1. CASE \E a \in archives : RestoreDb(a)
  BY <1>1 DEF RestoringOK, RestoreDb, LockMemory
<1>2. CASE RestoreMeta
  BY <1>2 DEF RestoringOK, RestoreMeta, Serving
<1>3. CASE RestoreReopen \/ Crash
  BY <1>3 DEF RestoringOK, RestoreReopen, Crash, NotRestoring, Serving
<1>4. CASE UNCHANGED vars
  BY <1>4 DEF RestoringOK, vars, disk, Serving
<1>5. CASE Serving /\ UNCHANGED restore
  BY <1>5 DEF RestoringOK, Serving
<1>6. QED
  BY <1>1, <1>2, <1>3, <1>4, <1>5 DEF
     Next, Finish, StartUnlock, StartEnable, FinishUnlock, FinishEnable, WorkerDies, RejectRequest,
     Lock, Disable, AskEditMode, SaveProfile, CreateBackup, RestoreInvalid

LEMMA RestoringInvariant == Spec => []RestoringOK
<1>1. Init => RestoringOK
  BY DEF Init, RestoringOK, Serving, NotRestoring
<1>2. QED
  BY <1>1, RestoringStep, PTL DEF Spec

(* A restore that runs to its end leaves exactly the rows and the salt of  *)
(* the archive it was given, nothing cached, no edit mode, and the vault   *)
(* locked, whatever the replaced vault still had open or logged            *)
(* (BackupUC.restore).                                                     *)
THEOREM RestoresYieldTheirArchive == Spec => RestoreYieldsArchive
<1> DEFINE Yields == restore.phase = "sidecars" /\ Serving' /\ crashes' = crashes =>
                       /\ Committed(db', wal') = restore.archive.db
                       /\ meta' = restore.archive.meta
                       /\ ~Unlocked' /\ ~EditInForce' /\ profile' = None
<1>1. ASSUME SessionInv, RestoringOK, Next, restore.phase = "sidecars", Serving', crashes' = crashes
      PROVE  RestoreReopen
  <2>1. ~Serving /\ crashes \in Nat
    BY <1>1, VaultConstants DEF Serving, SessionInv, TypeOK
  <2>2. ~Crash
    BY <1>1, <2>1 DEF Crash
  <2>3. QED
    BY <1>1, <2>1, <2>2 DEF
       Next, Finish, StartUnlock, StartEnable, FinishUnlock, FinishEnable, WorkerDies, RejectRequest,
       Lock, Disable, AskEditMode, SaveProfile, CreateBackup, RestoreDb, RestoreMeta, RestoreInvalid
<1>2. ASSUME SessionInv, RestoringOK, RestoreReopen
      PROVE  Yields
  <2>1. ~Serving /\ restore.phase = "sidecars"
    BY <1>2 DEF RestoreReopen, Serving
  <2>2. ~Unlocked'
    <3>1. ~Unlocked
      BY <1>2, <2>1 DEF SessionInv, RestoreOK
    <3>2. cur + 1 \in Opens /\ cur' = cur + 1 /\ objs' = [objs EXCEPT ![cur + 1] = ClosedState(meta)]
      BY <1>2, <3>1, VaultConstants DEF RestoreReopen, OpenEffect, SessionInv, TypeOK, Opens
    <3>3. QED
      BY <1>2, <3>2 DEF SessionInv, TypeOK, Unlocked, ClosedState
  <2>3. edit' = EditOff /\ profile' = None
    BY <1>2, <2>1 DEF RestoringOK, RestoreReopen
  <2>4. Committed(db', wal') = restore.archive.db /\ meta' = restore.archive.meta
    BY <1>2, <2>1 DEF RestoringOK, RestoreReopen, Committed, SidecarsEmptied
  <2>5. QED
    BY <2>2, <2>3, <2>4 DEF EditInForce, EditOff
<1>3. SessionInv /\ RestoringOK /\ [Next]_vars => [Yields]_vars
  BY <1>1, <1>2
<1>4. QED
  BY <1>3, SessionInvariant, RestoringInvariant, PTL DEF Spec, RestoreYieldsArchive
=============================================================================
