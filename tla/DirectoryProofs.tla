-------------------------- MODULE DirectoryProofs ---------------------------
(***************************************************************************)
(* Directory, proved for every number of accounts, requests, directory     *)
(* requests and secrets.  The steps of the server are those of Credentials *)
(* and its lemmas on how a step moves the tables and the evidence apply to *)
(* them unchanged.  Its invariant does not: a directory writes back stale  *)
(* hashes and recovery codes.  What survives is that a counter never goes  *)
(* down while the account is there, that the id of a deleted account never *)
(* returns (OffOrRetired), and that an account counts as signed out only   *)
(* while it is disabled (SignedOutDisabled).                               *)
(***************************************************************************)
EXTENDS Directory, CredentialsProofs

(* Evidence other than a recovery code is spent: for good, also when the   *)
(* account whose counter says so was deleted.                              *)
OffOrRetired(e) ==
  e.kind # "code" => Gone(e) \/ (e.kind = "totp" /\ e.user \in retired)

EvidenceOff ==
  /\ \A p \in Procs : \A e \in req[p].held : OffOrRetired(e)
  /\ \A g \in grants : \A e \in g.held : OffOrRetired(e)

OnlyCodes(S) == \A e \in S : e.kind = "code"

CountersApart ==
  /\ \A p, q \in Procs : p # q => OnlyCodes(req[p].held \cap req[q].held)
  /\ \A p \in Procs : \A g \in grants : OnlyCodes(req[p].held \cap g.held)
  /\ OneSessionPerCounter

SignedOutDisabled == \A u \in signedOut : u \in accounts /\ users[u].status = "inactive"

DirInv ==
  /\ DirTypeOK /\ SecretsMinted /\ EvidenceOff /\ CountersApart
  /\ NoOrphanGrants /\ SignedOutDisabled /\ DisabledStaysSignedOut

----------------------------------------------------------------------------
(* The server inserts a session or a challenge only for an account that is *)
(* there and active in that very step.                                     *)
LEMMA NewGrantsActive ==
  ASSUME [Next]_vars,
         NEW g \in (sessions' \cup challenges') \ (sessions \cup challenges)
  PROVE  g.user \in accounts /\ users[g.user].status = "active"
  <1>1. ASSUME NEW p \in Procs, IssueSession(p) \/ CreateMFAChallenge(p)
        PROVE  g.user \in accounts /\ users[g.user].status = "active"
    BY <1>1 DEF IssueSession, CreateMFAChallenge, WithPassword
  <1>2. ASSUME NEW p \in Procs, SignIn(p), ~(IssueSession(p) \/ CreateMFAChallenge(p))
        PROVE  FALSE
    BY <1>2 DEF SignIn, Login, SSOCallback, ConsumeMFAChallenge, ValidateTOTP,
       RedeemRecoveryCode, SpendTOTPCounter, UpdateRecoveryCodes, tables
  <1>3. ASSUME NEW p \in Procs, Authenticated(p) \/ VerifyPairing(p) \/ End(p)
        PROVE  FALSE
    BY <1>3 DEF Authenticated, AuthSession, AuthUser, Authorize, DeleteSession,
       CompletePasswordChange, RevokePasswordGrants, CreatePairing, VerifyPairing, GetPairing,
       PairingUser, ConsumePairing, End, tables
  <1>4. CASE \/ UNCHANGED vars
             \/ \E t \in Tokens : DropExpiredSession(t) \/ Logout(t) \/ Expire(t)
             \/ \E u \in Ids : ResetAdminPassword(u) \/ CreateAdmin(u)
    BY <1>4 DEF vars, tables, DropExpiredSession, Logout, Expire, ResetAdminPassword,
       RevokePasswordGrants, CreateAdmin
  <1> QED
    BY <1>1, <1>2, <1>3, <1>4 DEF Next

(* A step of the server, beside the directories, keeps the invariant.      *)
LEMMA ServerKeeps ==
  ASSUME DirInv, [Next]_vars, accounts' \cap retired = {}, signedOut' = StillDisabled,
         UNCHANGED <<sync, retired>>
  PROVE  DirInv'
  <1>0. TypeOK /\ TypeOK' /\ accounts \subseteq accounts'
    BY TypeStep, UsersMove DEF DirInv, DirTypeOK
  <1>1. SecretsMinted'
    BY <1>0, SecretsStep DEF DirInv
  <1>2. DirTypeOK'
    BY <1>0 DEF DirInv, DirTypeOK, StillDisabled
  <1>3. NoOrphanGrants'
    BY <1>0, NewGrantsActive DEF DirInv, NoOrphanGrants
  <1>4. SignedOutDisabled'
    BY <1>0 DEF DirInv, SignedOutDisabled, StillDisabled
  <1>5. DisabledStaysSignedOut'
    <2> SUFFICES ASSUME NEW u \in signedOut', NEW s \in sessions', s.user = u PROVE FALSE
      BY DEF DisabledStaysSignedOut, OfUser
    <2>1. u \in signedOut /\ users[u].status = "inactive"
      BY DEF StillDisabled, DirInv, SignedOutDisabled
    <2>2. s \notin sessions
      BY <2>1 DEF DirInv, DisabledStaysSignedOut, OfUser
    <2>3. s \notin challenges
      BY <1>0, <2>2, SessionsMove DEF FreshGrant, DirInv, SecretsMinted
    <2> QED
      BY <2>1, <2>2, <2>3, NewGrantsActive
  <1>6. /\ \A p \in Procs : req[p].held \subseteq Evidence
        /\ \A g \in grants : g.held \subseteq Evidence
    BY <1>0 DEF TypeOK, TablesOK, Request
  <1>7. /\ \A p \in Procs : \A e \in req[p].held : OffOrRetired(e) /\ OffOrRetired(e)'
        /\ \A g \in grants : \A e \in g.held : OffOrRetired(e) /\ OffOrRetired(e)'
    <2>1. \A e \in Evidence : OffOrRetired(e) => OffOrRetired(e)'
      <3> SUFFICES ASSUME NEW e \in Evidence, OffOrRetired(e) PROVE OffOrRetired(e)'
        OBVIOUS
      <3>1. Gone(e) => Gone(e)'
        BY <1>0, GoneForever
      <3> QED
        BY <3>1 DEF OffOrRetired
    <2> QED
      BY <1>6, <2>1 DEF DirInv, EvidenceOff
  <1>8. CASE HoldsLess
    <2>1. EvidenceOff'
      BY <1>7, <1>8 DEF EvidenceOff, HoldsLess
    <2>2. CountersApart'
      BY <1>8 DEF DirInv, CountersApart, OneSessionPerCounter, HoldsLess, OnlyCodes
    <2> QED
      BY <1>1, <1>2, <1>3, <1>4, <1>5, <2>1, <2>2 DEF DirInv
  <1>9. ASSUME NEW p \in Procs, Issues(p) PROVE DirInv'
    <2>1. PICK t : grants' = grants \cup {[sess |-> t, held |-> req[p].held]}
      BY <1>9 DEF Issues
    <2>2. req'[p].held = {} /\ \A q \in Procs : q # p => req'[q] = req[q]
      BY <1>9 DEF Issues, OthersKeep
    <2>3. \A g \in grants' : g \in grants \/ g.held = req[p].held
      BY <2>1
    <2>4. EvidenceOff'
      BY <1>7, <2>2, <2>3 DEF EvidenceOff
    <2>5. \A q, z \in Procs : q # z => OnlyCodes(req'[q].held \cap req'[z].held)
      BY <2>2 DEF DirInv, CountersApart, OnlyCodes
    <2>6. \A q \in Procs : \A g \in grants' : OnlyCodes(req'[q].held \cap g.held)
      BY <2>2, <2>3 DEF DirInv, CountersApart, OnlyCodes
    <2>7. OneSessionPerCounter'
      <3> SUFFICES ASSUME NEW a \in grants', NEW b \in grants', a.sess # b.sess
                   PROVE  OnlyCodes(a.held \cap b.held)
        BY DEF OneSessionPerCounter, OnlyCodes
      <3>1. a \in grants \/ b \in grants
        BY <2>1
      <3>2. CASE a \in grants /\ b \in grants
        BY <3>2 DEF DirInv, CountersApart, OneSessionPerCounter, OnlyCodes
      <3>3. CASE a \notin grants \/ b \notin grants
        BY <2>3, <3>1, <3>3 DEF DirInv, CountersApart, OnlyCodes
      <3> QED
        BY <3>2, <3>3
    <2> QED
      BY <1>1, <1>2, <1>3, <1>4, <1>5, <2>4, <2>5, <2>6, <2>7 DEF DirInv, CountersApart, OnlyCodes
  <1>10. ASSUME NEW p \in Procs, NEW e \in Evidence, Takes(p, e) PROVE DirInv'
    <2>1. /\ grants' = grants /\ ~Gone(e) /\ Gone(e)'
          /\ req'[p].held \subseteq req[p].held \cup {e}
          /\ \A q \in Procs : q # p => req'[q] = req[q]
      BY <1>10 DEF Takes, OthersKeep
    <2>2. e.kind # "code" => ~OffOrRetired(e)
      BY <2>1 DEF OffOrRetired, Gone
    <2>3. e.kind # "code" => /\ \A q \in Procs : e \notin req[q].held
                             /\ \A g \in grants : e \notin g.held
      BY <1>7, <2>2
    <2>4. EvidenceOff'
      BY <1>7, <2>1 DEF EvidenceOff, OffOrRetired
    <2>5. \A q, z \in Procs : q # z => OnlyCodes(req'[q].held \cap req'[z].held)
      BY <2>1, <2>3 DEF DirInv, CountersApart, OnlyCodes
    <2>6. \A q \in Procs : \A g \in grants' : OnlyCodes(req'[q].held \cap g.held)
      BY <2>1, <2>3 DEF DirInv, CountersApart, OnlyCodes
    <2>7. OneSessionPerCounter'
      BY <2>1 DEF DirInv, CountersApart, OneSessionPerCounter
    <2> QED
      BY <1>1, <1>2, <1>3, <1>4, <1>5, <2>4, <2>5, <2>6, <2>7 DEF DirInv, CountersApart, OnlyCodes
  <1> QED
    BY <1>0, <1>8, <1>9, <1>10, HeldMove DEF DirInv

----------------------------------------------------------------------------
(* What the statements of a directory have in common: they insert no       *)
(* session and no challenge, leave the requests alone, and a counter stays *)
(* where it is unless its account is deleted.                              *)
DirectoryMove ==
  /\ sessions' \subseteq sessions /\ challenges' \subseteq challenges
  /\ UNCHANGED <<pairings, minted, expired, nextHash, req, grants>>
  /\ \A u \in accounts : \/ u \in accounts' /\ users'[u].last = users[u].last
                         \/ u \in retired'
  /\ retired \subseteq retired'

(* Such a step keeps every secret minted and all spent evidence spent.     *)
LEMMA DirectoryMoveKeeps ==
  ASSUME DirInv, DirectoryMove
  PROVE  SecretsMinted' /\ EvidenceOff' /\ CountersApart'
  <1>1. SecretsMinted'
    BY DEF DirInv, SecretsMinted, DirectoryMove
  <1>2. ASSUME NEW e, OffOrRetired(e) PROVE OffOrRetired(e)'
    BY <1>2 DEF OffOrRetired, Gone, DirectoryMove
  <1>3. EvidenceOff'
    BY <1>2 DEF DirInv, EvidenceOff, DirectoryMove
  <1>4. CountersApart'
    BY DEF DirInv, CountersApart, OneSessionPerCounter, OnlyCodes, DirectoryMove
  <1> QED
    BY <1>1, <1>3, <1>4

(* The types of the server's part, when a directory step writes users.     *)
LEMMA TypesKept ==
  ASSUME DirInv, DirectoryMove, accounts' \subseteq Ids, users' \in [Ids -> UserRow]
  PROVE  TypeOK'
  BY DEF DirInv, DirTypeOK, TypeOK, TablesOK, LocalOK, DirectoryMove

(* Reading a row for an update, and giving up, change one directory slot.  *)
LEMMA SlotSteps ==
  ASSUME DirInv, NEW w \in Syncs, UNCHANGED <<vars, retired, signedOut>>,
         \/ EndSync(w)
         \/ \E u \in Ids, status \in Status, revoke \in BOOLEAN : ReadRow(w, u, status, revoke)
  PROVE  DirInv'
  <1>1. DirectoryMove
    BY DEF DirectoryMove, vars, tables
  <1>2. TypeOK' /\ NoOrphanGrants' /\ SignedOutDisabled' /\ DisabledStaysSignedOut'
    <2>1. accounts' \subseteq Ids /\ users' \in [Ids -> UserRow]
      BY DEF vars, tables, DirInv, DirTypeOK, TypeOK, TablesOK
    <2> QED
      BY <1>1, <2>1, TypesKept
         DEF vars, tables, DirInv, NoOrphanGrants, SignedOutDisabled, DisabledStaysSignedOut, OfUser
  <1>3. CASE EndSync(w)
    <2>1. NoSync \in SyncReq
      BY DEF NoSync, SyncReq, BlankRow, UserRow, Status
    <2>2. DirTypeOK'
      BY <1>2, <1>3, <2>1 DEF EndSync, DirInv, DirTypeOK, NoSync, vars, tables
    <2> QED
      BY <1>1, <1>2, <2>2, DirectoryMoveKeeps DEF DirInv
  <1>4. ASSUME NEW u \in Ids, NEW status \in Status, NEW revoke \in BOOLEAN,
               ReadRow(w, u, status, revoke)
        PROVE  DirInv'
    <2> DEFINE copy == [users[u] EXCEPT !.status = status]
    <2> DEFINE slot == [pc |-> "update", user |-> u, revoke |-> revoke, row |-> copy]
    <2>1. copy \in UserRow
      <3>1. users[u] \in UserRow
        BY DEF DirInv, DirTypeOK, TypeOK, TablesOK
      <3> QED
        BY <3>1 DEF UserRow
    <2>2. slot \in SyncReq
      BY <2>1, Zenon DEF SyncReq
    <2>3. sync' = [sync EXCEPT ![w] = slot]
      BY <1>4 DEF ReadRow
    <2>4. slot.user \in Ids
      OBVIOUS
    <2> HIDE DEF slot
    <2>5. DirTypeOK'
      BY <1>2, <2>2, <2>3, <2>4 DEF DirInv, DirTypeOK, vars, tables
    <2> QED
      BY <1>1, <1>2, <2>5, DirectoryMoveKeeps DEF DirInv
  <1> QED
    BY <1>3, <1>4

(* The whole row but its counter is written back from the copy: whether    *)
(* the account is still signed out is decided by the status written.       *)
LEMMA UpdateStep ==
  ASSUME DirInv, NEW w \in Syncs, UpdateUser(w)
  PROVE  DirInv'
  <1> DEFINE u == sync[w].user
  <1> DEFINE new == [sync[w].row EXCEPT !.last = users[u].last]
  <1> DEFINE slot == IF sync[w].revoke
                     THEN [sync[w] EXCEPT !.pc = "revoke", !.row = BlankRow] ELSE NoSync
  <1>0. /\ sync[w] \in SyncReq /\ users \in [Ids -> UserRow] /\ accounts \subseteq Ids
        /\ TypeOK /\ sync \in [Syncs -> SyncReq]
    BY DEF DirInv, DirTypeOK, TypeOK, TablesOK
  <1>1. /\ u \in accounts /\ u \in Ids
        /\ users' = [users EXCEPT ![u] = new] /\ sync' = [sync EXCEPT ![w] = slot]
        /\ signedOut' = StillDisabled
        /\ UNCHANGED <<accounts, sessions, challenges, pairings, minted, expired, nextHash,
                       req, grants, retired>>
    BY <1>0 DEF UpdateUser
  <1>2. new \in UserRow /\ new.last = users[u].last
    <2>1. sync[w].row \in UserRow /\ users[u] \in UserRow
      BY <1>0, <1>1 DEF SyncReq
    <2> QED
      BY <2>1 DEF UserRow
  <1>3. slot \in SyncReq /\ (slot.pc # "idle" => slot.user \in Ids)
    <2>1. CASE sync[w].revoke
      <3>1. slot = [sync[w] EXCEPT !.pc = "revoke", !.row = BlankRow]
        BY <2>1
      <3> HIDE DEF slot
      <3> QED
        BY <1>0, <1>1, <3>1, BlankRowType, Zenon DEF SyncReq
    <2>2. CASE ~sync[w].revoke
      BY <2>2, BlankRowType DEF NoSync, SyncReq
    <2> QED
      BY <2>1, <2>2
  <1> HIDE DEF new, slot
  <1>4. users' \in [Ids -> UserRow] /\ users'[u] = new /\ \A v \in Ids : v # u => users'[v] = users[v]
    BY <1>0, <1>1, <1>2
  <1>5. DirectoryMove
    BY <1>0, <1>1, <1>2, <1>4 DEF DirectoryMove
  <1>6. TypeOK'
    BY <1>0, <1>1, <1>4, <1>5, TypesKept
  <1>7. DirTypeOK'
    <2>1. sync' \in [Syncs -> SyncReq] /\ \A x \in Syncs : sync'[x].pc # "idle" => sync'[x].user \in Ids
      BY <1>0, <1>1, <1>3 DEF DirInv, DirTypeOK
    <2> QED
      BY <1>1, <1>6, <2>1 DEF DirInv, DirTypeOK, StillDisabled
  <1>8. NoOrphanGrants' /\ SignedOutDisabled' /\ DisabledStaysSignedOut'
    BY <1>1 DEF DirInv, NoOrphanGrants, SignedOutDisabled, DisabledStaysSignedOut, OfUser, StillDisabled
  <1> QED
    BY <1>5, <1>7, <1>8, DirectoryMoveKeeps DEF DirInv

(* Signing a disabled account out.                                         *)
LEMMA SignOutStep ==
  ASSUME DirInv, NEW w \in Syncs, DeleteUserSessions(w)
  PROVE  DirInv'
  <1> DEFINE u == sync[w].user
  <1>1. /\ sessions' = sessions \ OfUser(sessions, u)
        /\ signedOut' = (IF u \in accounts /\ users[u].status = "inactive"
                         THEN signedOut \cup {u} ELSE signedOut)
        /\ sync' = [sync EXCEPT ![w] = NoSync]
        /\ UNCHANGED <<accounts, users, challenges, pairings, minted, expired, nextHash,
                       req, grants, retired>>
    BY DEF DeleteUserSessions
  <1>2. DirectoryMove
    BY <1>1 DEF DirectoryMove
  <1>3. TypeOK'
    <2>1. accounts' \subseteq Ids /\ users' \in [Ids -> UserRow]
      BY <1>1 DEF DirInv, DirTypeOK, TypeOK, TablesOK
    <2> QED
      BY <1>2, <2>1, TypesKept
  <1>4. DirTypeOK'
    <2>1. NoSync \in SyncReq
      BY BlankRowType DEF NoSync, SyncReq
    <2>2. sync' \in [Syncs -> SyncReq] /\ \A x \in Syncs : sync'[x].pc # "idle" => sync'[x].user \in Ids
      BY <1>1, <2>1 DEF DirInv, DirTypeOK, NoSync
    <2> QED
      BY <1>1, <1>3, <2>2 DEF DirInv, DirTypeOK
  <1>5. NoOrphanGrants' /\ SignedOutDisabled' /\ DisabledStaysSignedOut'
    BY <1>1 DEF DirInv, NoOrphanGrants, SignedOutDisabled, DisabledStaysSignedOut, OfUser
  <1> QED
    BY <1>2, <1>4, <1>5, DirectoryMoveKeeps DEF DirInv

(* A new account has an id no account ever had.                            *)
LEMMA CreateStep ==
  ASSUME DirInv, NEW u \in Ids, NEW status \in Status, CreateUser(u, status)
  PROVE  DirInv'
  <1> DEFINE new == [BlankRow EXCEPT !.status = status, !.local = FALSE]
  <1>0. users \in [Ids -> UserRow] /\ accounts \subseteq Ids
    BY DEF DirInv, DirTypeOK, TypeOK, TablesOK
  <1>1. /\ u \notin accounts /\ u \notin retired /\ accounts' = accounts \cup {u}
        /\ users' = [users EXCEPT ![u] = new]
        /\ UNCHANGED <<sessions, challenges, pairings, minted, expired, nextHash,
                       req, grants, sync, retired, signedOut>>
    BY DEF CreateUser
  <1>2. new \in UserRow
    BY BlankRowType DEF BlankRow, UserRow
  <1> HIDE DEF new
  <1>3. users' \in [Ids -> UserRow] /\ \A v \in Ids : v # u => users'[v] = users[v]
    BY <1>0, <1>1, <1>2
  <1>4. DirectoryMove
    BY <1>0, <1>1, <1>3 DEF DirectoryMove
  <1>5. DirTypeOK'
    BY <1>0, <1>1, <1>3, <1>4, TypesKept DEF DirInv, DirTypeOK
  <1>6. NoOrphanGrants' /\ SignedOutDisabled' /\ DisabledStaysSignedOut'
    BY <1>0, <1>1, <1>3
       DEF DirInv, NoOrphanGrants, SignedOutDisabled, DisabledStaysSignedOut, OfUser
  <1> QED
    BY <1>4, <1>5, <1>6, DirectoryMoveKeeps DEF DirInv

(* A deleted account takes its sessions and challenges with it.            *)
LEMMA DeleteStep ==
  ASSUME DirInv, NEW u \in Ids, DeleteUser(u)
  PROVE  DirInv'
  <1>0. users \in [Ids -> UserRow] /\ accounts \subseteq Ids
    BY DEF DirInv, DirTypeOK, TypeOK, TablesOK
  <1>1. /\ u \in accounts /\ accounts' = accounts \ {u}
        /\ users' = [users EXCEPT ![u] = BlankRow]
        /\ sessions' = sessions \ OfUser(sessions, u)
        /\ challenges' = challenges \ OfUser(challenges, u)
        /\ retired' = retired \cup {u} /\ signedOut' = signedOut \ {u}
        /\ UNCHANGED <<pairings, minted, expired, nextHash, req, grants, sync>>
    BY DEF DeleteUser
  <1>2. users' \in [Ids -> UserRow] /\ \A v \in Ids : v # u => users'[v] = users[v]
    BY <1>0, <1>1, BlankRowType
  <1>3. DirectoryMove
    BY <1>0, <1>1, <1>2 DEF DirectoryMove
  <1>4. DirTypeOK'
    BY <1>0, <1>1, <1>2, <1>3, TypesKept DEF DirInv, DirTypeOK
  <1>5. NoOrphanGrants' /\ SignedOutDisabled' /\ DisabledStaysSignedOut'
    BY <1>0, <1>1, <1>2
       DEF DirInv, NoOrphanGrants, SignedOutDisabled, DisabledStaysSignedOut, OfUser
  <1> QED
    BY <1>3, <1>4, <1>5, DirectoryMoveKeeps DEF DirInv

----------------------------------------------------------------------------
(* Nothing is issued, spent, deleted or under way at the start.            *)
LEMMA DirInvInit == DirInit => DirInv
  <1> SUFFICES ASSUME DirInit PROVE DirInv
    OBVIOUS
  <1>1. Init /\ TypeOK
    BY InitType DEF DirInit
  <1>2. sync = [w \in Syncs |-> NoSync] /\ retired = {} /\ signedOut = {}
    BY DEF DirInit
  <1>3. NoSync \in SyncReq
    BY BlankRowType DEF NoSync, SyncReq
  <1>4. DirTypeOK
    BY <1>1, <1>2, <1>3 DEF DirTypeOK, NoSync
  <1>5. SecretsMinted /\ NoOrphanGrants /\ SignedOutDisabled /\ DisabledStaysSignedOut
    BY <1>1, <1>2
       DEF Init, SecretsMinted, NoOrphanGrants, SignedOutDisabled, DisabledStaysSignedOut
  <1>6. EvidenceOff /\ CountersApart
    BY <1>1 DEF Init, Idle, EvidenceOff, CountersApart, OneSessionPerCounter, OnlyCodes
  <1> QED
    BY <1>4, <1>5, <1>6 DEF DirInv

(* Every step of the server and of the directories keeps the invariant.    *)
LEMMA DirInvStep == DirInv /\ [DirNext]_dirVars => DirInv'
  <1> SUFFICES ASSUME DirInv, [DirNext]_dirVars PROVE DirInv'
    OBVIOUS
  <1>1. CASE ServerStep
    BY <1>1, ServerKeeps DEF ServerStep
  <1>2. ASSUME NEW w \in Syncs, NEW u \in Ids, NEW status \in Status,
               PatchUser(w, u, status) \/ HandleSyncWebhook(w, u, status)
        PROVE  DirInv'
    <2>1. Changes(u, status) \in BOOLEAN /\ TRUE \in BOOLEAN
      BY DEF Changes
    <2>2. PICK revoke \in BOOLEAN : ReadRow(w, u, status, revoke)
      BY <1>2, <2>1 DEF PatchUser, HandleSyncWebhook
    <2> QED
      BY <2>2, SlotSteps DEF ReadRow
  <1>3. ASSUME NEW w \in Syncs, UpdateUser(w) \/ DeleteUserSessions(w) \/ EndSync(w)
        PROVE  DirInv'
    BY <1>3, UpdateStep, SignOutStep, SlotSteps DEF EndSync
  <1>4. ASSUME NEW u \in Ids, NEW status \in Status, CreateUser(u, status) PROVE DirInv'
    BY <1>4, CreateStep
  <1>5. ASSUME NEW u \in Ids, DeleteUser(u) PROVE DirInv'
    BY <1>5, DeleteStep
  <1>6. CASE UNCHANGED dirVars
    <2>1. StillDisabled = signedOut
      BY <1>6 DEF dirVars, vars, tables, StillDisabled, DirInv, SignedOutDisabled
    <2>2. accounts' \cap retired = {} /\ UNCHANGED <<vars, sync, retired, signedOut>>
      BY <1>6 DEF dirVars, vars, tables, DirInv, DirTypeOK
    <2> QED
      BY <2>1, <2>2, ServerKeeps
  <1> QED
    BY <1>1, <1>2, <1>3, <1>4, <1>5, <1>6 DEF DirNext

(* The inductive invariant of the server beside the directories.           *)
THEOREM DirectoryInv == DirSpec => []DirInv
  BY DirInvInit, DirInvStep, PTL DEF DirSpec

(* Types, and the id of a deleted account never returns.                   *)
THEOREM DirectoryTypes == DirSpec => []DirTypeOK
  <1>1. DirInv => DirTypeOK
    BY DEF DirInv
  <1> QED
    BY DirectoryInv, <1>1, PTL

(* An account whose sessions were deleted after it was disabled has no     *)
(* session until something enables it again, whatever sign-ins were under  *)
(* way: IssueSession checks the status in its own transaction.             *)
THEOREM DisabledSignedOut == DirSpec => []DisabledStaysSignedOut
  <1>1. DirInv => DisabledStaysSignedOut
    BY DEF DirInv
  <1> QED
    BY DirectoryInv, <1>1, PTL

(* No session and no challenge is left to an account that was deleted.     *)
THEOREM GrantsHaveAccounts == DirSpec => []NoOrphanGrants
  <1>1. DirInv => NoOrphanGrants
    BY DEF DirInv
  <1> QED
    BY DirectoryInv, <1>1, PTL

(* A TOTP counter, a challenge and a pairing pay for one session, although *)
(* the directories write stale copies of the row that holds the counter.   *)
THEOREM CounterUsedOnce == DirSpec => []OneSessionPerCounter
  <1>1. DirInv => OneSessionPerCounter
    BY DEF DirInv, CountersApart
  <1> QED
    BY DirectoryInv, <1>1, PTL

=============================================================================
