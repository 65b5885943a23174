----------------------------- MODULE Directory -----------------------------
(***************************************************************************)
(* Credentials composed with the directories that write the same users     *)
(* table: SCIM (create, replace, patch, delete) and the KySignOn webhook   *)
(* (created, updated, deactivated, deleted).                               *)
(*                                                                         *)
(* Both change an account by reading its row, editing the copy and writing *)
(* every column of it back, the credential columns included, except        *)
(* totp_last_counter.  Sessions are deleted afterwards by a statement of   *)
(* its own, for the webhook's deactivated event always and otherwise when  *)
(* the row it had READ held another status.  (Roles are treated exactly as *)
(* the status is; the status stands for both.)                             *)
(***************************************************************************)
EXTENDS Credentials

CONSTANT Syncs   \* slots for SCIM and webhook requests

VARIABLES
  sync,          \* program counter and locals of each directory request
  retired,       \* ids of deleted accounts: a new account has a new id
  signedOut      \* history: accounts whose sessions were deleted after they
                 \* were disabled, and that have been disabled ever since

dirVars == <<vars, sync, retired, signedOut>>

NoSync  == [pc |-> "idle", user |-> None, row |-> BlankRow, revoke |-> FALSE]
SyncReq == [pc: {"idle", "update", "revoke"}, user: Ids \cup {None},
            row: UserRow, revoke: BOOLEAN]

DirInit ==
  /\ Init
  /\ sync = [w \in Syncs |-> NoSync]
  /\ retired = {}
  /\ signedOut = {}

----------------------------------------------------------------------------
StillDisabled == {u \in signedOut : users'[u].status = "inactive"}

(* The row is read and the copy given the status asked for.                *)
ReadRow(w, u, status, revoke) ==
  /\ sync[w].pc = "idle"
  /\ u \in accounts
  /\ sync' = [sync EXCEPT ![w] =
       [pc |-> "update", user |-> u, revoke |-> revoke,
        row |-> [users[u] EXCEPT !.status = status]]]
  /\ UNCHANGED <<vars, retired, signedOut>>

Changes(u, status) == users[u].status # status

(* SCIM replace and patch, of any account.                                 *)
PatchUser(w, u, status) == ReadRow(w, u, status, Changes(u, status))

(* The webhook finds only accounts of its own provider.                    *)
HandleSyncWebhook(w, u, status) ==
  /\ ~users[u].local
  /\ \/ ReadRow(w, u, status, Changes(u, status))                \* updated
     \/ status = "inactive" /\ ReadRow(w, u, status, TRUE)       \* deactivated

(* Mutant of UpdateUser: totp_last_counter is written from the copy too.   *)
UpdateUserAllColumns(w) ==
  LET u == sync[w].user IN
  /\ sync[w].pc = "update"
  /\ u \in accounts
  /\ users' = [users EXCEPT ![u] = sync[w].row]
  /\ sync' = [sync EXCEPT ![w] = IF sync[w].revoke
                                 THEN [@ EXCEPT !.pc = "revoke", !.row = BlankRow]
                                 ELSE NoSync]
  /\ signedOut' = StillDisabled
  /\ UNCHANGED <<accounts, sessions, challenges, pairings,
                 minted, expired, nextHash, req, grants, retired>>

(* Every column but totp_last_counter is written from the copy.            *)
UpdateUser(w) ==
  LET u == sync[w].user IN
  /\ sync[w].pc = "update"
  /\ u \in accounts
  /\ users' = [users EXCEPT ![u] = [sync[w].row EXCEPT !.last = users[u].last]]
  /\ sync' = [sync EXCEPT ![w] = IF sync[w].revoke
                                 THEN [@ EXCEPT !.pc = "revoke", !.row = BlankRow]
                                 ELSE NoSync]
  /\ signedOut' = StillDisabled
  /\ UNCHANGED <<accounts, sessions, challenges, pairings,
                 minted, expired, nextHash, req, grants, retired>>

DeleteUserSessions(w) ==
  LET u == sync[w].user IN
  /\ sync[w].pc = "revoke"
  /\ sessions' = sessions \ OfUser(sessions, u)
  /\ signedOut' = IF u \in accounts /\ users[u].status = "inactive"
                  THEN signedOut \cup {u} ELSE signedOut
  /\ sync' = [sync EXCEPT ![w] = NoSync]
  /\ UNCHANGED <<accounts, users, challenges, pairings,
                 minted, expired, nextHash, req, grants, retired>>

(* The request ends early: its row is gone, its user name is taken, the    *)
(* sender hung up or the process died.  The error of the last statement is *)
(* ignored by SCIM, so nothing retries it.                                 *)
EndSync(w) ==
  /\ sync[w].pc # "idle"
  /\ sync' = [sync EXCEPT ![w] = NoSync]
  /\ UNCHANGED <<vars, retired, signedOut>>

(* Mutant of CreateUser: the id of a deleted account comes back.           *)
CreateUserOldId(u, status) ==
  /\ u \notin accounts
  /\ accounts' = accounts \cup {u}
  /\ users' = [users EXCEPT ![u] =
       [BlankRow EXCEPT !.status = status, !.local = FALSE]]
  /\ UNCHANGED <<sessions, challenges, pairings, minted, expired, nextHash,
                 req, grants, sync, retired, signedOut>>

(* SCIM create, the webhook's created, and the provisioning half of the    *)
(* SSO callback: an account with an empty password hash.                   *)
CreateUser(u, status) ==
  /\ u \notin accounts \cup retired
  /\ accounts' = accounts \cup {u}
  /\ users' = [users EXCEPT ![u] =
       [BlankRow EXCEPT !.status = status, !.local = FALSE]]
  /\ UNCHANGED <<sessions, challenges, pairings, minted, expired, nextHash,
                 req, grants, sync, retired, signedOut>>

(* Mutant of DeleteUser: foreign keys not enforced, nothing cascades.      *)
DeleteUserNoCascade(u) ==
  /\ u \in accounts
  /\ accounts' = accounts \ {u}
  /\ users' = [users EXCEPT ![u] = BlankRow]
  /\ retired' = retired \cup {u}
  /\ signedOut' = signedOut \ {u}
  /\ UNCHANGED <<sessions, challenges, pairings, minted, expired, nextHash,
                 req, grants, sync>>

(* The foreign keys of sessions and mfa_challenges cascade; device_pairings *)
(* has none.                                                               *)
DeleteUser(u) ==
  /\ u \in accounts
  /\ accounts' = accounts \ {u}
  /\ users' = [users EXCEPT ![u] = BlankRow]
  /\ sessions' = sessions \ OfUser(sessions, u)
  /\ challenges' = challenges \ OfUser(challenges, u)
  /\ retired' = retired \cup {u}
  /\ signedOut' = signedOut \ {u}
  /\ UNCHANGED <<pairings, minted, expired, nextHash, req, grants, sync>>

(* The server's own work goes on unchanged beside the directories.         *)
ServerStep ==
  /\ Next
  /\ accounts' \cap retired = {}
  /\ signedOut' = StillDisabled
  /\ UNCHANGED <<sync, retired>>

DirNext ==
  \/ ServerStep
  \/ \E w \in Syncs, u \in Ids, status \in Status :
       PatchUser(w, u, status) \/ HandleSyncWebhook(w, u, status)
  \/ \E w \in Syncs : UpdateUser(w) \/ DeleteUserSessions(w) \/ EndSync(w)
  \/ \E u \in Ids, status \in Status : CreateUser(u, status)
  \/ \E u \in Ids : DeleteUser(u)

DirSpec == DirInit /\ [][DirNext]_dirVars

----------------------------------------------------------------------------
(* Types; a directory request under way knows its account, the id of a     *)
(* deleted account never returns, and only accounts that are there count   *)
(* as signed out.                                                          *)
DirTypeOK ==
  /\ TypeOK
  /\ sync \in [Syncs -> SyncReq]
  /\ \A w \in Syncs : sync[w].pc # "idle" => sync[w].user \in Ids
  /\ retired \subseteq Ids \ accounts
  /\ signedOut \subseteq accounts

(* A TOTP counter, an MFA challenge and a pairing stay good for one        *)
(* session whatever the directories write: UpdateUser leaves               *)
(* totp_last_counter alone, and nothing brings a consumed row back.        *)
OneSessionPerCounter ==
  \A a, b \in grants :
    (a.sess # b.sess) => \A e \in a.held \cap b.held : e.kind = "code"

(* Disabling an account signs it out for good: once its sessions have been *)
(* deleted, none appears until something enables it again, although a      *)
(* sign-in that read the account before may still be under way.            *)
DisabledStaysSignedOut ==
  \A u \in signedOut : OfUser(sessions, u) = {}

(* The foreign keys: no session and no challenge outlives its account.     *)
NoOrphanGrants ==
  \A g \in sessions \cup challenges : g.user \in accounts

=============================================================================
