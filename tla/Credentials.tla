---------------------------- MODULE Credentials ----------------------------
(***************************************************************************)
(* Sign-in, MFA, device pairing, request authentication and password       *)
(* replacement of the server, over the credential tables of the store.     *)
(*                                                                         *)
(* A request is a process that runs its handler one database statement (or *)
(* one transaction) at a time and keeps what it read in locals: that is    *)
(* where two requests, and the init-admin command run from a shell on the  *)
(* same database, interleave.  The rate limiter, the proof of work and the *)
(* comparison of a password with its hash decide only whether a request    *)
(* goes on, so they appear as the choice between a step and End.           *)
(***************************************************************************)
EXTENDS Naturals, FiniteSets

CONSTANTS
  Ids,         \* user ids
  Procs,       \* request slots: at most this many requests at once
  Tokens,      \* random secrets: session tokens, MFA tokens, pairing secrets
  Codes,       \* the recovery codes an account may hold
  None,        \* the value of a local that is not set
  MaxHash,     \* bound: password hashes computed by a behaviour
  MaxCounter,  \* bound: TOTP time-step counters a code may stand for
  MaxExpired   \* bound: secrets that expire in a behaviour

ASSUME CredentialsAssumption ==
  /\ MaxHash \in Nat /\ MaxCounter \in Nat /\ MaxExpired \in Nat
  /\ None \notin Ids \cup Tokens \cup Codes \cup Nat

VARIABLES
  accounts,    \* ids that have a row in users
  users,       \* the users table
  sessions,    \* the sessions table; field hash is a history field
  challenges,  \* the mfa_challenges table
  pairings,    \* the device_pairings table; field hash is a history field
  minted,      \* secrets generated so far (RandomHex never repeats one)
  expired,     \* secrets whose expires_at has passed
  nextHash,    \* the next password hash: salted, so never equal to an old one
  req,         \* program counter and locals of each request
  grants       \* history: each session issued, with the evidence it cost

tables == <<accounts, users, sessions, challenges, pairings>>
vars   == <<tables, minted, expired, nextHash, req, grants>>

----------------------------------------------------------------------------
(* The rows.  A password hash is a number; recovery_codes_hash is the set  *)
(* of codes not yet blanked; last is totp_last_counter.                    *)

Status  == {"active", "inactive"}
UserRow == [hash: Nat, must: BOOLEAN, status: Status, local: BOOLEAN,
            totp: BOOLEAN, codes: SUBSET Codes, last: Nat]
Grant   == [tok: Tokens, user: Ids, hash: Nat]
Pairing == [tok: Tokens, user: Ids, hash: Nat, status: {"pending", "consumed"}]

(* A one-time proof that a session is issued on: an MFA challenge or a     *)
(* pairing (by its secret), a TOTP counter or a recovery code of a user.   *)
Evidence == [kind: {"challenge", "pairing", "totp", "code"},
             user: Ids, item: Tokens \cup Codes \cup Nat]
Proof(kind, u, x) == [kind |-> kind, user |-> u, item |-> x]

Steps == {"idle", "challenge", "issue", "mfa_user", "totp", "recovery",
          "auth_user", "recheck", "product", "create_pairing",
          "change_password", "delete_session", "pair_user", "consume_pairing"}

BlankRow == [hash |-> 0, must |-> FALSE, status |-> "inactive",
             local |-> TRUE, totp |-> FALSE, codes |-> {}, last |-> 0]
Idle     == [pc |-> "idle", user |-> None, tok |-> None, hash |-> 0,
             row |-> BlankRow, item |-> None, held |-> {}]
Request  == [pc: Steps, user: Ids \cup {None}, tok: Tokens \cup {None},
             hash: Nat, row: UserRow,
             item: Codes \cup Nat \cup {None}, held: SUBSET Evidence]

(* An account as earlier work of the server left it: a bootstrapped admin, *)
(* an enrolled, a disabled or an SSO account.                              *)
Account == {r \in [hash: {0}, must: BOOLEAN, status: Status, local: BOOLEAN,
                   totp: BOOLEAN, codes: {{}, Codes}, last: {0}] :
              /\ r.codes = (IF r.totp THEN Codes ELSE {})
              /\ r.must => r.local}

Init ==
  /\ accounts \in SUBSET Ids
  /\ users \in [Ids -> Account]
  /\ \A u \in Ids \ accounts : users[u] = BlankRow
  /\ sessions = {} /\ challenges = {} /\ pairings = {}
  /\ minted = {} /\ expired = {}
  /\ nextHash = 1
  /\ req = [p \in Procs |-> Idle]
  /\ grants = {}

----------------------------------------------------------------------------
At(p, step) == req[p].pc = step

Become(p, r)  == req' = [req EXCEPT ![p] = r]
Goto(p, step) == Become(p, [req[p] EXCEPT !.pc = step])
Finish(p)     == Become(p, Idle)

(* Mutant of WithPassword: the update misses the hash.                     *)
WithPasswordAnyHash(u, h) == u \in accounts /\ users[u].status = "active"

(* The conditional update that opens every credential-derived grant.       *)
WithPassword(u, h) ==
  /\ u \in accounts
  /\ users[u].hash = h
  /\ users[u].status = "active"

OfUser(table, u)  == {x \in table : x.user = u}
WithTok(table, t) == {x \in table : x.tok = t}

(* Mutant of RevokePasswordGrants: only the challenges and the pairings.   *)
RevokeUnfinished(u) ==
  /\ challenges' = challenges \ OfUser(challenges, u)
  /\ pairings'   = pairings \ OfUser(pairings, u)
  /\ UNCHANGED sessions

RevokePasswordGrants(u) ==
  /\ sessions'   = sessions \ OfUser(sessions, u)
  /\ challenges' = challenges \ OfUser(challenges, u)
  /\ pairings'   = pairings \ OfUser(pairings, u)

----------------------------------------------------------------------------
(* Password login, and the SSO callback for an account that exists.        *)

(* Read the account and verify the password: the row goes into a local.    *)
(* Only a local account has a hash; no password verifies against an empty  *)
(* one.                                                                    *)
Login(p, u) ==
  /\ At(p, "idle")
  /\ u \in accounts /\ users[u].local /\ users[u].status = "active"
  /\ Become(p, [Idle EXCEPT
                  !.pc = IF users[u].totp THEN "challenge" ELSE "issue",
                  !.user = u, !.row = users[u]])
  /\ UNCHANGED <<tables, minted, expired, nextHash, grants>>

(* The callback looks the account up by its SSO subject and reads no status. *)
SSOCallback(p, u) ==
  /\ At(p, "idle")
  /\ u \in accounts /\ ~users[u].local
  /\ Become(p, [Idle EXCEPT !.pc = "issue", !.user = u, !.row = users[u]])
  /\ UNCHANGED <<tables, minted, expired, nextHash, grants>>

CreateMFAChallenge(p) ==
  /\ At(p, "challenge")
  /\ WithPassword(req[p].user, req[p].row.hash)
  /\ \E t \in Tokens \ minted :
       /\ challenges' = challenges \cup
            {[tok |-> t, user |-> req[p].user, hash |-> req[p].row.hash]}
       /\ minted' = minted \cup {t}
  /\ Finish(p)
  /\ UNCHANGED <<accounts, users, sessions, pairings, expired, nextHash, grants>>

(* Mutant of IssueSession: the row is inserted outside withPassword.       *)
IssueSessionUnguarded(p) ==
  /\ At(p, "issue")
  /\ \E t \in Tokens \ minted :
       /\ sessions' = sessions \cup
            {[tok |-> t, user |-> req[p].user, hash |-> req[p].row.hash]}
       /\ minted' = minted \cup {t}
       /\ grants' = grants \cup {[sess |-> t, held |-> req[p].held]}
  /\ Finish(p)
  /\ UNCHANGED <<accounts, users, challenges, pairings, expired, nextHash>>

IssueSession(p) ==
  /\ At(p, "issue")
  /\ WithPassword(req[p].user, req[p].row.hash)
  /\ \E t \in Tokens \ minted :
       /\ sessions' = sessions \cup
            {[tok |-> t, user |-> req[p].user, hash |-> req[p].row.hash]}
       /\ minted' = minted \cup {t}
       /\ grants' = grants \cup {[sess |-> t, held |-> req[p].held]}
  /\ Finish(p)
  /\ UNCHANGED <<accounts, users, challenges, pairings, expired, nextHash>>

----------------------------------------------------------------------------
(* The second factor.                                                      *)

(* Read and delete the challenge in one transaction.                       *)
ConsumeMFAChallenge(p, t) ==
  /\ At(p, "idle")
  /\ t \notin expired
  /\ \E c \in WithTok(challenges, t) :
       /\ challenges' = challenges \ WithTok(challenges, t)
       /\ Become(p, [Idle EXCEPT !.pc = "mfa_user", !.user = c.user,
                                 !.hash = c.hash,
                                 !.held = {Proof("challenge", c.user, t)}])
  /\ UNCHANGED <<accounts, users, sessions, pairings,
                 minted, expired, nextHash, grants>>

(* Reload the account; the code sent is a valid TOTP code of time step c,  *)
(* or one of the recovery codes in the row just read.                      *)
MFAEligible(p) ==
  /\ At(p, "mfa_user")
  /\ WithPassword(req[p].user, req[p].hash)
  /\ users[req[p].user].totp

ValidateTOTP(p, c) ==
  /\ MFAEligible(p)
  /\ Become(p, [req[p] EXCEPT !.pc = "totp", !.row = users[req[p].user],
                              !.item = c])
  /\ UNCHANGED <<tables, minted, expired, nextHash, grants>>

RedeemRecoveryCode(p, k) ==
  /\ MFAEligible(p)
  /\ k \in users[req[p].user].codes
  /\ Become(p, [req[p] EXCEPT !.pc = "recovery", !.row = users[req[p].user],
                              !.item = k])
  /\ UNCHANGED <<tables, minted, expired, nextHash, grants>>

(* The factor is spent: p may go on to issue a session on it.              *)
Spent(p, kind) ==
  Become(p, [req[p] EXCEPT
    !.pc = "issue",
    !.held = @ \cup {Proof(kind, req[p].user, req[p].item)}])

SpendTOTPCounter(p) ==
  /\ At(p, "totp")
  /\ req[p].user \in accounts
  /\ users[req[p].user].last < req[p].item
  /\ users' = [users EXCEPT ![req[p].user].last = req[p].item]
  /\ Spent(p, "totp")
  /\ UNCHANGED <<accounts, sessions, challenges, pairings,
                 minted, expired, nextHash, grants>>

(* The matching slot is blanked.                                           *)
Redeemed(codes, k) == codes \ {k}

(* Mutant of UpdateRecoveryCodes: written without comparing.               *)
UpdateRecoveryCodesBlind(p) ==
  /\ At(p, "recovery")
  /\ req[p].user \in accounts
  /\ users' = [users EXCEPT ![req[p].user].codes =
                               Redeemed(req[p].row.codes, req[p].item)]
  /\ Spent(p, "code")
  /\ UNCHANGED <<accounts, sessions, challenges, pairings,
                 minted, expired, nextHash, grants>>

(* Compare and set: the column must still be what the request read.        *)
UpdateRecoveryCodes(p) ==
  /\ At(p, "recovery")
  /\ req[p].user \in accounts
  /\ users[req[p].user].codes = req[p].row.codes
  /\ users' = [users EXCEPT ![req[p].user].codes =
                               Redeemed(req[p].row.codes, req[p].item)]
  /\ Spent(p, "code")
  /\ UNCHANGED <<accounts, sessions, challenges, pairings,
                 minted, expired, nextHash, grants>>

----------------------------------------------------------------------------
(* Authentication of a request: session, account, session again.           *)

(* Handlers that authenticate twice (pair init sits behind the middleware  *)
(* and asks again) are decided by the last pass; the first writes nothing  *)
(* that another request could not.  Local hash is a history local.         *)
AuthSession(p, t) ==
  /\ At(p, "idle")
  /\ t \notin expired
  /\ \E s \in WithTok(sessions, t) :
       Become(p, [Idle EXCEPT !.pc = "auth_user", !.user = s.user,
                              !.tok = t, !.hash = s.hash])
  /\ UNCHANGED <<tables, minted, expired, nextHash, grants>>

AuthUser(p) ==
  /\ At(p, "auth_user")
  /\ req[p].user \in accounts
  /\ LET row == users[req[p].user] IN
       Become(p, [req[p] EXCEPT
         !.row = row,
         !.pc = IF row.status = "active" THEN "recheck" ELSE "delete_session"])
  /\ UNCHANGED <<tables, minted, expired, nextHash, grants>>

(* Mutant of RecheckSession: the session is not read a second time.        *)
RecheckNothing(p) == At(p, "recheck")

RecheckSession(p) ==
  /\ At(p, "recheck")
  /\ req[p].tok \notin expired
  /\ WithTok(sessions, req[p].tok) # {}

(* A restricted account reaches only its own profile, logout and the       *)
(* password change, which in turn serves only a restricted local account.  *)
MayUseProduct(row)     == ~row.must
MayChangePassword(row) == row.must /\ row.local

(* The session is read again, then the row read before it decides.         *)
Authorize(p) ==
  /\ RecheckSession(p)
  /\ \/ MayUseProduct(req[p].row) /\ Goto(p, "product")
     \/ MayUseProduct(req[p].row) /\ Goto(p, "create_pairing")
     \/ MayChangePassword(req[p].row) /\ Goto(p, "change_password")
  /\ UNCHANGED <<tables, minted, expired, nextHash, grants>>

(* GetSession deletes the row it finds expired.                            *)
DropExpiredSession(t) ==
  /\ t \in expired
  /\ WithTok(sessions, t) # {}
  /\ sessions' = sessions \ WithTok(sessions, t)
  /\ UNCHANGED <<accounts, users, challenges, pairings,
                 minted, expired, nextHash, req, grants>>

(* The last statement of a request on a disabled account, and of a         *)
(* completed password change.                                              *)
DeleteSession(p) ==
  /\ At(p, "delete_session")
  /\ sessions' = sessions \ WithTok(sessions, req[p].tok)
  /\ Finish(p)
  /\ UNCHANGED <<accounts, users, challenges, pairings,
                 minted, expired, nextHash, grants>>

Logout(t) ==
  /\ WithTok(sessions, t) # {}
  /\ sessions' = sessions \ WithTok(sessions, t)
  /\ UNCHANGED <<accounts, users, challenges, pairings,
                 minted, expired, nextHash, req, grants>>

----------------------------------------------------------------------------
(* Password replacement and the operator's reset.                          *)

CompletePasswordChange(p) ==
  LET u == req[p].user IN
  /\ At(p, "change_password")
  /\ nextHash <= MaxHash
  /\ WithPassword(u, req[p].row.hash)
  /\ users[u].must /\ users[u].local
  /\ users' = [users EXCEPT ![u].hash = nextHash, ![u].must = FALSE]
  /\ nextHash' = nextHash + 1
  /\ RevokePasswordGrants(u)
  /\ Goto(p, "delete_session")
  /\ UNCHANGED <<accounts, minted, expired, grants>>

(* init-admin on an account that exists: also enables it.                  *)
ResetAdminPassword(u) ==
  /\ nextHash <= MaxHash
  /\ u \in accounts /\ users[u].local
  /\ users' = [users EXCEPT ![u].hash = nextHash, ![u].must = TRUE,
                            ![u].status = "active"]
  /\ nextHash' = nextHash + 1
  /\ RevokePasswordGrants(u)
  /\ UNCHANGED <<accounts, minted, expired, req, grants>>

(* init-admin, or the first start of the server, with no such account.     *)
CreateAdmin(u) ==
  /\ nextHash <= MaxHash
  /\ u \notin accounts
  /\ accounts' = accounts \cup {u}
  /\ users' = [users EXCEPT ![u] = [BlankRow EXCEPT
                 !.hash = nextHash, !.must = TRUE, !.status = "active"]]
  /\ nextHash' = nextHash + 1
  /\ UNCHANGED <<sessions, challenges, pairings, minted, expired, req, grants>>

----------------------------------------------------------------------------
(* Device pairing.                                                         *)

CreatePairing(p) ==
  /\ At(p, "create_pairing")
  /\ \E t \in Tokens \ minted :
       /\ pairings' = pairings \cup
            {[tok |-> t, user |-> req[p].user, hash |-> req[p].row.hash,
              status |-> "pending"]}
       /\ minted' = minted \cup {t}
  /\ Finish(p)
  /\ UNCHANGED <<accounts, users, sessions, challenges, expired, nextHash, grants>>

Pending(t) == {d \in WithTok(pairings, t) : d.status = "pending"}

(* Mutant of GetPairing: the owner of the pairing is not carried on.       *)
GetPairingNoUser(p, t) ==
  /\ At(p, "idle")
  /\ t \notin expired
  /\ \E d \in Pending(t) :
       Become(p, [Idle EXCEPT !.pc = "pair_user", !.tok = t])
  /\ UNCHANGED <<tables, minted, expired, nextHash, grants>>

GetPairing(p, t) ==
  /\ At(p, "idle")
  /\ t \notin expired
  /\ \E d \in Pending(t) :
       Become(p, [Idle EXCEPT !.pc = "pair_user", !.user = d.user, !.tok = t])
  /\ UNCHANGED <<tables, minted, expired, nextHash, grants>>

PairingUser(p) ==
  LET u == req[p].user IN
  /\ At(p, "pair_user")
  /\ u \in accounts /\ users[u].status = "active" /\ ~users[u].must
  /\ Become(p, [req[p] EXCEPT !.pc = "consume_pairing", !.row = users[u]])
  /\ UNCHANGED <<tables, minted, expired, nextHash, grants>>

(* Compare and set on the status; the session is issued afterwards.        *)
ConsumePairing(p) ==
  LET t == req[p].tok IN
  /\ At(p, "consume_pairing")
  /\ t \notin expired
  /\ Pending(t) # {}
  /\ pairings' = (pairings \ Pending(t)) \cup
                   {[d EXCEPT !.status = "consumed"] : d \in Pending(t)}
  /\ Become(p, [req[p] EXCEPT !.pc = "issue",
                              !.held = {Proof("pairing", req[p].user, t)}])
  /\ UNCHANGED <<accounts, users, sessions, challenges,
                 minted, expired, nextHash, grants>>

----------------------------------------------------------------------------
(* The request ends without another write: its next statement matched no   *)
(* row, a limiter or a code refused it, its work is done, the client hung  *)
(* up (which cancels the context of the next statement) or the process     *)
(* died.  A statement is never half done: each is atomic in the store.     *)
End(p) ==
  /\ ~At(p, "idle")
  /\ Finish(p)
  /\ UNCHANGED <<tables, minted, expired, nextHash, grants>>

(* The clock passes the expires_at of a row.                               *)
Expire(t) ==
  /\ Cardinality(expired) < MaxExpired
  /\ t \in minted \ expired
  /\ expired' = expired \cup {t}
  /\ UNCHANGED <<tables, minted, nextHash, req, grants>>

SignIn(p) ==
  \/ \E u \in Ids : Login(p, u) \/ SSOCallback(p, u)
  \/ CreateMFAChallenge(p)
  \/ IssueSession(p)
  \/ \E t \in Tokens : ConsumeMFAChallenge(p, t)
  \/ \E c \in 1..MaxCounter : ValidateTOTP(p, c)
  \/ \E k \in Codes : RedeemRecoveryCode(p, k)
  \/ SpendTOTPCounter(p)
  \/ UpdateRecoveryCodes(p)

Authenticated(p) ==
  \/ \E t \in Tokens : AuthSession(p, t)
  \/ AuthUser(p)
  \/ Authorize(p)
  \/ DeleteSession(p)
  \/ CompletePasswordChange(p)
  \/ CreatePairing(p)

VerifyPairing(p) ==
  \/ \E t \in Tokens : GetPairing(p, t)
  \/ PairingUser(p)
  \/ ConsumePairing(p)

Next ==
  \/ \E p \in Procs : SignIn(p) \/ Authenticated(p) \/ VerifyPairing(p) \/ End(p)
  \/ \E t \in Tokens : DropExpiredSession(t) \/ Logout(t) \/ Expire(t)
  \/ \E u \in Ids : ResetAdminPassword(u) \/ CreateAdmin(u)

Spec == Init /\ [][Next]_vars

----------------------------------------------------------------------------
(* Every table, secret and local has its type; a request that runs knows   *)
(* its user, and one that carries a secret or a code on to its next step   *)
(* has one.                                                                *)
TablesOK ==
  /\ accounts \subseteq Ids
  /\ users \in [Ids -> UserRow]
  /\ sessions \subseteq Grant
  /\ challenges \subseteq Grant
  /\ pairings \subseteq Pairing
  /\ minted \subseteq Tokens
  /\ expired \subseteq Tokens
  /\ nextHash \in Nat
  /\ grants \subseteq [sess: Tokens, held: SUBSET Evidence]

LocalOK(r) ==
  /\ r \in Request
  /\ r.pc = "idle" => r.held = {}
  /\ r.pc # "idle" => r.user \in Ids
  /\ r.pc = "totp" => r.item \in Nat
  /\ r.pc = "recovery" => r.item \in r.row.codes
  /\ r.pc \in {"auth_user", "recheck", "pair_user", "consume_pairing"}
       => r.tok \in Tokens

TypeOK ==
  /\ TablesOK
  /\ req \in [Procs -> Request]
  /\ \A p \in Procs : LocalOK(req[p])

(* withPassword serializes credential-derived grants with password         *)
(* replacement: no session and no MFA challenge in the tables was issued   *)
(* under a password hash other than the one the account has now.           *)
GrantsMatchCredential ==
  \A g \in sessions \cup challenges :
    g.user \in accounts /\ g.hash = users[g.user].hash

(* AuthenticateRequest: a session issued under the temporary password      *)
(* never inherits the cleared flag of the account.  Whatever a request is  *)
(* authorized for, the row that authorized it holds the very credential    *)
(* its session was issued under.                                           *)
Authorized == {"product", "create_pairing", "change_password"}
NoInheritedFlag ==
  \A p \in Procs : req[p].pc \in Authorized => req[p].row.hash = req[p].hash

(* An MFA challenge, a TOTP counter, a recovery code and a device pairing  *)
(* are each good for one session: no two sessions ever issued rest on the  *)
(* same piece of evidence, however the requests that spent it interleave.  *)
OneSessionPerProof ==
  \A a, b \in grants : (a.sess # b.sess) => a.held \cap b.held = {}

(* A device pairing is one of the grants revokePasswordGrants revokes, so  *)
(* withPassword's serialization of credential-derived grants with password *)
(* replacement should hold for it too: a pairing that a device can verify  *)
(* now was started under the password the account has now.                 *)
PairingsMatchCredential ==
  \A d \in pairings :
    LET row == users[d.user] IN
      ( /\ d.status = "pending" /\ d.tok \notin expired
        /\ d.user \in accounts /\ row.status = "active" /\ ~row.must )
      => d.hash = row.hash

----------------------------------------------------------------------------
(* The abstract authority: its sessions are the table's, its credentials   *)
(* the password hashes, its eligible accounts the active ones.             *)
Authority == INSTANCE SessionAuthority WITH
  Users    <- Ids,
  eligible <- {u \in accounts : users[u].status = "active"},
  cred     <- [u \in Ids |-> users[u].hash],
  live     <- sessions,
  issued   <- grants

(* Sign-in, MFA, pairing and password replacement, spread over statements  *)
(* that interleave, implement the authority: a session appears in one step *)
(* on unused evidence under the current credential, a session that ended   *)
(* never returns, and a replacement takes effect and revokes in one step.  *)
ImplementsAuthority == Authority!Spec

=============================================================================
