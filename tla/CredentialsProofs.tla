------------------------- MODULE CredentialsProofs -------------------------
(***************************************************************************)
(* Credentials, proved for every number of accounts, requests and secrets. *)
(*                                                                         *)
(* The argument.  A session or challenge is inserted only under the hash   *)
(* its account has at that moment, and both statements that change a hash  *)
(* delete every session and challenge of the account, so every row matches *)
(* (GrantsMatchCredential).  While a request authenticates, its session    *)
(* can vanish but cannot change or come back, because a secret is minted   *)
(* once (AuthLocal); when the second read still finds it, no replacement   *)
(* fell between the two reads.  A piece of evidence, once spent, stays     *)
(* spent (GoneForever), and it is in the hands of one request or one       *)
(* session at a time (EvidenceApart).                                      *)
(***************************************************************************)
EXTENDS Credentials, TLAPS

LocalsOK == req \in [Procs -> Request] /\ \A p \in Procs : LocalOK(req[p])

SecretsMinted == \A x \in sessions \cup challenges \cup pairings : x.tok \in minted

(* What an authenticating request may rely on, over a sessions table S and  *)
(* the set M of secrets minted.                                             *)
AuthLocal(r, S, M) ==
  /\ r.pc \in {"auth_user", "recheck"} =>
       /\ r.tok \in M
       /\ \A s \in S : s.tok = r.tok => s.user = r.user /\ s.hash = r.hash
  /\ r.pc = "recheck" => \A s \in S : s.tok = r.tok => r.row.hash = r.hash
  /\ r.pc \in Authorized => r.row.hash = r.hash

AuthInv == \A p \in Procs : AuthLocal(req[p], sessions, minted)

OneRowPerToken == \A s, x \in sessions : s.tok = x.tok => s = x

(* Evidence e has been spent and nothing in the tables honours it again.    *)
Gone(e) ==
  /\ e.kind = "challenge" =>
       e.item \in minted /\ \A c \in challenges : c.tok # e.item
  /\ e.kind = "pairing" =>
       e.item \in minted /\ \A d \in pairings : d.tok = e.item => d.status = "consumed"
  /\ e.kind = "totp" =>
       e.user \in accounts /\ e.item \in Nat /\ e.item <= users[e.user].last
  /\ e.kind = "code" =>
       e.user \in accounts /\ e.item \notin users[e.user].codes

EvidenceGone ==
  /\ \A p \in Procs : \A e \in req[p].held : Gone(e)
  /\ \A g \in grants : \A e \in g.held : Gone(e)

EvidenceApart ==
  /\ \A p, q \in Procs : p # q => req[p].held \cap req[q].held = {}
  /\ \A p \in Procs : \A g \in grants : req[p].held \cap g.held = {}
  /\ OneSessionPerProof

Inv ==
  /\ TypeOK
  /\ SecretsMinted
  /\ OneRowPerToken
  /\ GrantsMatchCredential
  /\ AuthInv
  /\ EvidenceGone
  /\ EvidenceApart

----------------------------------------------------------------------------
(* Types.                                                                   *)

(* The row of an account that is not there is a row.                        *)
LEMMA BlankRowType == BlankRow \in UserRow
  BY DEF BlankRow, UserRow, Status

(* An idle request is well typed.                                           *)
LEMMA IdleType == LocalOK(Idle) /\ Idle \in Request
  BY BlankRowType DEF Idle, Request, Steps, LocalOK

(* One request moves to well-typed locals, or none moves.                   *)
LEMMA LocalMove ==
  ASSUME NEW p \in Procs, NEW r, LocalOK(r), LocalsOK, Become(p, r)
  PROVE  LocalsOK'
  <1>1. r \in Request
    BY DEF LocalOK
  <1>2. req' = [req EXCEPT ![p] = r]
    BY DEF Become
  <1>3. req' \in [Procs -> Request]
    BY <1>1, <1>2 DEF LocalsOK
  <1>4. ASSUME NEW q \in Procs PROVE LocalOK(req'[q])
    BY <1>2, <1>3, <1>4 DEF LocalsOK
  <1> QED
    BY <1>3, <1>4 DEF LocalsOK

(* A step that moves no request keeps their types.                          *)
LEMMA LocalStay == LocalsOK /\ UNCHANGED req => LocalsOK'
  BY DEF LocalsOK

(* A row written for one account keeps the table's type.                    *)
LEMMA UsersWrite ==
  ASSUME NEW u \in Ids, NEW row \in UserRow, users \in [Ids -> UserRow],
         users' = [users EXCEPT ![u] = row]
  PROVE  users' \in [Ids -> UserRow]
  OBVIOUS

(* A request that is not idle: its locals, read off TypeOK.                 *)
LEMMA Running ==
  ASSUME TypeOK, NEW p \in Procs, ~At(p, "idle")
  PROVE  /\ req[p] \in Request
         /\ req[p].user \in Ids
         /\ req[p].row \in UserRow
         /\ users[req[p].user] \in UserRow
  <1>1. req[p] \in Request /\ req[p].user \in Ids
    BY DEF TypeOK, LocalOK, At
  <1>2. req[p].row \in UserRow
    BY <1>1 DEF Request
  <1> QED
    BY <1>1, <1>2 DEF TypeOK, TablesOK

(* Every initial state is well typed.                                       *)
LEMMA InitType == Init => TypeOK
  <1> SUFFICES ASSUME Init PROVE TypeOK
    OBVIOUS
  <1>1. TablesOK
    BY DEF Init, TablesOK, Account, UserRow, Status
  <1>2. req \in [Procs -> Request] /\ \A p \in Procs : LocalOK(req[p])
    BY IdleType DEF Init
  <1> QED
    BY <1>1, <1>2 DEF TypeOK

(* Every step leaves every request with well-typed locals.                  *)
LEMMA LocalsStep == TypeOK /\ [Next]_vars => LocalsOK'
  <1> SUFFICES ASSUME TypeOK, [Next]_vars PROVE LocalsOK'
    OBVIOUS
  <1>0. LocalsOK
    BY DEF TypeOK, LocalsOK
  <1>1. ASSUME NEW p \in Procs, Finish(p) PROVE LocalsOK'
    BY <1>0, <1>1, IdleType, LocalMove DEF Finish
  <1>2. ASSUME NEW p \in Procs, NEW u \in Ids, Login(p, u) PROVE LocalsOK'
    <2> DEFINE r == [Idle EXCEPT
                       !.pc = IF users[u].totp THEN "challenge" ELSE "issue",
                       !.user = u, !.row = users[u]]
    <2>1. users[u] \in UserRow
      BY DEF TypeOK, TablesOK
    <2>2. r.pc \in {"challenge", "issue"} /\ r.user = u
      BY DEF Idle
    <2>3. r \in Request
      BY <2>1, IdleType DEF Request, Steps
    <2>4. LocalOK(r)
      BY <2>2, <2>3 DEF LocalOK
    <2> QED
      BY <1>0, <1>2, <2>4, LocalMove DEF Login
  <1>3. ASSUME NEW p \in Procs, NEW u \in Ids, SSOCallback(p, u) PROVE LocalsOK'
    <2> DEFINE r == [Idle EXCEPT !.pc = "issue", !.user = u, !.row = users[u]]
    <2>1. users[u] \in UserRow
      BY DEF TypeOK, TablesOK
    <2>2. r.pc = "issue" /\ r.user = u
      BY DEF Idle
    <2>3. r \in Request
      BY <2>1, IdleType DEF Request, Steps
    <2>4. LocalOK(r)
      BY <2>2, <2>3 DEF LocalOK
    <2> QED
      BY <1>0, <1>3, <2>4, LocalMove DEF SSOCallback
  <1>4. ASSUME NEW p \in Procs, NEW t \in Tokens, ConsumeMFAChallenge(p, t)
        PROVE  LocalsOK'
    <2> PICK c \in WithTok(challenges, t) :
               Become(p, [Idle EXCEPT !.pc = "mfa_user", !.user = c.user,
                                 !.hash = c.hash,
                                 !.held = {Proof("challenge", c.user, t)}])
      BY <1>4 DEF ConsumeMFAChallenge
    <2> DEFINE r == [Idle EXCEPT !.pc = "mfa_user", !.user = c.user,
                                 !.hash = c.hash,
                                 !.held = {Proof("challenge", c.user, t)}]
    <2>1. c.user \in Ids /\ c.hash \in Nat
      BY DEF WithTok, TypeOK, TablesOK, Grant
    <2>2. Proof("challenge", c.user, t) \in Evidence
      BY <2>1 DEF Proof, Evidence
    <2>3. r.pc = "mfa_user" /\ r.user = c.user
      BY DEF Idle
    <2>4. r \in Request
      BY <2>1, <2>2, IdleType DEF Request, Steps
    <2>5. LocalOK(r)
      BY <2>1, <2>3, <2>4 DEF LocalOK
    <2> QED
      BY <1>0, <2>5, LocalMove
  <1>5. ASSUME NEW p \in Procs, NEW c \in 1..MaxCounter, ValidateTOTP(p, c)
        PROVE  LocalsOK'
    <2> DEFINE r == [req[p] EXCEPT !.pc = "totp", !.row = users[req[p].user],
                                   !.item = c]
    <2>1. req[p] \in Request /\ req[p].user \in Ids /\ users[req[p].user] \in UserRow
      BY <1>5, Running DEF ValidateTOTP, MFAEligible, At
    <2>c. c \in Nat
      BY CredentialsAssumption
    <2>2. r \in Request
      BY <2>1, <2>c DEF Request, Steps
    <2>3. r.pc = "totp" /\ r.user = req[p].user /\ r.item = c
      BY <2>1 DEF Request
    <2>4. LocalOK(r)
      BY <2>1, <2>2, <2>3, <2>c DEF LocalOK
    <2> QED
      BY <1>0, <1>5, <2>4, LocalMove DEF ValidateTOTP
  <1>6. ASSUME NEW p \in Procs, NEW k \in Codes, RedeemRecoveryCode(p, k)
        PROVE  LocalsOK'
    <2> DEFINE r == [req[p] EXCEPT !.pc = "recovery", !.row = users[req[p].user],
                                   !.item = k]
    <2>1. req[p] \in Request /\ req[p].user \in Ids /\ users[req[p].user] \in UserRow
      BY <1>6, Running DEF RedeemRecoveryCode, MFAEligible, At
    <2>2. r \in Request
      BY <2>1 DEF Request, Steps
    <2>3. r.pc = "recovery" /\ r.user = req[p].user /\ r.item \in r.row.codes
      BY <1>6, <2>1 DEF Request, RedeemRecoveryCode
    <2>4. LocalOK(r)
      BY <2>1, <2>2, <2>3 DEF LocalOK
    <2> QED
      BY <1>0, <1>6, <2>4, LocalMove DEF RedeemRecoveryCode
  <1>7. ASSUME NEW p \in Procs, NEW kind \in {"totp", "code"}, Spent(p, kind),
               ~At(p, "idle"), req[p].item \in Codes \cup Nat
        PROVE  LocalsOK'
    <2> DEFINE e == Proof(kind, req[p].user, req[p].item)
    <2> DEFINE r == [req[p] EXCEPT !.pc = "issue", !.held = @ \cup {e}]
    <2>1. req[p] \in Request /\ req[p].user \in Ids
      BY <1>7, Running
    <2>2. e \in Evidence
      BY <1>7, <2>1 DEF Proof, Evidence
    <2>3. r \in Request
      BY <2>1, <2>2 DEF Request, Steps
    <2>4. r.pc = "issue" /\ r.user = req[p].user
      BY <2>1 DEF Request
    <2>5. LocalOK(r)
      BY <2>1, <2>3, <2>4 DEF LocalOK
    <2> QED
      BY <1>0, <1>7, <2>5, LocalMove DEF Spent
  <1>8. ASSUME NEW p \in Procs, NEW t \in Tokens, AuthSession(p, t)
        PROVE  LocalsOK'
    <2> PICK s \in WithTok(sessions, t) :
               Become(p, [Idle EXCEPT !.pc = "auth_user", !.user = s.user,
                                      !.tok = t, !.hash = s.hash])
      BY <1>8 DEF AuthSession
    <2> DEFINE r == [Idle EXCEPT !.pc = "auth_user", !.user = s.user,
                                 !.tok = t, !.hash = s.hash]
    <2>1. s.user \in Ids /\ s.hash \in Nat
      BY DEF WithTok, TypeOK, TablesOK, Grant
    <2>2. r.pc = "auth_user" /\ r.user = s.user /\ r.tok = t
      BY DEF Idle
    <2>3. r \in Request
      BY <2>1, IdleType DEF Request, Steps
    <2>4. LocalOK(r)
      BY <2>1, <2>2, <2>3 DEF LocalOK
    <2> QED
      BY <1>0, <2>4, LocalMove
  <1>9. ASSUME NEW p \in Procs, AuthUser(p) PROVE LocalsOK'
    <2> DEFINE row == users[req[p].user]
    <2> DEFINE r == [req[p] EXCEPT !.row = row,
           !.pc = IF row.status = "active" THEN "recheck" ELSE "delete_session"]
    <2>1. req[p] \in Request /\ req[p].user \in Ids /\ row \in UserRow
      BY <1>9, Running DEF AuthUser, At
    <2>2. req[p].tok \in Tokens
      BY <1>9 DEF AuthUser, At, TypeOK, LocalOK
    <2>3. r \in Request
      BY <2>1 DEF Request, Steps
    <2>4. r.pc \in {"recheck", "delete_session"} /\ r.user = req[p].user
          /\ r.tok = req[p].tok
      BY <2>1 DEF Request
    <2>5. LocalOK(r)
      BY <2>1, <2>2, <2>3, <2>4 DEF LocalOK
    <2> QED
      BY <1>0, <1>9, <2>5, LocalMove DEF AuthUser
  <1>10. ASSUME NEW p \in Procs, ~At(p, "idle"),
                NEW step \in Authorized \cup {"delete_session"}, Goto(p, step)
         PROVE  LocalsOK'
    <2> DEFINE r == [req[p] EXCEPT !.pc = step]
    <2>1. req[p] \in Request /\ req[p].user \in Ids
      BY <1>10, Running
    <2>2. r \in Request
      BY <2>1 DEF Request, Steps, Authorized
    <2>3. r.pc = step /\ r.user = req[p].user
      BY <2>1 DEF Request
    <2>4. LocalOK(r)
      BY <2>1, <2>2, <2>3 DEF LocalOK, Authorized
    <2> QED
      BY <1>0, <1>10, <2>4, LocalMove DEF Goto
  <1>11. ASSUME NEW p \in Procs, NEW t \in Tokens, GetPairing(p, t)
         PROVE  LocalsOK'
    <2> PICK d \in Pending(t) :
               Become(p, [Idle EXCEPT !.pc = "pair_user", !.user = d.user, !.tok = t])
      BY <1>11 DEF GetPairing
    <2> DEFINE r == [Idle EXCEPT !.pc = "pair_user", !.user = d.user, !.tok = t]
    <2>1. d.user \in Ids
      BY DEF Pending, WithTok, TypeOK, TablesOK, Pairing
    <2>2. r.pc = "pair_user" /\ r.user = d.user /\ r.tok = t
      BY DEF Idle
    <2>3. r \in Request
      BY <2>1, IdleType DEF Request, Steps
    <2>4. LocalOK(r)
      BY <2>1, <2>2, <2>3 DEF LocalOK
    <2> QED
      BY <1>0, <2>4, LocalMove
  <1>12. ASSUME NEW p \in Procs, PairingUser(p) PROVE LocalsOK'
    <2> DEFINE r == [req[p] EXCEPT !.pc = "consume_pairing", !.row = users[req[p].user]]
    <2>1. req[p] \in Request /\ req[p].user \in Ids /\ users[req[p].user] \in UserRow
      BY <1>12, Running DEF PairingUser, At
    <2>2. req[p].tok \in Tokens
      BY <1>12 DEF PairingUser, At, TypeOK, LocalOK
    <2>3. r \in Request
      BY <2>1 DEF Request, Steps
    <2>4. r.pc = "consume_pairing" /\ r.user = req[p].user /\ r.tok = req[p].tok
      BY <2>1 DEF Request
    <2>5. LocalOK(r)
      BY <2>1, <2>2, <2>3, <2>4 DEF LocalOK
    <2> QED
      BY <1>0, <1>12, <2>5, LocalMove DEF PairingUser
  <1>13. ASSUME NEW p \in Procs, ConsumePairing(p) PROVE LocalsOK'
    <2> DEFINE e == Proof("pairing", req[p].user, req[p].tok)
    <2> DEFINE r == [req[p] EXCEPT !.pc = "issue", !.held = {e}]
    <2>1. req[p] \in Request /\ req[p].user \in Ids
      BY <1>13, Running DEF ConsumePairing, At
    <2>2. req[p].tok \in Tokens
      BY <1>13 DEF ConsumePairing, At, TypeOK, LocalOK
    <2>3. e \in Evidence
      BY <2>1, <2>2 DEF Proof, Evidence
    <2>4. r \in Request
      BY <2>1, <2>3 DEF Request, Steps
    <2>5. r.pc = "issue" /\ r.user = req[p].user
      BY <2>1 DEF Request
    <2>6. LocalOK(r)
      BY <2>1, <2>4, <2>5 DEF LocalOK
    <2> QED
      BY <1>0, <1>13, <2>6, LocalMove DEF ConsumePairing
  <1>14. ASSUME NEW p \in Procs, SignIn(p) PROVE LocalsOK'
    <2>1. CASE SpendTOTPCounter(p)
      BY <2>1, <1>7 DEF SpendTOTPCounter, At, TypeOK, LocalOK
    <2>2. CASE UpdateRecoveryCodes(p)
      <3>1. req[p].item \in Codes
        BY <2>2, Running DEF UpdateRecoveryCodes, Redeemed, At, TypeOK, LocalOK, UserRow
      <3> QED
        BY <2>2, <3>1, <1>7 DEF UpdateRecoveryCodes, Redeemed, At
    <2> QED
      BY <2>1, <2>2, <1>14, <1>1, <1>2, <1>3, <1>4, <1>5, <1>6
      DEF SignIn, CreateMFAChallenge, IssueSession
  <1>15. ASSUME NEW p \in Procs, Authenticated(p) PROVE LocalsOK'
    <2>1. CASE Authorize(p)
      BY <2>1, <1>10 DEF Authorize, RecheckSession, At, Authorized
    <2>2. CASE CompletePasswordChange(p)
      BY <2>2, <1>10 DEF CompletePasswordChange, At
    <2> QED
      BY <2>1, <2>2, <1>15, <1>1, <1>8, <1>9
      DEF Authenticated, DeleteSession, CreatePairing
  <1>16. ASSUME NEW p \in Procs, VerifyPairing(p) \/ End(p) PROVE LocalsOK'
    BY <1>16, <1>1, <1>11, <1>12, <1>13 DEF VerifyPairing, End
  <1>17. CASE \/ UNCHANGED vars
              \/ \E t \in Tokens : DropExpiredSession(t) \/ Logout(t) \/ Expire(t)
              \/ \E u \in Ids : ResetAdminPassword(u) \/ CreateAdmin(u)
    BY <1>0, <1>17, LocalStay
    DEF vars, DropExpiredSession, Logout, Expire, ResetAdminPassword, CreateAdmin
  <1> QED
    BY <1>14, <1>15, <1>16, <1>17 DEF Next

(* Every step leaves every table with rows of its type.                     *)
LEMMA TablesStep == TypeOK /\ [Next]_vars => TablesOK'
  <1> SUFFICES ASSUME TypeOK, [Next]_vars PROVE TablesOK'
    OBVIOUS
  <1>0. TablesOK
    BY DEF TypeOK
  <1>1. CASE UNCHANGED tables /\ UNCHANGED <<minted, nextHash, grants>>
             /\ expired' \subseteq Tokens
    BY <1>0, <1>1 DEF tables, TablesOK
  <1>2. ASSUME NEW p \in Procs, CreateMFAChallenge(p) PROVE TablesOK'
    <2>1. req[p].user \in Ids /\ req[p].row.hash \in Nat
      BY <1>2, Running DEF CreateMFAChallenge, At, UserRow
    <2> QED
      BY <1>0, <1>2, <2>1 DEF CreateMFAChallenge, TablesOK, Grant
  <1>3. ASSUME NEW p \in Procs, IssueSession(p) PROVE TablesOK'
    <2>1. /\ req[p].user \in Ids /\ req[p].row.hash \in Nat
          /\ req[p].held \in SUBSET Evidence
      BY <1>3, Running DEF IssueSession, At, UserRow, Request
    <2> QED
      BY <1>0, <1>3, <2>1 DEF IssueSession, TablesOK, Grant
  <1>4. ASSUME NEW p \in Procs, NEW t \in Tokens, ConsumeMFAChallenge(p, t)
        PROVE  TablesOK'
    BY <1>0, <1>4 DEF ConsumeMFAChallenge, TablesOK
  <1>5. ASSUME NEW p \in Procs, SpendTOTPCounter(p) PROVE TablesOK'
    <2> DEFINE row == [users[req[p].user] EXCEPT !.last = req[p].item]
    <2>1. req[p].user \in Ids /\ users[req[p].user] \in UserRow
      BY <1>5, Running DEF SpendTOTPCounter, At
    <2>2. req[p].item \in Nat
      BY <1>5 DEF SpendTOTPCounter, At, TypeOK, LocalOK
    <2>3. row \in UserRow
      BY <2>1, <2>2 DEF UserRow
    <2>4. users' = [users EXCEPT ![req[p].user] = row]
      BY <1>5 DEF SpendTOTPCounter
    <2>5. users' \in [Ids -> UserRow]
      BY <1>0, <2>1, <2>3, <2>4, UsersWrite DEF TablesOK
    <2> QED
      BY <1>0, <1>5, <2>5 DEF SpendTOTPCounter, TablesOK
  <1>6. ASSUME NEW p \in Procs, UpdateRecoveryCodes(p) PROVE TablesOK'
    <2> DEFINE row == [users[req[p].user] EXCEPT
                         !.codes = req[p].row.codes \ {req[p].item}]
    <2>1. /\ req[p].user \in Ids /\ users[req[p].user] \in UserRow
          /\ req[p].row \in UserRow
      BY <1>6, Running DEF UpdateRecoveryCodes, Redeemed, At
    <2>3. row \in UserRow
      BY <2>1 DEF UserRow
    <2>4. users' = [users EXCEPT ![req[p].user] = row]
      BY <1>6 DEF UpdateRecoveryCodes, Redeemed
    <2>5. users' \in [Ids -> UserRow]
      BY <1>0, <2>1, <2>3, <2>4, UsersWrite DEF TablesOK
    <2> QED
      BY <1>0, <1>6, <2>5 DEF UpdateRecoveryCodes, Redeemed, TablesOK
  <1>7. ASSUME NEW p \in Procs, DeleteSession(p) PROVE TablesOK'
    BY <1>0, <1>7 DEF DeleteSession, TablesOK
  <1>8. ASSUME NEW p \in Procs, CompletePasswordChange(p) PROVE TablesOK'
    <2> DEFINE row == [users[req[p].user] EXCEPT !.hash = nextHash, !.must = FALSE]
    <2>1. req[p].user \in Ids /\ users[req[p].user] \in UserRow
      BY <1>8, Running DEF CompletePasswordChange, At
    <2>3. row \in UserRow
      BY <1>0, <2>1 DEF UserRow, TablesOK
    <2>4. users' = [users EXCEPT ![req[p].user] = row]
      BY <1>8 DEF CompletePasswordChange
    <2>5. users' \in [Ids -> UserRow]
      BY <1>0, <2>1, <2>3, <2>4, UsersWrite DEF TablesOK
    <2> QED
      BY <1>0, <1>8, <2>5 DEF CompletePasswordChange, RevokePasswordGrants, TablesOK
  <1>9. ASSUME NEW p \in Procs, CreatePairing(p) PROVE TablesOK'
    <2>1. req[p].user \in Ids /\ req[p].row.hash \in Nat
      BY <1>9, Running DEF CreatePairing, At, UserRow
    <2> QED
      BY <1>0, <1>9, <2>1 DEF CreatePairing, TablesOK, Pairing
  <1>10. ASSUME NEW p \in Procs, ConsumePairing(p) PROVE TablesOK'
    <2>1. ASSUME NEW d \in pairings PROVE [d EXCEPT !.status = "consumed"] \in Pairing
      BY <1>0, <2>1 DEF TablesOK, Pairing
    <2> QED
      BY <1>0, <1>10, <2>1 DEF ConsumePairing, TablesOK, Pending, WithTok
  <1>11. ASSUME NEW t \in Tokens, DropExpiredSession(t) \/ Logout(t)
         PROVE  TablesOK'
    BY <1>0, <1>11 DEF DropExpiredSession, Logout, TablesOK
  <1>12. ASSUME NEW u \in Ids, ResetAdminPassword(u) PROVE TablesOK'
    <2> DEFINE row == [users[u] EXCEPT !.hash = nextHash, !.must = TRUE,
                                       !.status = "active"]
    <2>1. users[u] \in UserRow
      BY <1>0 DEF TablesOK
    <2>2. row \in UserRow
      BY <1>0, <2>1 DEF UserRow, TablesOK, Status
    <2>3. users' = [users EXCEPT ![u] = row]
      BY <1>12 DEF ResetAdminPassword
    <2>4. users' \in [Ids -> UserRow]
      BY <1>0, <2>2, <2>3, UsersWrite DEF TablesOK
    <2> QED
      BY <1>0, <1>12, <2>4 DEF ResetAdminPassword, RevokePasswordGrants, TablesOK
  <1>13. ASSUME NEW u \in Ids, CreateAdmin(u) PROVE TablesOK'
    <2> DEFINE row == [BlankRow EXCEPT !.hash = nextHash, !.must = TRUE,
                                       !.status = "active"]
    <2>1. row \in UserRow
      BY <1>0, BlankRowType DEF UserRow, TablesOK, Status
    <2>2. users' = [users EXCEPT ![u] = row]
      BY <1>13 DEF CreateAdmin
    <2>3. users' \in [Ids -> UserRow]
      BY <1>0, <2>1, <2>2, UsersWrite DEF TablesOK
    <2> QED
      BY <1>0, <1>13, <2>3 DEF CreateAdmin, TablesOK
  <1>14. ASSUME NEW t \in Tokens, Expire(t) PROVE TablesOK'
    BY <1>0, <1>1, <1>14 DEF Expire, tables, TablesOK
  <1>15. ASSUME NEW p \in Procs, SignIn(p) PROVE TablesOK'
    BY <1>0, <1>1, <1>2, <1>3, <1>4, <1>5, <1>6, <1>15
    DEF SignIn, Login, SSOCallback, ValidateTOTP, RedeemRecoveryCode, TablesOK
  <1>16. ASSUME NEW p \in Procs, Authenticated(p) PROVE TablesOK'
    BY <1>0, <1>1, <1>7, <1>8, <1>9, <1>16
    DEF Authenticated, AuthSession, AuthUser, Authorize, TablesOK
  <1>17. ASSUME NEW p \in Procs, VerifyPairing(p) \/ End(p) PROVE TablesOK'
    BY <1>0, <1>1, <1>10, <1>17 DEF VerifyPairing, GetPairing, PairingUser, End, TablesOK
  <1>18. CASE UNCHANGED vars
    BY <1>0, <1>1, <1>18 DEF vars, TablesOK
  <1> QED
    BY <1>11, <1>12, <1>13, <1>14, <1>15, <1>16, <1>17, <1>18 DEF Next

(* The type invariant is inductive.                                         *)
LEMMA TypeStep == TypeOK /\ [Next]_vars => TypeOK'
  BY LocalsStep, TablesStep DEF TypeOK, LocalsOK

(* Type correctness of the server's sign-in: every table and every local of *)
(* a request keeps its type for any number of accounts, requests, secrets   *)
(* and password changes.                                                    *)
THEOREM TypeCorrect == Spec => []TypeOK
  BY InitType, TypeStep, PTL DEF Spec

----------------------------------------------------------------------------
(* How the tables move.                                                     *)

(* A step inserts at most one session, under a secret never used before and *)
(* under the hash its account has at that moment.                           *)
FreshGrant(g) ==
  /\ g.tok \notin minted /\ g.tok \in minted'
  /\ g.user \in accounts /\ g.hash = users[g.user].hash

(* A session row was there before, or is fresh (FreshGrant).                *)
LEMMA SessionsMove ==
  TypeOK /\ [Next]_vars =>
    /\ minted \subseteq minted'
    /\ \/ sessions' \subseteq sessions
       \/ /\ \E g : FreshGrant(g) /\ sessions' = sessions \cup {g}
          /\ UNCHANGED <<accounts, users, challenges, pairings>>
  <1> SUFFICES ASSUME TypeOK, [Next]_vars
               PROVE  /\ minted \subseteq minted'
                      /\ \/ sessions' \subseteq sessions
                         \/ /\ \E g : FreshGrant(g) /\ sessions' = sessions \cup {g}
                            /\ UNCHANGED <<accounts, users, challenges, pairings>>
    OBVIOUS
  <1>1. ASSUME NEW p \in Procs, IssueSession(p)
        PROVE  /\ minted \subseteq minted'
               /\ \E g : FreshGrant(g) /\ sessions' = sessions \cup {g}
               /\ UNCHANGED <<accounts, users, challenges, pairings>>
    <2> PICK t \in Tokens \ minted :
               /\ sessions' = sessions \cup
                    {[tok |-> t, user |-> req[p].user, hash |-> req[p].row.hash]}
               /\ minted' = minted \cup {t}
      BY <1>1 DEF IssueSession
    <2> DEFINE g == [tok |-> t, user |-> req[p].user, hash |-> req[p].row.hash]
    <2>1. FreshGrant(g)
      BY <1>1 DEF IssueSession, WithPassword, FreshGrant
    <2> QED
      BY <1>1, <2>1 DEF IssueSession
  <1>2. ASSUME NEW p \in Procs, SignIn(p), ~IssueSession(p)
        PROVE  minted \subseteq minted' /\ sessions' \subseteq sessions
    BY <1>2 DEF SignIn, Login, SSOCallback, CreateMFAChallenge, ConsumeMFAChallenge,
       ValidateTOTP, RedeemRecoveryCode, SpendTOTPCounter, UpdateRecoveryCodes, tables
  <1>3. ASSUME NEW p \in Procs, Authenticated(p)
        PROVE  minted \subseteq minted' /\ sessions' \subseteq sessions
    BY <1>3 DEF Authenticated, AuthSession, AuthUser, Authorize, DeleteSession,
       CompletePasswordChange, RevokePasswordGrants, CreatePairing, tables
  <1>4. ASSUME NEW p \in Procs, VerifyPairing(p) \/ End(p)
        PROVE  minted \subseteq minted' /\ sessions' \subseteq sessions
    BY <1>4 DEF VerifyPairing, GetPairing, PairingUser, ConsumePairing, End, tables
  <1>5. CASE \/ UNCHANGED vars
             \/ \E t \in Tokens : DropExpiredSession(t) \/ Logout(t) \/ Expire(t)
             \/ \E u \in Ids : ResetAdminPassword(u) \/ CreateAdmin(u)
    BY <1>5 DEF vars, tables, DropExpiredSession, Logout, Expire,
       ResetAdminPassword, RevokePasswordGrants, CreateAdmin
  <1> QED
    BY <1>1, <1>2, <1>3, <1>4, <1>5 DEF Next

(* The same of the challenges, and of the pairings, which are also marked.  *)
LEMMA ChallengesMove ==
  TypeOK /\ [Next]_vars =>
    \/ challenges' \subseteq challenges
    \/ /\ \E g : FreshGrant(g) /\ challenges' = challenges \cup {g}
       /\ UNCHANGED <<accounts, users, sessions, pairings>>
  <1> SUFFICES ASSUME TypeOK, [Next]_vars
               PROVE  \/ challenges' \subseteq challenges
                      \/ /\ \E g : FreshGrant(g) /\ challenges' = challenges \cup {g}
                         /\ UNCHANGED <<accounts, users, sessions, pairings>>
    OBVIOUS
  <1>1. ASSUME NEW p \in Procs, CreateMFAChallenge(p)
        PROVE  /\ \E g : FreshGrant(g) /\ challenges' = challenges \cup {g}
               /\ UNCHANGED <<accounts, users, sessions, pairings>>
    <2> PICK t \in Tokens \ minted :
               /\ challenges' = challenges \cup
                    {[tok |-> t, user |-> req[p].user, hash |-> req[p].row.hash]}
               /\ minted' = minted \cup {t}
      BY <1>1 DEF CreateMFAChallenge
    <2> DEFINE g == [tok |-> t, user |-> req[p].user, hash |-> req[p].row.hash]
    <2>1. FreshGrant(g)
      BY <1>1 DEF CreateMFAChallenge, WithPassword, FreshGrant
    <2> QED
      BY <1>1, <2>1 DEF CreateMFAChallenge
  <1>2. ASSUME NEW p \in Procs, SignIn(p), ~CreateMFAChallenge(p)
        PROVE  challenges' \subseteq challenges
    BY <1>2 DEF SignIn, Login, SSOCallback, IssueSession, ConsumeMFAChallenge,
       ValidateTOTP, RedeemRecoveryCode, SpendTOTPCounter, UpdateRecoveryCodes, tables
  <1>3. ASSUME NEW p \in Procs, Authenticated(p)
        PROVE  challenges' \subseteq challenges
    BY <1>3 DEF Authenticated, AuthSession, AuthUser, Authorize, DeleteSession,
       CompletePasswordChange, RevokePasswordGrants, CreatePairing, tables
  <1>4. ASSUME NEW p \in Procs, VerifyPairing(p) \/ End(p)
        PROVE  challenges' \subseteq challenges
    BY <1>4 DEF VerifyPairing, GetPairing, PairingUser, ConsumePairing, End, tables
  <1>5. CASE \/ UNCHANGED vars
             \/ \E t \in Tokens : DropExpiredSession(t) \/ Logout(t) \/ Expire(t)
             \/ \E u \in Ids : ResetAdminPassword(u) \/ CreateAdmin(u)
    BY <1>5 DEF vars, tables, DropExpiredSession, Logout, Expire,
       ResetAdminPassword, RevokePasswordGrants, CreateAdmin
  <1> QED
    BY <1>1, <1>2, <1>3, <1>4, <1>5 DEF Next

(* A pairing row is new under a fresh secret, or descends from a row of the *)
(* same secret, and one that was consumed stays consumed.                   *)
LEMMA PairingsMove ==
  TypeOK /\ [Next]_vars =>
    \A d \in pairings' :
      \/ d.tok \notin minted /\ d.tok \in minted'
      \/ \E x \in pairings : x.tok = d.tok /\ (d.status = "pending" => x.status = "pending")
  <1> SUFFICES ASSUME TypeOK, [Next]_vars, NEW d \in pairings'
               PROVE  \/ d.tok \notin minted /\ d.tok \in minted'
                      \/ \E x \in pairings : x.tok = d.tok
                           /\ (d.status = "pending" => x.status = "pending")
    OBVIOUS
  <1>0. d \in pairings =>
          \E x \in pairings : x.tok = d.tok /\ (d.status = "pending" => x.status = "pending")
    OBVIOUS
  <1>1. ASSUME NEW p \in Procs, CreatePairing(p), d \notin pairings
        PROVE  d.tok \notin minted /\ d.tok \in minted'
    BY <1>1 DEF CreatePairing
  <1>2. ASSUME NEW p \in Procs, ConsumePairing(p), d \notin pairings
        PROVE  \E x \in pairings : x.tok = d.tok
                 /\ (d.status = "pending" => x.status = "pending")
    <2>1. PICK x \in Pending(req[p].tok) : d = [x EXCEPT !.status = "consumed"]
      BY <1>2 DEF ConsumePairing
    <2>2. x \in pairings /\ x \in Pairing
      BY <2>1 DEF Pending, WithTok, TypeOK, TablesOK
    <2>3. d.tok = x.tok /\ d.status = "consumed"
      BY <2>1, <2>2 DEF Pairing
    <2> QED
      BY <2>2, <2>3
  <1>3. ASSUME NEW p \in Procs, SignIn(p) PROVE d \in pairings
    BY <1>3 DEF SignIn, Login, SSOCallback, IssueSession, CreateMFAChallenge,
       ConsumeMFAChallenge, ValidateTOTP, RedeemRecoveryCode, SpendTOTPCounter,
       UpdateRecoveryCodes, tables
  <1>4. ASSUME NEW p \in Procs, Authenticated(p), ~CreatePairing(p)
        PROVE  d \in pairings
    BY <1>4 DEF Authenticated, AuthSession, AuthUser, Authorize, DeleteSession,
       CompletePasswordChange, RevokePasswordGrants, tables
  <1>5. ASSUME NEW p \in Procs, VerifyPairing(p) \/ End(p), ~ConsumePairing(p)
        PROVE  d \in pairings
    BY <1>5 DEF VerifyPairing, GetPairing, PairingUser, End, tables
  <1>6. CASE \/ UNCHANGED vars
             \/ \E t \in Tokens : DropExpiredSession(t) \/ Logout(t) \/ Expire(t)
             \/ \E u \in Ids : ResetAdminPassword(u) \/ CreateAdmin(u)
    BY <1>0, <1>6 DEF vars, tables, DropExpiredSession, Logout, Expire,
       ResetAdminPassword, RevokePasswordGrants, CreateAdmin
  <1> QED
    BY <1>0, <1>1, <1>2, <1>3, <1>4, <1>5, <1>6 DEF Next

(* The users table: an account stays, its counter only grows, its codes     *)
(* only shrink, and its hash changes only when every session and challenge  *)
(* of the account goes.                                                     *)
LEMMA UsersMove ==
  TypeOK /\ [Next]_vars =>
    /\ accounts \subseteq accounts'
    /\ \A u \in accounts :
         /\ users[u].last <= users'[u].last
         /\ users'[u].codes \subseteq users[u].codes
         /\ \/ users'[u].hash = users[u].hash
            \/ /\ sessions' = sessions \ OfUser(sessions, u)
               /\ challenges' = challenges \ OfUser(challenges, u)
  <1> SUFFICES ASSUME TypeOK, [Next]_vars
               PROVE  /\ accounts \subseteq accounts'
                      /\ \A u \in accounts :
                           /\ users[u].last <= users'[u].last
                           /\ users'[u].codes \subseteq users[u].codes
                           /\ \/ users'[u].hash = users[u].hash
                              \/ /\ sessions' = sessions \ OfUser(sessions, u)
                                 /\ challenges' = challenges \ OfUser(challenges, u)
    OBVIOUS
  <1>0. \A u \in accounts : u \in Ids /\ users[u] \in UserRow /\ users[u].last \in Nat
    BY DEF TypeOK, TablesOK, UserRow
  <1>1. CASE UNCHANGED <<accounts, users>>
    BY <1>0, <1>1
  <1>2. ASSUME NEW p \in Procs, SpendTOTPCounter(p)
        PROVE  /\ accounts \subseteq accounts'
               /\ \A u \in accounts : /\ users[u].last <= users'[u].last
                                      /\ users'[u].codes = users[u].codes
                                      /\ users'[u].hash = users[u].hash
    <2>1. req[p].item \in Nat /\ users \in [Ids -> UserRow]
      BY <1>2 DEF SpendTOTPCounter, At, TypeOK, TablesOK, LocalOK
    <2>2. ASSUME NEW u \in accounts
          PROVE  /\ users[u].last <= users'[u].last
                 /\ users'[u].codes = users[u].codes
                 /\ users'[u].hash = users[u].hash
      BY <1>0, <1>2, <2>1, <2>2 DEF SpendTOTPCounter, UserRow
    <2> QED
      BY <1>2, <2>2 DEF SpendTOTPCounter
  <1>3. ASSUME NEW p \in Procs, UpdateRecoveryCodes(p)
        PROVE  /\ accounts \subseteq accounts'
               /\ \A u \in accounts : /\ users[u].last <= users'[u].last
                                      /\ users'[u].codes \subseteq users[u].codes
                                      /\ users'[u].hash = users[u].hash
    <2>1. users \in [Ids -> UserRow]
      BY DEF TypeOK, TablesOK
    <2>2. ASSUME NEW u \in accounts
          PROVE  /\ users[u].last <= users'[u].last
                 /\ users'[u].codes \subseteq users[u].codes
                 /\ users'[u].hash = users[u].hash
      BY <1>0, <1>3, <2>1, <2>2 DEF UpdateRecoveryCodes, Redeemed, UserRow
    <2> QED
      BY <1>3, <2>2 DEF UpdateRecoveryCodes, Redeemed
  <1>4. ASSUME NEW v \in Ids, RevokePasswordGrants(v), UNCHANGED accounts,
               NEW row, users' = [users EXCEPT ![v] = row],
               row.last = users[v].last, row.codes = users[v].codes
        PROVE  /\ accounts \subseteq accounts'
               /\ \A u \in accounts :
                    /\ users[u].last <= users'[u].last
                    /\ users'[u].codes \subseteq users[u].codes
                    /\ \/ users'[u].hash = users[u].hash
                       \/ /\ sessions' = sessions \ OfUser(sessions, u)
                          /\ challenges' = challenges \ OfUser(challenges, u)
    <2>1. users \in [Ids -> UserRow]
      BY DEF TypeOK, TablesOK
    <2> QED
      BY <1>0, <1>4, <2>1 DEF RevokePasswordGrants
  <1>5. ASSUME NEW p \in Procs, CompletePasswordChange(p)
        PROVE  /\ accounts \subseteq accounts'
               /\ \A u \in accounts :
                    /\ users[u].last <= users'[u].last
                    /\ users'[u].codes \subseteq users[u].codes
                    /\ \/ users'[u].hash = users[u].hash
                       \/ /\ sessions' = sessions \ OfUser(sessions, u)
                          /\ challenges' = challenges \ OfUser(challenges, u)
    <2> DEFINE row == [users[req[p].user] EXCEPT !.hash = nextHash, !.must = FALSE]
    <2>1. req[p].user \in Ids /\ users[req[p].user] \in UserRow
      BY <1>5, Running DEF CompletePasswordChange, At
    <2>2. row.last = users[req[p].user].last /\ row.codes = users[req[p].user].codes
      BY <2>1 DEF UserRow
    <2>3. users' = [users EXCEPT ![req[p].user] = row]
      BY <1>5 DEF CompletePasswordChange
    <2> QED
      BY <1>4, <1>5, <2>1, <2>2, <2>3 DEF CompletePasswordChange
  <1>6. ASSUME NEW v \in Ids, ResetAdminPassword(v)
        PROVE  /\ accounts \subseteq accounts'
               /\ \A u \in accounts :
                    /\ users[u].last <= users'[u].last
                    /\ users'[u].codes \subseteq users[u].codes
                    /\ \/ users'[u].hash = users[u].hash
                       \/ /\ sessions' = sessions \ OfUser(sessions, u)
                          /\ challenges' = challenges \ OfUser(challenges, u)
    <2> DEFINE row == [users[v] EXCEPT !.hash = nextHash, !.must = TRUE,
                                       !.status = "active"]
    <2>1. users[v] \in UserRow
      BY DEF TypeOK, TablesOK
    <2>2. row.last = users[v].last /\ row.codes = users[v].codes
      BY <2>1 DEF UserRow
    <2>3. users' = [users EXCEPT ![v] = row]
      BY <1>6 DEF ResetAdminPassword
    <2> QED
      BY <1>4, <1>6, <2>2, <2>3 DEF ResetAdminPassword
  <1>7. ASSUME NEW v \in Ids, CreateAdmin(v)
        PROVE  /\ accounts \subseteq accounts'
               /\ \A u \in accounts : users'[u] = users[u]
    BY <1>7 DEF CreateAdmin, TypeOK, TablesOK
  <1>8. ASSUME NEW p \in Procs, SignIn(p), ~SpendTOTPCounter(p), ~UpdateRecoveryCodes(p)
        PROVE  UNCHANGED <<accounts, users>>
    BY <1>8 DEF SignIn, Login, SSOCallback, IssueSession, CreateMFAChallenge,
       ConsumeMFAChallenge, ValidateTOTP, RedeemRecoveryCode, tables
  <1>9. ASSUME NEW p \in Procs, Authenticated(p), ~CompletePasswordChange(p)
        PROVE  UNCHANGED <<accounts, users>>
    BY <1>9 DEF Authenticated, AuthSession, AuthUser, Authorize, DeleteSession,
       CreatePairing, tables
  <1>10. ASSUME NEW p \in Procs, VerifyPairing(p) \/ End(p)
         PROVE  UNCHANGED <<accounts, users>>
    BY <1>10 DEF VerifyPairing, GetPairing, PairingUser, ConsumePairing, End, tables
  <1>11. CASE \/ UNCHANGED vars
              \/ \E t \in Tokens : DropExpiredSession(t) \/ Logout(t) \/ Expire(t)
    BY <1>1, <1>11 DEF vars, tables, DropExpiredSession, Logout, Expire
  <1>12. CASE \E v \in Ids : CreateAdmin(v)
    BY <1>0, <1>7, <1>12
  <1>13. CASE \E p \in Procs : SignIn(p)
    <2>1. PICK p \in Procs : SignIn(p)
      BY <1>13
    <2> QED
      BY <1>1, <1>2, <1>3, <1>8, <2>1
  <1>14. CASE \E p \in Procs : Authenticated(p)
    BY <1>1, <1>5, <1>9, <1>14
  <1> QED
    BY <1>1, <1>6, <1>10, <1>11, <1>12, <1>13, <1>14 DEF Next

----------------------------------------------------------------------------
(* Secrets, rows and credentials.                                           *)

(* Every secret in a table has been minted.                                 *)
LEMMA SecretsStep == TypeOK /\ SecretsMinted /\ [Next]_vars => SecretsMinted'
  <1> SUFFICES ASSUME TypeOK, SecretsMinted, [Next]_vars,
                      NEW x \in (sessions \cup challenges \cup pairings)'
               PROVE  x.tok \in minted'
    BY DEF SecretsMinted
  <1>1. minted \subseteq minted'
    BY SessionsMove
  <1>2. CASE x \in sessions'
    BY <1>1, <1>2, SessionsMove DEF FreshGrant, SecretsMinted
  <1>3. CASE x \in challenges'
    BY <1>1, <1>3, ChallengesMove DEF FreshGrant, SecretsMinted
  <1>4. CASE x \in pairings'
    BY <1>1, <1>4, PairingsMove DEF SecretsMinted
  <1> QED
    BY <1>2, <1>3, <1>4

(* No two sessions share a token.                                           *)
LEMMA RowsStep ==
  TypeOK /\ SecretsMinted /\ OneRowPerToken /\ [Next]_vars => OneRowPerToken'
  <1> SUFFICES ASSUME TypeOK, SecretsMinted, OneRowPerToken, [Next]_vars
               PROVE  OneRowPerToken'
    OBVIOUS
  <1>1. CASE sessions' \subseteq sessions
    BY <1>1 DEF OneRowPerToken
  <1>2. ASSUME NEW g, FreshGrant(g), sessions' = sessions \cup {g}
        PROVE  OneRowPerToken'
    BY <1>2 DEF OneRowPerToken, SecretsMinted, FreshGrant
  <1> QED
    BY <1>1, <1>2, SessionsMove

(* Sessions and challenges keep matching the credential of the account.     *)
LEMMA GrantsStep ==
  TypeOK /\ GrantsMatchCredential /\ [Next]_vars => GrantsMatchCredential'
  <1> SUFFICES ASSUME TypeOK, GrantsMatchCredential, [Next]_vars,
                      NEW g \in (sessions \cup challenges)'
               PROVE  g.user \in accounts' /\ g.hash = users'[g.user].hash
    BY DEF GrantsMatchCredential
  <1>1. CASE g \in sessions \cup challenges
    <2>1. g.user \in accounts /\ g.hash = users[g.user].hash
      BY <1>1 DEF GrantsMatchCredential
    <2>2. ~ ( /\ sessions' = sessions \ OfUser(sessions, g.user)
              /\ challenges' = challenges \ OfUser(challenges, g.user) )
      BY DEF OfUser
    <2> QED
      BY <2>1, <2>2, UsersMove
  <1>2. CASE g \notin sessions \cup challenges
    <2>1. CASE g \in sessions'
      BY <1>2, <2>1, SessionsMove DEF FreshGrant
    <2>2. CASE g \in challenges'
      BY <1>2, <2>2, ChallengesMove DEF FreshGrant
    <2> QED
      BY <2>1, <2>2
  <1> QED
    BY <1>1, <1>2

----------------------------------------------------------------------------
(* Authentication.                                                          *)

AuthSteps == {"auth_user", "recheck"} \cup Authorized

(* What a request relies on survives the steps of all the others.           *)
LEMMA AuthStay ==
  ASSUME TypeOK, [Next]_vars, NEW r, AuthLocal(r, sessions, minted)
  PROVE  AuthLocal(r, sessions', minted')
  <1>1. minted \subseteq minted'
    BY SessionsMove
  <1>2. ASSUME NEW s \in sessions', r.tok \in minted, s.tok = r.tok
        PROVE  s \in sessions
    BY <1>2, SessionsMove DEF FreshGrant
  <1> QED
    BY <1>1, <1>2 DEF AuthLocal

(* Every step keeps what an authenticating request relies on.               *)
LEMMA AuthStep ==
  /\ TypeOK /\ SecretsMinted /\ OneRowPerToken /\ GrantsMatchCredential
  /\ AuthInv /\ [Next]_vars
  => AuthInv'
  <1> SUFFICES ASSUME TypeOK, SecretsMinted, OneRowPerToken, GrantsMatchCredential,
                      AuthInv, [Next]_vars
               PROVE  AuthInv'
    OBVIOUS
  <1>0. \A q \in Procs : AuthLocal(req[q], sessions', minted')
    BY AuthStay DEF AuthInv
  <1>1. ASSUME NEW p \in Procs, NEW r, AuthLocal(r, sessions', minted'), Become(p, r)
        PROVE  AuthInv'
    BY <1>0, <1>1 DEF AuthInv, Become, TypeOK
  <1>2. ASSUME NEW p \in Procs, NEW r, r.pc \notin AuthSteps, Become(p, r)
        PROVE  AuthInv'
    <2>1. AuthLocal(r, sessions', minted')
      BY <1>2 DEF AuthLocal, AuthSteps
    <2> QED
      BY <1>1, <1>2, <2>1
  <1>3. ASSUME NEW p \in Procs, Finish(p) PROVE AuthInv'
    BY <1>2, <1>3 DEF Finish, Idle, AuthSteps, Authorized
  <1>4. ASSUME NEW p \in Procs, ~At(p, "idle"), NEW step,
               step \notin AuthSteps, Goto(p, step)
        PROVE  AuthInv'
    <2>1. req[p] \in Request
      BY <1>4, Running
    <2>2. [req[p] EXCEPT !.pc = step].pc = step
      BY <2>1 DEF Request
    <2> QED
      BY <1>2, <1>4, <2>2 DEF Goto
  <1>5. ASSUME NEW p \in Procs, NEW t \in Tokens, AuthSession(p, t)
        PROVE  AuthInv'
    <2> PICK s \in WithTok(sessions, t) :
               Become(p, [Idle EXCEPT !.pc = "auth_user", !.user = s.user,
                                      !.tok = t, !.hash = s.hash])
      BY <1>5 DEF AuthSession
    <2> DEFINE r == [Idle EXCEPT !.pc = "auth_user", !.user = s.user,
                                 !.tok = t, !.hash = s.hash]
    <2>1. r.pc = "auth_user" /\ r.user = s.user /\ r.tok = t /\ r.hash = s.hash
      BY DEF Idle
    <2>2. s \in sessions /\ s.tok = t /\ t \in minted
      BY DEF WithTok, SecretsMinted
    <2>3. AuthLocal(r, sessions, minted)
      BY <2>1, <2>2 DEF AuthLocal, OneRowPerToken, Authorized
    <2>4. AuthLocal(r, sessions', minted')
      BY <1>5, <2>3 DEF AuthSession, tables
    <2> QED
      BY <1>1, <2>4
  <1>6. ASSUME NEW p \in Procs, AuthUser(p) PROVE AuthInv'
    <2> DEFINE row == users[req[p].user]
    <2> DEFINE r == [req[p] EXCEPT !.row = row,
           !.pc = IF row.status = "active" THEN "recheck" ELSE "delete_session"]
    <2>1. req[p] \in Request
      BY <1>6, Running DEF AuthUser, At
    <2>2. /\ r.pc \in {"recheck", "delete_session"} /\ r.row = row
          /\ r.user = req[p].user /\ r.tok = req[p].tok /\ r.hash = req[p].hash
      BY <2>1 DEF Request
    <2>3. /\ req[p].tok \in minted
          /\ \A s \in sessions : s.tok = req[p].tok =>
               s.user = req[p].user /\ s.hash = req[p].hash
      BY <1>6 DEF AuthInv, AuthLocal, AuthUser, At
    <2>4. \A s \in sessions : s.tok = req[p].tok => row.hash = req[p].hash
      BY <2>3 DEF GrantsMatchCredential
    <2>5. AuthLocal(r, sessions, minted)
      BY <2>2, <2>3, <2>4 DEF AuthLocal, Authorized
    <2>6. AuthLocal(r, sessions', minted')
      BY <1>6, <2>5 DEF AuthUser, tables
    <2> QED
      BY <1>1, <1>6, <2>6 DEF AuthUser
  <1>7. ASSUME NEW p \in Procs, Authorize(p) PROVE AuthInv'
    <2>1. req[p] \in Request
      BY <1>7, Running DEF Authorize, RecheckSession, At
    <2>2. req[p].row.hash = req[p].hash
      BY <1>7 DEF AuthInv, AuthLocal, Authorize, RecheckSession, At, WithTok
    <2>3. ASSUME NEW step \in Authorized, Goto(p, step) PROVE AuthInv'
      <3> DEFINE r == [req[p] EXCEPT !.pc = step]
      <3>1. r.pc = step /\ r.row = req[p].row /\ r.hash = req[p].hash
        BY <2>1 DEF Request
      <3>2. AuthLocal(r, sessions', minted')
        BY <2>2, <2>3, <3>1 DEF AuthLocal, Authorized
      <3> QED
        BY <1>1, <2>3, <3>2 DEF Goto
    <2> QED
      BY <1>7, <2>3 DEF Authorize, Authorized
  <1>8. ASSUME NEW p \in Procs, SignIn(p) PROVE AuthInv'
    <2>1. ASSUME NEW u \in Ids, Login(p, u) PROVE AuthInv'
      <3> DEFINE r == [Idle EXCEPT
                         !.pc = IF users[u].totp THEN "challenge" ELSE "issue",
                         !.user = u, !.row = users[u]]
      <3>1. r.pc \notin AuthSteps
        BY DEF Idle, AuthSteps, Authorized
      <3> QED
        BY <1>2, <2>1, <3>1 DEF Login
    <2>2. ASSUME NEW u \in Ids, SSOCallback(p, u) PROVE AuthInv'
      BY <1>2, <2>2 DEF SSOCallback, Idle, AuthSteps, Authorized
    <2>3. ASSUME NEW t \in Tokens, ConsumeMFAChallenge(p, t) PROVE AuthInv'
      BY <1>2, <2>3 DEF ConsumeMFAChallenge, Idle, AuthSteps, Authorized
    <2>4. ASSUME ~At(p, "idle"),
                 \/ \E c \in 1..MaxCounter : ValidateTOTP(p, c)
                 \/ \E k \in Codes : RedeemRecoveryCode(p, k)
                 \/ SpendTOTPCounter(p)
                 \/ UpdateRecoveryCodes(p)
          PROVE  AuthInv'
      <3>1. req[p] \in Request
        BY <2>4, Running
      <3> QED
        BY <1>2, <2>4, <3>1 DEF ValidateTOTP, RedeemRecoveryCode, SpendTOTPCounter,
           UpdateRecoveryCodes, Spent, Request, AuthSteps, Authorized
    <2>5. CASE CreateMFAChallenge(p) \/ IssueSession(p)
      BY <1>3, <2>5 DEF CreateMFAChallenge, IssueSession
    <2> QED
      BY <1>8, <2>1, <2>2, <2>3, <2>4, <2>5
      DEF SignIn, At, ValidateTOTP, RedeemRecoveryCode, MFAEligible,
          SpendTOTPCounter, UpdateRecoveryCodes
  <1>9. ASSUME NEW p \in Procs, Authenticated(p) PROVE AuthInv'
    <2>1. CASE CompletePasswordChange(p)
      BY <1>4, <2>1 DEF CompletePasswordChange, At, AuthSteps, Authorized
    <2> QED
      BY <1>3, <1>5, <1>6, <1>7, <1>9, <2>1 DEF Authenticated, DeleteSession, CreatePairing
  <1>10. ASSUME NEW p \in Procs, VerifyPairing(p) \/ End(p) PROVE AuthInv'
    <2>1. ASSUME NEW t \in Tokens, GetPairing(p, t) PROVE AuthInv'
      BY <1>2, <2>1 DEF GetPairing, Idle, AuthSteps, Authorized
    <2>2. ASSUME ~At(p, "idle"), PairingUser(p) \/ ConsumePairing(p) PROVE AuthInv'
      <3>1. req[p] \in Request
        BY <2>2, Running
      <3> QED
        BY <1>2, <2>2, <3>1 DEF PairingUser, ConsumePairing, Request, AuthSteps, Authorized
    <2> QED
      BY <1>3, <1>10, <2>1, <2>2 DEF VerifyPairing, PairingUser, ConsumePairing, End, At
  <1>11. CASE UNCHANGED req
    BY <1>0, <1>11 DEF AuthInv
  <1> QED
    BY <1>8, <1>9, <1>10, <1>11
    DEF Next, vars, DropExpiredSession, Logout, Expire, ResetAdminPassword, CreateAdmin

----------------------------------------------------------------------------
(* One-time evidence.                                                       *)

(* Spent evidence stays spent.                                              *)
LEMMA GoneForever ==
  TypeOK /\ [Next]_vars => \A e \in Evidence : Gone(e) => Gone(e)'
  <1> SUFFICES ASSUME TypeOK, [Next]_vars, NEW e \in Evidence, Gone(e)
               PROVE  Gone(e)'
    OBVIOUS
  <1>0. TypeOK' /\ minted \subseteq minted'
    BY TypeStep, SessionsMove
  <1>1. ASSUME e.kind = "challenge"
        PROVE  e.item \in minted' /\ \A c \in challenges' : c.tok # e.item
    BY <1>0, <1>1, ChallengesMove DEF Gone, FreshGrant
  <1>2. ASSUME e.kind = "pairing"
        PROVE  /\ e.item \in minted'
               /\ \A d \in pairings' : d.tok = e.item => d.status = "consumed"
    <2>1. e.item \in minted /\ \A d \in pairings : d.tok = e.item => d.status = "consumed"
      BY <1>2 DEF Gone
    <2>2. ASSUME NEW d \in pairings', d.tok = e.item PROVE d.status # "pending"
      BY <2>1, <2>2, PairingsMove
    <2>3. \A d \in pairings' : d.status \in {"pending", "consumed"}
      BY <1>0 DEF TypeOK, TablesOK, Pairing
    <2> QED
      BY <1>0, <2>1, <2>2, <2>3
  <1>3. ASSUME e.kind \in {"totp", "code"}
        PROVE  /\ e.user \in accounts'
               /\ e.kind = "totp" => e.item \in Nat /\ e.item <= users'[e.user].last
               /\ e.kind = "code" => e.item \notin users'[e.user].codes
    <2>1. e.user \in accounts
      BY <1>3 DEF Gone
    <2>2. users[e.user].last \in Nat /\ users'[e.user].last \in Nat
      BY <1>0, <2>1 DEF TypeOK, TablesOK, UserRow
    <2>3. /\ e.user \in accounts'
          /\ users[e.user].last <= users'[e.user].last
          /\ users'[e.user].codes \subseteq users[e.user].codes
      BY <2>1, UsersMove
    <2>4. ASSUME e.kind = "totp" PROVE e.item \in Nat /\ e.item <= users'[e.user].last
      <3>1. e.item \in Nat /\ e.item <= users[e.user].last
        BY <2>4 DEF Gone
      <3> QED
        BY <3>1, <2>2, <2>3
    <2> QED
      BY <2>3, <2>4 DEF Gone
  <1> QED
    BY <1>1, <1>2, <1>3 DEF Gone

(* Who holds what after a step: nobody holds more, or a session is issued   *)
(* on all that one request held, or one request takes a piece of evidence   *)
(* that was good before the step and is gone after it.                      *)
OthersKeep(p) == \A q \in Procs \ {p} : req'[q] = req[q]

HoldsLess == grants' = grants /\ \A q \in Procs : req'[q].held \subseteq req[q].held

Issues(p) ==
  /\ \E t : grants' = grants \cup {[sess |-> t, held |-> req[p].held]}
  /\ req'[p].held = {}
  /\ OthersKeep(p)

Takes(p, e) ==
  /\ grants' = grants
  /\ ~Gone(e) /\ Gone(e)'
  /\ req'[p].held \subseteq req[p].held \cup {e}
  /\ OthersKeep(p)

(* A step adds at most one piece of evidence, newly spent, to one request.  *)
LEMMA HeldMove ==
  TypeOK /\ SecretsMinted /\ [Next]_vars =>
    \/ HoldsLess
    \/ \E p \in Procs : Issues(p)
    \/ \E p \in Procs, e \in Evidence : Takes(p, e)
  <1> SUFFICES ASSUME TypeOK, SecretsMinted, [Next]_vars
               PROVE  \/ HoldsLess
                      \/ \E p \in Procs : Issues(p)
                      \/ \E p \in Procs, e \in Evidence : Takes(p, e)
    OBVIOUS
  <1>0. req \in [Procs -> Request]
    BY DEF TypeOK
  <1>1. ASSUME NEW p \in Procs, NEW r, Become(p, r), r.held \subseteq req[p].held,
               grants' = grants
        PROVE  HoldsLess
    BY <1>0, <1>1 DEF Become, HoldsLess
  <1>2. ASSUME NEW p \in Procs, Finish(p), grants' = grants PROVE HoldsLess
    BY <1>1, <1>2 DEF Finish, Idle
  <1>3. ASSUME NEW p \in Procs, ~At(p, "idle"), NEW step, Goto(p, step), grants' = grants
        PROVE  HoldsLess
    <2>1. req[p] \in Request
      BY <1>3, Running
    <2>2. [req[p] EXCEPT !.pc = step].held = req[p].held
      BY <2>1 DEF Request
    <2> QED
      BY <1>1, <1>3, <2>2 DEF Goto
  <1>4. ASSUME NEW p \in Procs, IssueSession(p) PROVE Issues(p)
    <2>1. req'[p] = Idle /\ OthersKeep(p)
      BY <1>0, <1>4 DEF IssueSession, Finish, Become, OthersKeep
    <2> QED
      BY <1>4, <2>1 DEF IssueSession, Issues, Idle
  <1>5. ASSUME NEW p \in Procs, NEW t \in Tokens, ConsumeMFAChallenge(p, t)
        PROVE  \E e \in Evidence : Takes(p, e)
    <2>1. PICK c \in WithTok(challenges, t) :
               Become(p, [Idle EXCEPT !.pc = "mfa_user", !.user = c.user,
                                 !.hash = c.hash,
                                 !.held = {Proof("challenge", c.user, t)}])
      BY <1>5 DEF ConsumeMFAChallenge
    <2>2. c \in challenges /\ c.tok = t /\ c.user \in Ids /\ t \in minted
      BY DEF WithTok, SecretsMinted, TypeOK, TablesOK, Grant
    <2> DEFINE e == Proof("challenge", c.user, t)
    <2>3. e \in Evidence /\ e.kind = "challenge" /\ e.item = t
      BY <2>2 DEF Evidence, Proof
    <2>4. req'[p].held = {e} /\ OthersKeep(p)
      BY <1>0, <2>1 DEF Become, OthersKeep, Idle
    <2>5. ~Gone(e)
      BY <2>2, <2>3 DEF Gone
    <2>6. Gone(e)'
      BY <1>5, <2>2, <2>3 DEF Gone, ConsumeMFAChallenge, WithTok
    <2>7. grants' = grants
      BY <1>5 DEF ConsumeMFAChallenge
    <2> QED
      BY <2>3, <2>4, <2>5, <2>6, <2>7 DEF Takes
  <1>6. ASSUME NEW p \in Procs, SpendTOTPCounter(p)
        PROVE  \E e \in Evidence : Takes(p, e)
    <2>1. /\ req[p] \in Request /\ req[p].user \in Ids
          /\ users[req[p].user] \in UserRow
      BY <1>6, Running DEF SpendTOTPCounter, At
    <2>2. req[p].item \in Nat
      BY <1>6 DEF SpendTOTPCounter, At, TypeOK, LocalOK
    <2>3. PICK e : e = Proof("totp", req[p].user, req[p].item)
      OBVIOUS
    <2>4. /\ e \in Evidence /\ e.kind = "totp"
          /\ e.user = req[p].user /\ e.item = req[p].item
      BY <2>1, <2>2, <2>3 DEF Evidence, Proof
    <2>5. req'[p].held = req[p].held \cup {e} /\ OthersKeep(p)
      BY <1>0, <1>6, <2>1, <2>3 DEF SpendTOTPCounter, Spent, Become, OthersKeep, Request
    <2>6. ~Gone(e)
      <3>1. users[e.user].last < e.item /\ users[e.user].last \in Nat
        BY <1>6, <2>1, <2>4 DEF SpendTOTPCounter, UserRow
      <3> QED
        BY <2>2, <2>4, <3>1 DEF Gone
    <2>7. Gone(e)'
      <3>1. users'[e.user].last = e.item /\ e.user \in accounts'
        BY <1>6, <2>1, <2>4 DEF SpendTOTPCounter, UserRow, TypeOK, TablesOK
      <3> QED
        BY <2>2, <2>4, <3>1 DEF Gone
    <2>8. grants' = grants
      BY <1>6 DEF SpendTOTPCounter
    <2> QED
      BY <2>4, <2>5, <2>6, <2>7, <2>8 DEF Takes
  <1>7. ASSUME NEW p \in Procs, UpdateRecoveryCodes(p)
        PROVE  \E e \in Evidence : Takes(p, e)
    <2>1. /\ req[p] \in Request /\ req[p].user \in Ids
          /\ users[req[p].user] \in UserRow /\ req[p].row \in UserRow
      BY <1>7, Running DEF UpdateRecoveryCodes, Redeemed, At
    <2>2. req[p].item \in req[p].row.codes
      BY <1>7 DEF UpdateRecoveryCodes, Redeemed, At, TypeOK, LocalOK
    <2>3. PICK e : e = Proof("code", req[p].user, req[p].item)
      OBVIOUS
    <2>4. /\ e \in Evidence /\ e.kind = "code"
          /\ e.user = req[p].user /\ e.item = req[p].item
      BY <2>1, <2>2, <2>3 DEF Evidence, Proof, UserRow
    <2>5. req'[p].held = req[p].held \cup {e} /\ OthersKeep(p)
      BY <1>0, <1>7, <2>1, <2>3 DEF UpdateRecoveryCodes, Redeemed, Spent, Become, OthersKeep, Request
    <2>6. ~Gone(e)
      BY <1>7, <2>2, <2>4 DEF Gone, UpdateRecoveryCodes, Redeemed
    <2>7. Gone(e)'
      <3>1. /\ users'[e.user].codes = req[p].row.codes \ {e.item}
            /\ e.user \in accounts'
        BY <1>7, <2>1, <2>4 DEF UpdateRecoveryCodes, Redeemed, UserRow, TypeOK, TablesOK
      <3> QED
        BY <2>4, <3>1 DEF Gone
    <2>8. grants' = grants
      BY <1>7 DEF UpdateRecoveryCodes, Redeemed
    <2> QED
      BY <2>4, <2>5, <2>6, <2>7, <2>8 DEF Takes
  <1>8. ASSUME NEW p \in Procs, ConsumePairing(p)
        PROVE  \E e \in Evidence : Takes(p, e)
    <2>1. req[p] \in Request /\ req[p].user \in Ids
      BY <1>8, Running DEF ConsumePairing, At
    <2>2. PICK t : t = req[p].tok
      OBVIOUS
    <2>3. PICK x \in Pending(t) : TRUE
      BY <1>8, <2>2 DEF ConsumePairing
    <2>4. x \in pairings /\ x.tok = t /\ x.status = "pending" /\ t \in minted /\ t \in Tokens
      BY <2>3 DEF Pending, WithTok, SecretsMinted, TypeOK, TablesOK
    <2>5. PICK e : e = Proof("pairing", req[p].user, t)
      OBVIOUS
    <2>6. e \in Evidence /\ e.kind = "pairing" /\ e.item = t
      BY <2>1, <2>4, <2>5 DEF Evidence, Proof
    <2>7. req'[p].held = {e} /\ OthersKeep(p)
      BY <1>0, <1>8, <2>1, <2>2, <2>5 DEF ConsumePairing, Become, OthersKeep, Request
    <2>8. ~Gone(e)
      BY <2>4, <2>6 DEF Gone
    <2>9. Gone(e)'
      <3>1. ASSUME NEW d \in pairings', d.tok = t PROVE d.status = "consumed"
        <4>1. CASE d \in pairings \ Pending(t)
          <5>1. d.status \in {"pending", "consumed"}
            BY <4>1 DEF TypeOK, TablesOK, Pairing
          <5> QED
            BY <3>1, <4>1, <5>1 DEF Pending, WithTok
        <4>2. CASE d \notin pairings \ Pending(t)
          <5>1. PICK y \in Pending(t) : d = [y EXCEPT !.status = "consumed"]
            BY <1>8, <2>2, <4>2 DEF ConsumePairing
          <5>2. y \in Pairing
            BY DEF Pending, WithTok, TypeOK, TablesOK
          <5> QED
            BY <5>1, <5>2 DEF Pairing
        <4> QED
          BY <4>1, <4>2
      <3>2. minted' = minted
        BY <1>8 DEF ConsumePairing
      <3> QED
        BY <2>4, <2>6, <3>1, <3>2 DEF Gone
    <2>10. grants' = grants
      BY <1>8 DEF ConsumePairing
    <2> QED
      BY <2>6, <2>7, <2>8, <2>9, <2>10 DEF Takes
  <1>9. ASSUME NEW p \in Procs, SignIn(p), ~IssueSession(p), ~SpendTOTPCounter(p),
               ~UpdateRecoveryCodes(p), ~\E t \in Tokens : ConsumeMFAChallenge(p, t)
        PROVE  HoldsLess
    <2>1. ASSUME NEW u \in Ids, Login(p, u) PROVE HoldsLess
      <3> DEFINE r == [Idle EXCEPT
                         !.pc = IF users[u].totp THEN "challenge" ELSE "issue",
                         !.user = u, !.row = users[u]]
      <3>1. r.held = {}
        BY DEF Idle
      <3> QED
        BY <1>1, <2>1, <3>1 DEF Login
    <2>2. ASSUME NEW u \in Ids, SSOCallback(p, u) PROVE HoldsLess
      BY <1>1, <2>2 DEF SSOCallback, Idle
    <2>3. ASSUME ~At(p, "idle"),
                 \/ \E c \in 1..MaxCounter : ValidateTOTP(p, c)
                 \/ \E k \in Codes : RedeemRecoveryCode(p, k)
          PROVE  HoldsLess
      <3>1. req[p] \in Request
        BY <2>3, Running
      <3> QED
        BY <1>1, <2>3, <3>1 DEF ValidateTOTP, RedeemRecoveryCode, Request
    <2>4. CASE CreateMFAChallenge(p)
      BY <1>2, <2>4 DEF CreateMFAChallenge
    <2> QED
      BY <1>9, <2>1, <2>2, <2>3, <2>4
      DEF SignIn, ValidateTOTP, RedeemRecoveryCode, MFAEligible, At
  <1>10. ASSUME NEW p \in Procs, Authenticated(p) PROVE HoldsLess
    <2>1. ASSUME NEW t \in Tokens, AuthSession(p, t) PROVE HoldsLess
      BY <1>1, <2>1 DEF AuthSession, Idle
    <2>2. CASE AuthUser(p)
      <3>1. req[p] \in Request
        BY <2>2, Running DEF AuthUser, At
      <3> QED
        BY <1>1, <2>2, <3>1 DEF AuthUser, Request
    <2>3. CASE Authorize(p)
      BY <1>3, <2>3 DEF Authorize, RecheckSession, At
    <2>4. CASE CompletePasswordChange(p)
      BY <1>3, <2>4 DEF CompletePasswordChange, At
    <2> QED
      BY <1>2, <1>10, <2>1, <2>2, <2>3, <2>4 DEF Authenticated, DeleteSession, CreatePairing
  <1>11. ASSUME NEW p \in Procs, VerifyPairing(p) \/ End(p), ~ConsumePairing(p)
         PROVE  HoldsLess
    <2>1. ASSUME NEW t \in Tokens, GetPairing(p, t) PROVE HoldsLess
      BY <1>1, <2>1 DEF GetPairing, Idle
    <2>2. CASE PairingUser(p)
      <3>1. req[p] \in Request
        BY <2>2, Running DEF PairingUser, At
      <3> QED
        BY <1>1, <2>2, <3>1 DEF PairingUser, Request
    <2> QED
      BY <1>2, <1>11, <2>1, <2>2 DEF VerifyPairing, End
  <1>12. CASE UNCHANGED <<req, grants>>
    BY <1>12 DEF HoldsLess
  <1> QED
    BY <1>4, <1>5, <1>6, <1>7, <1>8, <1>9, <1>10, <1>11, <1>12
    DEF Next, vars, DropExpiredSession, Logout, Expire, ResetAdminPassword, CreateAdmin

(* Evidence held or granted stays spent, and apart from all other evidence. *)
LEMMA EvidenceStep ==
  /\ TypeOK /\ SecretsMinted /\ EvidenceGone /\ EvidenceApart /\ [Next]_vars
  => EvidenceGone' /\ EvidenceApart'
  <1> SUFFICES ASSUME TypeOK, SecretsMinted, EvidenceGone, EvidenceApart, [Next]_vars
               PROVE  EvidenceGone' /\ EvidenceApart'
    OBVIOUS
  <1>0. /\ \A p \in Procs : req[p].held \subseteq Evidence
        /\ \A g \in grants : g.held \subseteq Evidence
    BY DEF TypeOK, TablesOK, Request
  <1>1. /\ \A p \in Procs : \A e \in req[p].held : Gone(e) /\ Gone(e)'
        /\ \A g \in grants : \A e \in g.held : Gone(e) /\ Gone(e)'
    BY <1>0, GoneForever DEF EvidenceGone
  <1>2. CASE HoldsLess
    <2>1. EvidenceGone'
      BY <1>1, <1>2 DEF EvidenceGone, HoldsLess
    <2>2. EvidenceApart'
      BY <1>2 DEF EvidenceApart, OneSessionPerProof, HoldsLess
    <2> QED
      BY <2>1, <2>2
  <1>3. ASSUME NEW p \in Procs, Issues(p) PROVE EvidenceGone' /\ EvidenceApart'
    <2>1. PICK t : grants' = grants \cup {[sess |-> t, held |-> req[p].held]}
      BY <1>3 DEF Issues
    <2>2. req'[p].held = {} /\ \A q \in Procs : q # p => req'[q] = req[q]
      BY <1>3 DEF Issues, OthersKeep
    <2>3. \A g \in grants' : g \in grants \/ g.held = req[p].held
      BY <2>1
    <2>4. EvidenceGone'
      BY <1>1, <2>2, <2>3 DEF EvidenceGone
    <2>5. \A q, z \in Procs : q # z => req'[q].held \cap req'[z].held = {}
      BY <2>2 DEF EvidenceApart
    <2>6. \A q \in Procs : \A g \in grants' : req'[q].held \cap g.held = {}
      BY <2>2, <2>3 DEF EvidenceApart
    <2>7. \A a, b \in grants' : a.sess # b.sess => a.held \cap b.held = {}
      <3> SUFFICES ASSUME NEW a \in grants', NEW b \in grants', a.sess # b.sess
                   PROVE  a.held \cap b.held = {}
        OBVIOUS
      <3>1. a \in grants \/ b \in grants
        BY <2>1
      <3>2. CASE a \in grants /\ b \in grants
        BY <3>2 DEF EvidenceApart, OneSessionPerProof
      <3>3. CASE a \notin grants \/ b \notin grants
        BY <2>3, <3>1, <3>3 DEF EvidenceApart
      <3> QED
        BY <3>2, <3>3
    <2> QED
      BY <2>4, <2>5, <2>6, <2>7 DEF EvidenceApart, OneSessionPerProof
  <1>4. ASSUME NEW p \in Procs, NEW e \in Evidence, Takes(p, e)
        PROVE  EvidenceGone' /\ EvidenceApart'
    <2>1. /\ grants' = grants /\ ~Gone(e) /\ Gone(e)'
          /\ req'[p].held \subseteq req[p].held \cup {e}
          /\ \A q \in Procs : q # p => req'[q] = req[q]
      BY <1>4 DEF Takes, OthersKeep
    <2>2. /\ \A q \in Procs : e \notin req[q].held
          /\ \A g \in grants : e \notin g.held
      BY <1>1, <2>1
    <2>3. EvidenceGone'
      BY <1>1, <2>1 DEF EvidenceGone
    <2>4. \A q, z \in Procs : q # z => req'[q].held \cap req'[z].held = {}
      BY <2>1, <2>2 DEF EvidenceApart
    <2>5. \A q \in Procs : \A g \in grants' : req'[q].held \cap g.held = {}
      BY <2>1, <2>2 DEF EvidenceApart
    <2>6. OneSessionPerProof'
      BY <2>1 DEF EvidenceApart, OneSessionPerProof
    <2> QED
      BY <2>3, <2>4, <2>5, <2>6 DEF EvidenceApart
  <1> QED
    BY <1>2, <1>3, <1>4, HeldMove

----------------------------------------------------------------------------
(* The theorems.                                                            *)

(* The inductive invariant holds initially.                                 *)
LEMMA InvInit == Init => Inv
  <1> SUFFICES ASSUME Init PROVE Inv
    OBVIOUS
  <1>1. TypeOK
    BY InitType
  <1>2. \A p \in Procs : req[p].pc = "idle" /\ req[p].held = {}
    BY DEF Init, Idle
  <1>3. SecretsMinted /\ OneRowPerToken /\ GrantsMatchCredential
    BY DEF Init, SecretsMinted, OneRowPerToken, GrantsMatchCredential
  <1>4. AuthInv
    BY <1>2 DEF AuthInv, AuthLocal, Authorized
  <1>5. EvidenceGone /\ EvidenceApart
    BY <1>2 DEF Init, EvidenceGone, EvidenceApart, OneSessionPerProof
  <1> QED
    BY <1>1, <1>3, <1>4, <1>5 DEF Inv

(* The inductive invariant is preserved by every step.                      *)
LEMMA InvStep == Inv /\ [Next]_vars => Inv'
  BY TypeStep, SecretsStep, RowsStep, GrantsStep, AuthStep, EvidenceStep DEF Inv

(* The inductive invariant holds in every state: what the tables, the       *)
(* locals of the requests and the issued sessions owe to one another.       *)
THEOREM Invariance == Spec => []Inv
  BY InvInit, InvStep, PTL DEF Spec

(* Password replacement and reset against every path that issues a grant    *)
(* (login, SSO callback, both second factors, device pairing): the sessions *)
(* and MFA challenges in the store always match the account's current       *)
(* password hash.                                                           *)
THEOREM GrantsAlwaysMatch == Spec => []GrantsMatchCredential
  <1>1. Inv => GrantsMatchCredential
    BY DEF Inv
  <1> QED
    BY <1>1, Invariance, PTL

(* AuthenticateRequest's second read of the session is enough: no request   *)
(* is ever authorized by an account row that is newer than its session's    *)
(* credential.                                                              *)
THEOREM NeverInheritsFlag == Spec => []NoInheritedFlag
  <1>1. Inv => NoInheritedFlag
    BY DEF Inv, AuthInv, AuthLocal, NoInheritedFlag
  <1> QED
    BY <1>1, Invariance, PTL

(* However many requests present the same MFA token, TOTP code, recovery    *)
(* code or pairing secret, at most one session comes of it.                 *)
THEOREM EvidenceUsedOnce == Spec => []OneSessionPerProof
  <1>1. Inv => OneSessionPerProof
    BY DEF Inv, EvidenceApart
  <1> QED
    BY <1>1, Invariance, PTL

----------------------------------------------------------------------------
(* The refinement of SessionAuthority.                                      *)

(* A hash is computed after every hash in use, and a session that was ever  *)
(* issued used up its secret.                                               *)
HashesOld  == \A u \in Ids : users[u].hash < nextHash
SessMinted == \A g \in grants : g.sess \in minted
RefInv     == Inv /\ HashesOld /\ SessMinted

(* What a step does to what the authority sees: one session is issued, a    *)
(* credential is replaced, or sessions end.                                 *)
Opens(p) ==
  \E t \in Tokens \ minted :
    /\ sessions' = sessions \cup
         {[tok |-> t, user |-> req[p].user, hash |-> req[p].row.hash]}
    /\ minted' = minted \cup {t}
    /\ grants' = grants \cup {[sess |-> t, held |-> req[p].held]}
    /\ WithPassword(req[p].user, req[p].row.hash)
    /\ UNCHANGED <<accounts, users, nextHash>>

Replaces(u) ==
  /\ users' = [users EXCEPT ![u] = users'[u]]
  /\ users'[u].hash = nextHash /\ users'[u].status = "active"
  /\ accounts' = accounts \cup {u}
  /\ nextHash' = nextHash + 1
  /\ sessions' = sessions \ OfUser(sessions, u)
  /\ UNCHANGED <<minted, grants>>

Ends ==
  /\ UNCHANGED <<accounts, nextHash, grants>>
  /\ minted \subseteq minted'
  /\ users' \in [Ids -> UserRow]
  /\ \A u \in Ids : users'[u].hash = users[u].hash /\ users'[u].status = users[u].status
  /\ sessions' \subseteq sessions

(* Every step of the server is one of the three.                            *)
LEMMA AuthorityStep ==
  RefInv /\ [Next]_vars =>
    (\E p \in Procs : ~At(p, "idle") /\ Opens(p)) \/ (\E u \in Ids : Replaces(u)) \/ Ends
  <1> SUFFICES ASSUME RefInv, [Next]_vars
               PROVE  \/ \E p \in Procs : ~At(p, "idle") /\ Opens(p)
                      \/ \E u \in Ids : Replaces(u)
                      \/ Ends
    OBVIOUS
  <1>0. TypeOK /\ users \in [Ids -> UserRow] /\ accounts \subseteq Ids
    BY DEF RefInv, Inv, TypeOK, TablesOK
  <1>1. ASSUME NEW p \in Procs, IssueSession(p) PROVE ~At(p, "idle") /\ Opens(p)
    BY <1>1 DEF IssueSession, Opens, At
  <1>2. ASSUME UNCHANGED users, UNCHANGED <<accounts, nextHash, grants>>,
               minted \subseteq minted', sessions' \subseteq sessions
        PROVE  Ends
    BY <1>0, <1>2 DEF Ends
  <1>3. ASSUME NEW p \in Procs, SpendTOTPCounter(p) \/ UpdateRecoveryCodes(p) PROVE Ends
    <2> DEFINE u == req[p].user
    <2>1. users[u] \in UserRow /\ u \in Ids /\ req[p].row \in UserRow
      BY <1>0, <1>3, Running DEF SpendTOTPCounter, UpdateRecoveryCodes, At
    <2>2. users' \in [Ids -> UserRow]
      BY <1>0, TablesStep DEF TablesOK
    <2>3. \A v \in Ids : users'[v].hash = users[v].hash /\ users'[v].status = users[v].status
      <3>1. CASE SpendTOTPCounter(p)
        <4>1. users' = [users EXCEPT ![u] = [users[u] EXCEPT !.last = req[p].item]]
          BY <3>1 DEF SpendTOTPCounter
        <4> QED BY <1>0, <2>1, <4>1 DEF UserRow
      <3>2. CASE UpdateRecoveryCodes(p)
        <4>1. users' = [users EXCEPT ![u] =
                 [users[u] EXCEPT !.codes = Redeemed(req[p].row.codes, req[p].item)]]
          BY <3>2 DEF UpdateRecoveryCodes
        <4> QED BY <1>0, <2>1, <4>1 DEF UserRow
      <3> QED BY <1>3, <3>1, <3>2
    <2> QED
      BY <1>3, <2>2, <2>3 DEF Ends, SpendTOTPCounter, UpdateRecoveryCodes
  <1>4. ASSUME NEW p \in Procs, SignIn(p), ~IssueSession(p),
               ~SpendTOTPCounter(p), ~UpdateRecoveryCodes(p)
        PROVE  Ends
    BY <1>2, <1>4 DEF SignIn, Login, SSOCallback, CreateMFAChallenge, ConsumeMFAChallenge,
       ValidateTOTP, RedeemRecoveryCode, tables
  <1>5. ASSUME NEW p \in Procs, CompletePasswordChange(p)
        PROVE  \E u \in Ids : Replaces(u)
    <2> DEFINE u == req[p].user
    <2>1. u \in Ids /\ users[u] \in UserRow
      BY <1>0, <1>5, Running DEF CompletePasswordChange, At
    <2>2. users' = [users EXCEPT ![u] = [users[u] EXCEPT !.hash = nextHash, !.must = FALSE]]
      BY <1>5 DEF CompletePasswordChange
    <2>3. users[u].status = "active" /\ u \in accounts
      BY <1>5 DEF CompletePasswordChange, WithPassword
    <2>4. users'[u] = [users[u] EXCEPT !.hash = nextHash, !.must = FALSE]
      BY <1>0, <2>1, <2>2
    <2>5. users'[u].hash = nextHash /\ users'[u].status = "active"
      BY <2>1, <2>3, <2>4 DEF UserRow
    <2>6. users' = [users EXCEPT ![u] = users'[u]]
      BY <2>2, <2>4
    <2>7. /\ accounts' = accounts /\ nextHash' = nextHash + 1
          /\ sessions' = sessions \ OfUser(sessions, u)
          /\ UNCHANGED <<minted, grants>>
      BY <1>5 DEF CompletePasswordChange, RevokePasswordGrants
    <2>8. Replaces(u)
      BY <2>3, <2>5, <2>6, <2>7 DEF Replaces
    <2> QED
      BY <2>1, <2>8
  <1>6. ASSUME NEW p \in Procs, Authenticated(p), ~CompletePasswordChange(p)
        PROVE  Ends
    BY <1>2, <1>6 DEF Authenticated, AuthSession, AuthUser, Authorize, DeleteSession,
       CreatePairing, tables
  <1>7. ASSUME NEW p \in Procs, VerifyPairing(p) \/ End(p)
        PROVE  Ends
    BY <1>2, <1>7 DEF VerifyPairing, GetPairing, PairingUser, ConsumePairing, End, tables
  <1>8. CASE \/ UNCHANGED vars
             \/ \E t \in Tokens : DropExpiredSession(t) \/ Logout(t) \/ Expire(t)
    BY <1>2, <1>8 DEF vars, tables, DropExpiredSession, Logout, Expire
  <1>9. ASSUME NEW u \in Ids, ResetAdminPassword(u) PROVE Replaces(u)
    <2>1. users[u] \in UserRow
      BY <1>0
    <2>2. users' = [users EXCEPT ![u] = [users[u] EXCEPT !.hash = nextHash, !.must = TRUE,
                                                         !.status = "active"]]
      BY <1>9 DEF ResetAdminPassword
    <2>3. users'[u] = [users[u] EXCEPT !.hash = nextHash, !.must = TRUE, !.status = "active"]
      BY <1>0, <2>2
    <2>4. users'[u].hash = nextHash /\ users'[u].status = "active"
      BY <2>1, <2>3 DEF UserRow
    <2>5. users' = [users EXCEPT ![u] = users'[u]]
      BY <2>2, <2>3
    <2>6. /\ u \in accounts /\ accounts' = accounts /\ nextHash' = nextHash + 1
          /\ sessions' = sessions \ OfUser(sessions, u)
          /\ UNCHANGED <<minted, grants>>
      BY <1>9 DEF ResetAdminPassword, RevokePasswordGrants
    <2> QED
      BY <2>4, <2>5, <2>6 DEF Replaces
  <1>10. ASSUME NEW u \in Ids, CreateAdmin(u) PROVE Replaces(u)
    <2>1. users' = [users EXCEPT ![u] = [BlankRow EXCEPT
                      !.hash = nextHash, !.must = TRUE, !.status = "active"]]
      BY <1>10 DEF CreateAdmin
    <2>2. users'[u] = [BlankRow EXCEPT !.hash = nextHash, !.must = TRUE, !.status = "active"]
      BY <1>0, <2>1
    <2>3. users'[u].hash = nextHash /\ users'[u].status = "active"
      BY <2>2 DEF BlankRow
    <2>4. sessions = sessions \ OfUser(sessions, u)
      BY <1>10 DEF RefInv, Inv, GrantsMatchCredential, OfUser, CreateAdmin
    <2> QED
      BY <1>10, <2>1, <2>2, <2>3, <2>4 DEF Replaces, CreateAdmin
  <1> QED
    BY <1>1, <1>3, <1>4, <1>5, <1>6, <1>7, <1>8, <1>9, <1>10 DEF Next

(* The strengthened invariant is inductive.                                 *)
LEMMA RefInvInit == Init => RefInv
  <1> SUFFICES ASSUME Init PROVE RefInv
    OBVIOUS
  <1>1. HashesOld
    BY DEF Init, HashesOld, Account
  <1> QED
    BY <1>1, InvInit DEF Init, RefInv, SessMinted

(* Every step keeps it: hashes are taken in order, secrets once.            *)
LEMMA RefInvStep == RefInv /\ [Next]_vars => RefInv'
  <1> SUFFICES ASSUME RefInv, [Next]_vars PROVE RefInv'
    OBVIOUS
  <1>0. nextHash \in Nat /\ users \in [Ids -> UserRow] /\ \A u \in Ids : users[u].hash \in Nat
    BY DEF RefInv, Inv, TypeOK, TablesOK, UserRow
  <1>1. ASSUME NEW p \in Procs, Opens(p) PROVE HashesOld' /\ SessMinted'
    BY <1>1 DEF Opens, RefInv, HashesOld, SessMinted
  <1>2. ASSUME NEW u \in Ids, Replaces(u) PROVE HashesOld' /\ SessMinted'
    <2>1. \A v \in Ids : v # u => users'[v] = users[v]
      BY <1>0, <1>2 DEF Replaces
    <2> QED
      BY <1>0, <1>2, <2>1 DEF Replaces, RefInv, HashesOld, SessMinted
  <1>3. ASSUME Ends PROVE HashesOld' /\ SessMinted'
    <2>1. HashesOld'
      BY <1>3 DEF Ends, RefInv, HashesOld
    <2>2. SessMinted'
      BY <1>3 DEF Ends, RefInv, SessMinted
    <2> QED
      BY <2>1, <2>2
  <1> QED
    BY <1>1, <1>2, <1>3, AuthorityStep, InvStep DEF RefInv

(* The three kinds of step are steps of the authority.                      *)
LEMMA Simulation == RefInv /\ [Next]_vars => [Authority!Next]_(Authority!authority)
  <1> SUFFICES ASSUME RefInv, [Next]_vars
               PROVE  [Authority!Next]_(Authority!authority)
    OBVIOUS
  <1> DEFINE Eligible == {u \in accounts : users[u].status = "active"}
             Cred     == [u \in Ids |-> users[u].hash]
  <1>0. users \in [Ids -> UserRow] /\ accounts \subseteq Ids
    BY DEF RefInv, Inv, TypeOK, TablesOK
  <1>1. ASSUME NEW p \in Procs, ~At(p, "idle"), Opens(p)
        PROVE  \E u \in Ids, g \in grants' \ grants : Authority!Issue(u, g)
    <2>1. PICK t \in Tokens \ minted :
            /\ sessions' = sessions \cup
                 {[tok |-> t, user |-> req[p].user, hash |-> req[p].row.hash]}
            /\ grants' = grants \cup {[sess |-> t, held |-> req[p].held]}
            /\ WithPassword(req[p].user, req[p].row.hash)
            /\ UNCHANGED <<accounts, users>>
      BY <1>1 DEF Opens
    <2> DEFINE u == req[p].user
               g == [sess |-> t, held |-> req[p].held]
    <2>2. u \in Eligible /\ u \in Ids /\ Cred[u] = req[p].row.hash
      BY <1>0, <2>1 DEF WithPassword
    <2>3. \A old \in grants : old.sess # g.sess
      BY DEF RefInv, SessMinted
    <2>4. g \in grants' \ grants
      BY <2>1, <2>3
    <2>5. \A x \in grants : req[p].held \cap x.held = {}
      BY DEF RefInv, Inv, EvidenceApart
    <2>6. g.held \cap UNION {x.held : x \in grants} = {}
      BY <2>5
    <2>7. Eligible' = Eligible /\ Cred' = Cred
      BY <2>1
    <2>8. sessions' = sessions \cup {[tok |-> g.sess, user |-> u, hash |-> Cred[u]]}
      BY <2>1, <2>2
    <2>9. Authority!Issue(u, g)
      BY <2>1, <2>2, <2>3, <2>6, <2>7, <2>8 DEF Authority!Issue, Authority!Used
    <2> QED
      BY <2>2, <2>4, <2>9
  <1>2. ASSUME NEW u \in Ids, Replaces(u) PROVE Authority!Replace(u)
    <2>0. nextHash \in Nat /\ users[u].hash \in Nat /\ users[u].hash < nextHash
      BY <1>0 DEF RefInv, Inv, TypeOK, TablesOK, UserRow, HashesOld
    <2>1. \A v \in Ids : v # u => users'[v] = users[v]
      BY <1>0, <1>2 DEF Replaces
    <2>2. Cred' = [Cred EXCEPT ![u] = Cred'[u]] /\ Cred'[u] > Cred[u]
      BY <2>0, <2>1, <1>2 DEF Replaces
    <2>3. Eligible' = Eligible \cup {u}
      BY <1>0, <2>1, <1>2 DEF Replaces
    <2>4. sessions' = {s \in sessions : s.user # u}
      BY <1>2 DEF Replaces, OfUser
    <2>5. grants' = grants
      BY <1>2 DEF Replaces
    <2> QED
      BY <2>2, <2>3, <2>4, <2>5 DEF Authority!Replace
  <1>3. CASE Ends
    <2>1. Eligible' = Eligible /\ Cred' = Cred
      BY <1>0, <1>3 DEF Ends
    <2>2. Authority!EndSessions
      BY <1>3, <2>1 DEF Ends, Authority!EndSessions
    <2> QED
      BY <2>2 DEF Authority!Next
  <1> QED
    BY <1>1, <1>2, <1>3, AuthorityStep DEF Authority!Next

(* Sign-in by every path, logout, expiry, replacement and reset, spread     *)
(* over statements that interleave, implement the abstract authority: a     *)
(* session is issued in one step, to an active account, on evidence no      *)
(* session was issued on and under the current credential; what ended stays *)
(* ended; and a replacement ends every session of its account at once.      *)
THEOREM AuthorityImplemented == Spec => ImplementsAuthority
  <1>1. Init => Authority!Init
    <2> SUFFICES ASSUME Init PROVE Authority!Init
      OBVIOUS
    <2>1. \A u \in Ids : users[u].hash \in Nat
      BY DEF Init, Account
    <2> QED
      BY <2>1 DEF Init, Authority!Init
  <1> QED
    BY <1>1, RefInvInit, RefInvStep, Simulation, PTL
    DEF Spec, ImplementsAuthority, Authority!Spec

=============================================================================
