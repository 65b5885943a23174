---------------------------- MODULE Provisioning ----------------------------
(***************************************************************************)
(* Where accounts come from: the SSO callback that provisions on first     *)
(* sign-on, the webhook that replicates KySignOn's directory, and SCIM.    *)
(*                                                                         *)
(* An account is found by its subject, but only its user name is UNIQUE,   *)
(* and looking up and inserting are two statements.  Signed events may be  *)
(* lost, delivered late, out of order or many times; nothing but the       *)
(* timestamp window tells an old one from a new one.  Roles are treated as *)
(* the status is; credentials are the business of Credentials and          *)
(* Directory.                                                              *)
(***************************************************************************)
EXTENDS Integers, FiniteSets

CONSTANTS
  Ids,        \* account ids
  Subjects,   \* people, as KySignOn knows them
  Names,      \* user names
  Procs,      \* request slots
  None,       \* no account, no subject
  Window,     \* how far a timestamp may be from the clock
  MaxTime,    \* bound: clock ticks of a behaviour
  MaxInputs   \* bound: events signed and SCIM requests made in a behaviour

Providers == {"local", "scim", "kysignon"}

ASSUME ProvisioningAssumption ==
  /\ Window \in Nat /\ MaxTime \in Nat /\ MaxInputs \in Nat
  /\ None \notin Ids \cup Subjects \cup Names \cup Providers

VARIABLES
  users,     \* the users table; NoRow where there is no account
  used,      \* ids generated so far: a random id never repeats
  sessions,  \* sessions; field subject is history: who signed on
  req,       \* program counter and locals of each request
  clock,
  events,    \* KySignOn: the events it has signed
  scim,      \* SCIM requests made so far
  known,     \* history: every name a subject has been given
  settled    \* history: accounts disabled for good, see Settle

server == <<users, used, sessions, req>>
inputs == <<events, scim>>
vars   == <<server, clock, inputs, known, settled>>

Status == {"active", "inactive"}
NoRow  == [provider |-> None, subject |-> None, name |-> None, status |-> "inactive"]
Idle   == [pc |-> "idle", user |-> None, row |-> NoRow, revoke |-> FALSE]

Account(provider, s, n, status) ==
  [provider |-> provider, subject |-> s, name |-> n, status |-> status]

Exists(u)   == users[u] # NoRow
BySSO(s)    == {u \in Ids : users[u].provider = "kysignon" /\ users[u].subject = s}
NameFree(n) == \A u \in Ids : users[u].name # n

(* A fresh instance with its local administrator, under any of the names.  *)
Init ==
  /\ \E u \in Ids, n \in Names :
       /\ users = [v \in Ids |->
            IF v = u THEN Account("local", None, n, "active") ELSE NoRow]
       /\ used = {u}
  /\ sessions = {}
  /\ req = [p \in Procs |-> Idle]
  /\ clock = 0
  /\ events = {}
  /\ scim = 0
  /\ known = [s \in Subjects |-> {}]
  /\ settled = {}

At(p, step)  == req[p].pc = step
Become(p, r) == req' = [req EXCEPT ![p] = r]

----------------------------------------------------------------------------
(* The SSO callback.  The code was exchanged for claims that carry the     *)
(* subject and its present name.  Whatever goes wrong with the lookup, not *)
(* only an account that is not there, leads to provisioning.               *)
SSOCallback(p, s, n) ==
  /\ At(p, "idle")
  /\ \/ \E u \in BySSO(s) :
          Become(p, [Idle EXCEPT !.pc = "issue", !.user = u, !.row = users[u]])
     \/ Become(p, [Idle EXCEPT !.pc = "provision",
                     !.row = Account("kysignon", s, n, "active")])
  /\ known' = [known EXCEPT ![s] = @ \cup {n}]
  /\ UNCHANGED <<users, used, sessions, clock, inputs, settled>>

(* Mutants of CreateUser: the id may be drawn again; the name is not       *)
(* unique; a name that is taken means that the account is already there.   *)
CreateUserAnyId(p, u) ==
  /\ ~Exists(u) /\ NameFree(req[p].row.name)
  /\ users' = [users EXCEPT ![u] = req[p].row]
  /\ UNCHANGED used

CreateUserAnyName(p, u) ==
  /\ u \in Ids \ used
  /\ users' = [users EXCEPT ![u] = req[p].row]
  /\ used' = used \cup {u}

CreateUserOrAdopt(p, u) ==
  \/ /\ u \in Ids \ used /\ NameFree(req[p].row.name)
     /\ users' = [users EXCEPT ![u] = req[p].row]
     /\ used' = used \cup {u}
  \/ users[u].name = req[p].row.name /\ UNCHANGED <<users, used>>

(* The insert: the user name is UNIQUE, the subject is not.                *)
CreateUser(p, u) ==
  /\ u \in Ids \ used /\ NameFree(req[p].row.name)
  /\ users' = [users EXCEPT ![u] = req[p].row]
  /\ used' = used \cup {u}

(* First sign-on: the account made is the one signed in.                   *)
Provision(p) ==
  /\ At(p, "provision")
  /\ \E u \in Ids :
       CreateUser(p, u) /\ Become(p, [req[p] EXCEPT !.pc = "issue", !.user = u])
  /\ UNCHANGED <<sessions, clock, inputs, known, settled>>

(* Under withPassword: the account must still be there and active.         *)
IssueSession(p) ==
  LET u == req[p].user IN
  /\ At(p, "issue")
  /\ Exists(u) /\ users[u].status = "active"
  /\ sessions' = sessions \cup {[user |-> u, subject |-> req[p].row.subject]}
  /\ Become(p, Idle)
  /\ UNCHANGED <<users, used, clock, inputs, known, settled>>

----------------------------------------------------------------------------
(* The webhook.                                                            *)

(* Mutant of Fresh: the timestamp must be there, and may be of any age.    *)
FreshAnyAge(e) == e.ts >= 0

(* The timestamp is close to the clock, on either side of it.              *)
Fresh(e) == e.ts - clock \in -Window..Window

(* The copy of an account as it is to be written back; whether its         *)
(* sessions go afterwards is decided by the row that was read.             *)
Edit(u, n, status) ==
  [pc |-> "update", user |-> u, revoke |-> users[u].status # status,
   row |-> [users[u] EXCEPT !.name = n, !.status = status]]

(* The checks on the body.  user.created and user.updated are one case:    *)
(* both are "updated" here.                                                *)
HandleSyncWebhook(p, e) ==
  /\ At(p, "idle")
  /\ e \in events /\ Fresh(e)
  /\ Become(p, [Idle EXCEPT !.pc = e.kind,
                  !.row = Account("kysignon", e.subject, e.name, e.status)])
  /\ UNCHANGED <<users, used, sessions, clock, inputs, known, settled>>

(* The account is looked up afterwards, when the event may have aged.      *)
GetUserBySSO(p) ==
  LET event == req[p].row
      found == BySSO(event.subject)
  IN
  /\ \/ /\ At(p, "updated")
        /\ \/ \E u \in found : Become(p, Edit(u, event.name, event.status))
           \/ found = {} /\ Become(p, [req[p] EXCEPT !.pc = "create"])
     \/ /\ At(p, "deactivated")
        /\ \E u \in found :
             Become(p, [Edit(u, users[u].name, "inactive") EXCEPT !.revoke = TRUE])
     \/ /\ At(p, "deleted")
        /\ \E u \in found : Become(p, [Idle EXCEPT !.pc = "delete", !.user = u])
     \/ /\ req[p].pc \in {"deactivated", "deleted"}
        /\ found = {} /\ Become(p, Idle)
  /\ UNCHANGED <<users, used, sessions, clock, inputs, known, settled>>

----------------------------------------------------------------------------
(* SCIM, on accounts of any provider.                                      *)

ScimRequest(p) ==
  /\ At(p, "idle")
  /\ Cardinality(events) + scim < MaxInputs
  /\ scim' = scim + 1
  /\ UNCHANGED <<users, used, sessions, clock, events>>

(* The external id is the client's choice: it may be a subject's.          *)
ScimCreate(p, x, n, status) ==
  /\ ScimRequest(p)
  /\ Become(p, [Idle EXCEPT !.pc = "create", !.row = Account("scim", x, n, status)])
  /\ UNCHANGED <<known, settled>>

(* Replace and patch: the administrator has the last word from here on.    *)
ScimPatch(p, u, n, status) ==
  /\ ScimRequest(p) /\ Exists(u)
  /\ Become(p, Edit(u, n, status))
  /\ known' = [s \in Subjects |-> IF u \in BySSO(s) THEN known[s] \cup {n} ELSE known[s]]
  /\ settled' = settled \ {u}

ScimDelete(p, u) ==
  /\ ScimRequest(p) /\ Exists(u)
  /\ Become(p, [Idle EXCEPT !.pc = "delete", !.user = u])
  /\ UNCHANGED <<known, settled>>

----------------------------------------------------------------------------
(* The statements the webhook and SCIM share.                              *)

Create(p) ==
  /\ At(p, "create")
  /\ \E u \in Ids : CreateUser(p, u)
  /\ Become(p, Idle)
  /\ UNCHANGED <<sessions, clock, inputs, known, settled>>

(* Every column is written, the name under its UNIQUE constraint.          *)
UpdateUser(p) ==
  LET u == req[p].user IN
  /\ At(p, "update")
  /\ Exists(u)
  /\ \A v \in Ids \ {u} : users[v].name # req[p].row.name
  /\ users' = [users EXCEPT ![u] = req[p].row]
  /\ Become(p, IF req[p].revoke THEN [req[p] EXCEPT !.pc = "revoke", !.row = NoRow] ELSE Idle)
  /\ UNCHANGED <<used, sessions, clock, inputs, known, settled>>

OfUser(u) == {x \in sessions : x.user = u}

DeleteUserSessions(p) ==
  /\ At(p, "revoke")
  /\ sessions' = sessions \ OfUser(req[p].user)
  /\ Become(p, Idle)
  /\ UNCHANGED <<users, used, clock, inputs, known, settled>>

(* Sessions go with the account: their foreign key cascades.               *)
DeleteUser(p) ==
  LET u == req[p].user IN
  /\ At(p, "delete")
  /\ users' = [users EXCEPT ![u] = NoRow]
  /\ sessions' = sessions \ OfUser(u)
  /\ settled' = settled \ {u}
  /\ Become(p, Idle)
  /\ UNCHANGED <<used, clock, inputs, known>>

(* The statement fails, the sender hangs up or the process dies.           *)
End(p) ==
  /\ ~At(p, "idle")
  /\ Become(p, Idle)
  /\ UNCHANGED <<users, used, sessions, clock, inputs, known, settled>>

----------------------------------------------------------------------------
(* KySignOn signs what it has to say of a person, who may have been        *)
(* renamed before.  An event once signed may be delivered at any later     *)
(* time, any number of times.                                              *)

Kinds == {"updated", "deactivated", "deleted"}

Enables(e) == e.kind = "updated" /\ e.status = "active"

Sign(kind, s, n, status) ==
  LET e == [kind |-> kind, subject |-> s, name |-> n, status |-> status, ts |-> clock] IN
  /\ Cardinality(events) + scim < MaxInputs
  /\ kind # "updated" => status = "inactive"
  /\ events' = events \cup {e}
  /\ known' = [known EXCEPT ![s] = @ \cup {n}]
  /\ settled' = IF Enables(e) THEN settled \ BySSO(s) ELSE settled
  /\ UNCHANGED <<server, clock, scim>>

(* An account is disabled for good when it is disabled, no event that      *)
(* enables its subject is still inside its window or was let in while it   *)
(* was, and no request under way holds a copy of the account.              *)
Settle(now) ==
  {u \in Ids :
    /\ users[u].provider = "kysignon" /\ users[u].status = "inactive"
    /\ \A e \in events : Enables(e) /\ e.subject = users[u].subject => now > e.ts + Window
    /\ \A p \in Procs :
         /\ req[p].user # u
         /\ ~(At(p, "updated") /\ req[p].row.subject = users[u].subject)}

Tick ==
  /\ clock < MaxTime
  /\ clock' = clock + 1
  /\ settled' = settled \cup Settle(clock + 1)
  /\ UNCHANGED <<server, inputs, known>>

----------------------------------------------------------------------------
SignOn(p) == (\E s \in Subjects, n \in Names : SSOCallback(p, s, n)) \/ Provision(p) \/ IssueSession(p)

Replicate(p) ==
  \/ \E e \in events : HandleSyncWebhook(p, e)
  \/ GetUserBySSO(p)
  \/ \E n \in Names, status \in Status :
       \/ \E x \in Subjects \cup {None} : ScimCreate(p, x, n, status)
       \/ \E u \in Ids : ScimPatch(p, u, n, status)
  \/ \E u \in Ids : ScimDelete(p, u)
  \/ Create(p) \/ UpdateUser(p) \/ DeleteUserSessions(p) \/ DeleteUser(p)

Next ==
  \/ \E p \in Procs : SignOn(p) \/ Replicate(p) \/ End(p)
  \/ \E s \in Subjects, n \in Names, kind \in Kinds, status \in Status : Sign(kind, s, n, status)
  \/ Tick

Spec == Init /\ [][Next]_vars

----------------------------------------------------------------------------
(* Types; an account's id is one that was generated, and so never again.   *)
TypeOK ==
  /\ \A u \in Ids : Exists(u) =>
       /\ u \in used
       /\ users[u].provider \in Providers
       /\ users[u].name \in Names /\ users[u].status \in Status
  /\ \A p \in Procs : req[p].pc \in {"issue", "update", "revoke", "delete"}
                        => req[p].user \in used

(* handleKySignOnCallback "upserts" by lookup and insert, and nothing is   *)
(* unique but the name: callbacks and webhooks that race, retry or are     *)
(* delivered twice leave a subject no more accounts than it has had names, *)
(* so one account as long as nobody is renamed.                            *)
AccountsPerSubject ==
  \A s \in Subjects : Cardinality(BySSO(s)) <= Cardinality(known[s])

(* A sign-on yields sessions of the subject's own account only: a local,   *)
(* a SCIM or another person's account is never entered through KySignOn,   *)
(* although names coincide and change hands.                               *)
SignOnIsOwn ==
  \A x \in sessions :
    users[x.user].provider = "kysignon" /\ users[x.user].subject = x.subject

(* The five minute window: an account that KySignOn had disabled, and of   *)
(* which it has said nothing else since, is never enabled again by events  *)
(* signed earlier, however often and in whatever order they are delivered  *)
(* again.  It takes the window, and then the end of the requests that were *)
(* let in within it: between the check of the timestamp and the lookup an  *)
(* event may age without bound.                                            *)
DisabledForGood == \A u \in settled : users[u].status = "inactive"

=============================================================================
