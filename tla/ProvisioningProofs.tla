------------------------- MODULE ProvisioningProofs -------------------------
(***************************************************************************)
(* The safety properties of Provisioning for any number of accounts,       *)
(* people, names, requests and events.  What keeps them is what a request  *)
(* carries from the statement that read a row to the one that writes it:   *)
(* a copy of an account is of the person the account still belongs to, or  *)
(* the account is gone and its id never comes back.                        *)
(***************************************************************************)
EXTENDS Provisioning, FiniteSetTheorems, TLAPS

AccountRow == [provider: Providers, subject: Subjects \cup {None}, name: Names, status: Status]
Request == [pc: Kinds \cup {"idle", "provision", "issue", "create", "update", "revoke", "delete"},
            user: Ids \cup {None}, row: AccountRow \cup {NoRow}, revoke: BOOLEAN]
Event == [kind: Kinds, subject: Subjects, name: Names, status: Status, ts: Nat]

(* A row of KySignOn's bears a name its subject was given.                 *)
Named(row, names) ==
  row.provider = "kysignon" => row.subject \in Subjects /\ row.name \in names[row.subject]

(* The account is gone, or it is still of the person in the copy.          *)
SamePerson(now, copy) ==
  now # NoRow => now.provider = copy.provider /\ now.subject = copy.subject

(* What a request knows at its step.                                       *)
Slot(r, table, ids, names) ==
  /\ r \in Request
  /\ r.pc \in {"issue", "update", "revoke", "delete"} => r.user \in ids
  /\ r.pc \in Kinds \cup {"provision", "issue", "create", "update"} => r.row \in AccountRow
  /\ r.pc \in Kinds \cup {"provision", "create", "update"} => Named(r.row, names)
  /\ r.pc \in Kinds \cup {"provision", "issue"} => r.row.provider = "kysignon"
  /\ r.pc \in {"issue", "update"} => SamePerson(table[r.user], r.row)

Tables ==
  /\ users \in [Ids -> AccountRow \cup {NoRow}]
  /\ used \subseteq Ids /\ \A u \in Ids : Exists(u) => u \in used
  /\ known \in [Subjects -> SUBSET Names] /\ \A s \in Subjects : IsFiniteSet(known[s])
  /\ \A u, v \in Ids : Exists(u) /\ Exists(v) /\ users[u].name = users[v].name => u = v
  /\ \A u \in Ids : Named(users[u], known)

Requests == DOMAIN req = Procs /\ \A p \in Procs : Slot(req[p], users, used, known)

Signed ==
  /\ clock \in Nat /\ events \subseteq Event
  /\ \A e \in events : e.name \in known[e.subject]

Own(x, table) ==
  /\ x.user \in Ids
  /\ table[x.user].provider = "kysignon" /\ table[x.user].subject = x.subject

Sessions == \A x \in sessions : Own(x, users)

(* A request that holds a copy of an account, or an event of its subject   *)
(* that was let in, does not enable it.                                    *)
Harmless(r, u, subject) ==
  \/ r.pc = "update" /\ r.user = u
  \/ r.pc = "updated" /\ r.row.subject = subject
  => r.row.status = "inactive"

(* Nothing under way and nothing still fresh can enable a settled account. *)
Settled ==
  \A u \in settled :
    /\ u \in Ids /\ users[u].provider = "kysignon" /\ users[u].status = "inactive"
    /\ \A e \in events : Enables(e) /\ e.subject = users[u].subject => clock > e.ts + Window
    /\ \A p \in Procs : Harmless(req[p], u, users[u].subject)

Inv == Tables /\ Requests /\ Signed /\ Sessions /\ Settled

(* What a request may be at, and what it means to be harmless, is wanted   *)
(* in nearly every step.                                                   *)
USE DEF Kinds, Harmless

----------------------------------------------------------------------------
(* NoRow is no account, and no account of KySignOn's is NoRow.             *)
LEMMA Rows ==
  /\ NoRow \notin AccountRow /\ NoRow.provider # "kysignon" /\ NoRow.status = "inactive"
  /\ None \notin Ids /\ None \notin Names /\ None \notin Subjects
  BY ProvisioningAssumption DEF NoRow, AccountRow, Providers

(* Accounts are made under fresh ids and never change hands.               *)
Continues ==
  /\ used \subseteq used'
  /\ \A u \in used : users'[u] # NoRow =>
       /\ users[u] # NoRow
       /\ users'[u].provider = users[u].provider /\ users'[u].subject = users[u].subject
  /\ \A s \in Subjects : known[s] \subseteq known'[s]

(* A request that takes no step still knows what it knew.                  *)
LEMMA SlotStable ==
  ASSUME NEW r, Slot(r, users, used, known), Continues
  PROVE  Slot(r, users', used', known')
  <1>1. r.pc \in {"issue", "update", "revoke", "delete"} => r.user \in used /\ r.user \in used'
    BY DEF Slot, Continues
  <1>2. Named(r.row, known) => Named(r.row, known')
    BY DEF Named, Continues
  <1>3. r.pc \in {"issue", "update"} => SamePerson(users'[r.user], r.row)
    BY <1>1 DEF Slot, SamePerson, Continues
  <1> QED
    BY <1>1, <1>2, <1>3 DEF Slot

(* What one request's step may do, given what it holds.                    *)
Local(p) ==
  /\ req' = [req EXCEPT ![p] = req'[p]] /\ Slot(req'[p], users', used', known')
  /\ Continues /\ Tables' /\ UNCHANGED <<clock, events>>
  /\ \A x \in sessions' : Own(x, users') \/ (x \in sessions /\ users'[x.user] # NoRow)
  /\ settled' \subseteq settled
  /\ \A u \in settled' :
       /\ users'[u] # NoRow /\ users'[u].status = "inactive"
       /\ Harmless(req'[p], u, users[u].subject)

(* A step that is Local keeps the invariant.                               *)
LEMMA LocalStep ==
  ASSUME Inv, NEW p \in Procs, Local(p)
  PROVE  Inv'
  <1> USE DEF Inv
  <1>0. /\ DOMAIN req' = Procs /\ \A q \in Procs : q # p => req'[q] = req[q]
    BY DEF Requests, Local
  <1>1. Requests'
    <2> SUFFICES ASSUME NEW q \in Procs PROVE Slot(req'[q], users', used', known')
      BY <1>0 DEF Requests
    <2>1. CASE q = p
      BY <2>1 DEF Local
    <2>2. CASE q # p
      BY <1>0, <2>2, SlotStable DEF Requests, Local
    <2> QED
      BY <2>1, <2>2
  <1>2. Signed'
    BY DEF Signed, Local, Continues, Event
  <1>3. Sessions'
    <2> SUFFICES ASSUME NEW x \in sessions, users'[x.user] # NoRow PROVE Own(x, users')
      BY DEF Sessions, Local
    <2>1. Own(x, users) /\ x.user \in used
      BY Rows DEF Sessions, Own, Tables, Exists
    <2> QED
      BY <2>1 DEF Own, Local, Continues
  <1>4. Settled'
    <2> SUFFICES ASSUME NEW u \in settled'
                 PROVE  /\ u \in Ids /\ users'[u].provider = "kysignon"
                        /\ users'[u].status = "inactive"
                        /\ \A e \in events' : Enables(e) /\ e.subject = users'[u].subject
                                                => clock' > e.ts + Window
                        /\ \A q \in Procs : Harmless(req'[q], u, users'[u].subject)
      BY DEF Settled, Enables
    <2>1. u \in settled /\ u \in Ids /\ users[u].provider = "kysignon"
      BY DEF Local, Settled
    <2>2. u \in used
      BY <2>1, Rows DEF Tables, Exists
    <2>3. /\ users'[u] # NoRow /\ users'[u].status = "inactive"
          /\ users'[u].provider = users[u].provider /\ users'[u].subject = users[u].subject
      BY <2>2 DEF Local, Continues
    <2>4. \A q \in Procs : Harmless(req'[q], u, users[u].subject)
      BY <1>0, <2>1 DEF Local, Settled
    <2> QED
      BY <2>1, <2>3, <2>4 DEF Local, Settled
  <1> QED
    BY <1>1, <1>2, <1>3, <1>4 DEF Local

(* A request moves on and the tables stay, but for names given: its new    *)
(* state must be a legal one, with no copy that enables a settled account. *)
LEMMA MovesOn ==
  ASSUME Inv, NEW p \in Procs, UNCHANGED <<users, used, sessions, clock, events>>,
         known' \in [Subjects -> SUBSET Names],
         \A s \in Subjects : IsFiniteSet(known'[s]) /\ known[s] \subseteq known'[s],
         req' = [req EXCEPT ![p] = req'[p]], Slot(req'[p], users, used, known'),
         settled' \subseteq settled,
         \A u \in settled' : Harmless(req'[p], u, users[u].subject)
  PROVE  Inv'
  <1>1. Continues
    BY DEF Continues
  <1>2. Tables'
    <2>1. \A u \in Ids : Named(users'[u], known')
      BY DEF Inv, Tables, Named
    <2> QED
      BY <2>1 DEF Inv, Tables, Exists
  <1>3. \A u \in settled' : users'[u] # NoRow /\ users'[u].status = "inactive"
    BY Rows DEF Inv, Settled
  <1>4. \A x \in sessions' : Own(x, users')
    BY DEF Inv, Sessions, Own
  <1>5. Local(p)
    BY <1>1, <1>2, <1>3, <1>4 DEF Local
  <1> QED
    BY <1>5, LocalStep

----------------------------------------------------------------------------
(* A request that has ended carries nothing.                               *)
LEMMA IdleSlot ==
  /\ Idle.pc = "idle" /\ Idle.user = None /\ Idle.row = NoRow
  /\ \A table, ids, names : Slot(Idle, table, ids, names)
  <1>1. Idle \in Request /\ Idle.pc = "idle" /\ Idle.user = None /\ Idle.row = NoRow
    BY DEF Idle, Request
  <1> HIDE DEF Idle
  <1> QED
    BY <1>1 DEF Slot

(* A person is given a name.                                               *)
LEMMA Naming ==
  ASSUME Tables, NEW s \in Subjects, NEW n \in Names
  PROVE  LET names == [known EXCEPT ![s] = @ \cup {n}] IN
         /\ names \in [Subjects -> SUBSET Names] /\ n \in names[s]
         /\ \A t \in Subjects : IsFiniteSet(names[t]) /\ known[t] \subseteq names[t]
  <1>1. IsFiniteSet(known[s] \cup {n})
    BY FS_AddElement DEF Tables
  <1> QED
    BY <1>1 DEF Tables

(* The states of requests the handlers move to.                            *)
Inserts(pc, row) == [Idle EXCEPT !.pc = pc, !.row = row]
Found(u)   == [Idle EXCEPT !.pc = "issue", !.user = u, !.row = users[u]]
Gone(u)    == [Idle EXCEPT !.pc = "delete", !.user = u]
Revokes(r) == [r EXCEPT !.revoke = TRUE]

(* A request to insert an account.                                         *)
LEMMA NewSlot ==
  ASSUME NEW table, NEW ids, NEW names, NEW provider \in Providers,
         NEW s \in Subjects \cup {None}, NEW n \in Names, NEW status \in Status,
         NEW pc \in Kinds \cup {"provision", "create"},
         pc # "create" => provider = "kysignon",
         provider = "kysignon" => s \in Subjects /\ n \in names[s]
  PROVE  /\ Slot(Inserts(pc, Account(provider, s, n, status)), table, ids, names)
         /\ Inserts(pc, Account(provider, s, n, status)).pc = pc
         /\ Inserts(pc, Account(provider, s, n, status)).row.subject = s
         /\ Inserts(pc, Account(provider, s, n, status)).row.status = status
  <1> DEFINE r == Inserts(pc, Account(provider, s, n, status))
             a == Account(provider, s, n, status)
  <1>1. /\ a \in AccountRow /\ a.provider = provider /\ a.subject = s /\ a.name = n
        /\ a.status = status
    BY DEF Account, AccountRow
  <1> HIDE DEF a
  <1>2. r \in Request /\ r.pc = pc /\ r.row = a
    BY <1>1 DEF Idle, Request, Inserts, a
  <1> HIDE DEF r
  <1>3. Named(r.row, names)
    BY <1>1, <1>2 DEF Named
  <1>4. Slot(r, table, ids, names)
    BY <1>1, <1>2, <1>3 DEF Slot
  <1> QED
    BY <1>1, <1>2, <1>4 DEF r

(* A request that has read an account and will write it back.              *)
LEMMA EditSlot ==
  ASSUME Tables, NEW u \in Ids, Exists(u), NEW n \in Names, NEW status \in Status, NEW names,
         users[u].provider = "kysignon" => n \in names[users[u].subject]
  PROVE  /\ Slot(Edit(u, n, status), users, used, names)
         /\ Edit(u, n, status).user = u /\ Edit(u, n, status).row.status = status
         /\ Slot(Revokes(Edit(u, n, status)), users, used, names)
         /\ Revokes(Edit(u, n, status)).user = u
         /\ Revokes(Edit(u, n, status)).row.status = status
  <1> DEFINE row == [users[u] EXCEPT !.name = n, !.status = status]
             e   == Edit(u, n, status)
             f   == Revokes(e)
  <1>1. users[u] \in AccountRow /\ u \in used
    BY DEF Tables, Exists
  <1>2. /\ row \in AccountRow /\ row.name = n /\ row.status = status
        /\ row.provider = users[u].provider /\ row.subject = users[u].subject
    BY <1>1 DEF AccountRow
  <1>3. users[u].provider = "kysignon" => users[u].subject \in Subjects
    BY DEF Tables, Named
  <1>4. Named(row, names) /\ SamePerson(users[u], row)
    BY <1>2, <1>3 DEF Named, SamePerson
  <1> HIDE DEF row
  <1>5. (users[u].status # status) \in BOOLEAN
    OBVIOUS
  <1>6. PICK b \in BOOLEAN : e = [pc |-> "update", user |-> u, revoke |-> b, row |-> row]
    BY <1>5 DEF Edit, row
  <1>7. /\ e \in Request /\ e.pc = "update" /\ e.user = u /\ e.row = row
        /\ f \in Request /\ f.pc = "update" /\ f.user = u /\ f.row = row
    <2>1. e.pc = "update" /\ e.user = u /\ e.row = row
      BY <1>6
    <2>2. e \in Request
      BY <1>2, <1>6 DEF Request
    <2> HIDE DEF e
    <2>3. f.pc = e.pc /\ f.user = e.user /\ f.row = e.row
      BY <2>2 DEF Request, Revokes
    <2>4. f \in Request
      BY <2>2 DEF Request, Revokes
    <2> QED
      BY <2>1, <2>2, <2>3, <2>4
  <1> HIDE DEF e, f
  <1>8. Slot(e, users, used, names) /\ Slot(f, users, used, names)
    BY <1>1, <1>2, <1>4, <1>7 DEF Slot
  <1> QED
    BY <1>2, <1>7, <1>8 DEF e, f


(* Requests that found an account and go on with it.                       *)
LEMMA FoundSlot ==
  ASSUME Tables, NEW u \in Ids, Exists(u), NEW names
  PROVE  /\ users[u].provider = "kysignon" => Slot(Found(u), users, used, names)
         /\ Slot(Gone(u), users, used, names) /\ Found(u).pc = "issue" /\ Gone(u).pc = "delete"
  <1> DEFINE found == Found(u)
             gone  == Gone(u)
  <1>1. users[u] \in AccountRow /\ u \in used
    BY DEF Tables, Exists
  <1>2. /\ found \in Request /\ found.pc = "issue" /\ found.user = u /\ found.row = users[u]
        /\ gone \in Request /\ gone.pc = "delete" /\ gone.user = u
    BY <1>1 DEF Idle, Request, Found, Gone
  <1> HIDE DEF found, gone
  <1>3. SamePerson(users[u], found.row)
    BY <1>2 DEF SamePerson
  <1>4. /\ users[u].provider = "kysignon" => Slot(found, users, used, names)
        /\ Slot(gone, users, used, names)
    BY <1>1, <1>2, <1>3 DEF Slot
  <1> QED
    BY <1>2, <1>4 DEF found, gone

(* The accounts of a subject are there, under a name the subject had.      *)
LEMMA SubjectsAccounts ==
  ASSUME Tables, NEW s \in Subjects, NEW u \in BySSO(s)
  PROVE  /\ u \in Ids /\ Exists(u) /\ users[u] \in AccountRow
         /\ users[u].provider = "kysignon" /\ users[u].subject = s
         /\ users[u].name \in known[s] /\ users[u].name \in Names
  <1>1. u \in Ids /\ users[u].provider = "kysignon" /\ users[u].subject = s
    BY DEF BySSO
  <1>2. Exists(u)
    BY <1>1, Rows DEF Exists
  <1>3. users[u].name \in known[s] /\ users[u] \in AccountRow
    BY <1>1, <1>2 DEF Tables, Named, Exists
  <1>4. users[u].name \in Names
    BY <1>3 DEF AccountRow
  <1> QED
    BY <1>1, <1>2, <1>3, <1>4

(* Names as they were.                                                     *)
LEMMA NamesKept ==
  ASSUME Tables, UNCHANGED known
  PROVE  /\ known' \in [Subjects -> SUBSET Names]
         /\ \A s \in Subjects : IsFiniteSet(known'[s]) /\ known[s] \subseteq known'[s]
  BY DEF Tables

(* The callback: the account found, or the one to be made, is of the       *)
(* subject that signed on.                                                 *)
LEMMA SSOCallbackStep ==
  ASSUME Inv, NEW p \in Procs, NEW s \in Subjects, NEW n \in Names, SSOCallback(p, s, n)
  PROVE  Inv'
  <1>0. Tables /\ DOMAIN req = Procs
    BY DEF Inv, Requests
  <1>1. /\ known' \in [Subjects -> SUBSET Names] /\ n \in known'[s]
        /\ \A t \in Subjects : IsFiniteSet(known'[t]) /\ known[t] \subseteq known'[t]
    BY <1>0, Naming DEF SSOCallback
  <1>2. UNCHANGED <<users, used, sessions, clock, events>> /\ settled' = settled
    BY DEF SSOCallback, inputs
  <1>3. req' = [req EXCEPT ![p] = req'[p]] /\ req'[p].pc \notin {"update", "updated"}
        /\ Slot(req'[p], users, used, known')
    <2> DEFINE new == Inserts("provision", Account("kysignon", s, n, "active"))
    <2>1. new.pc \notin {"update", "updated"} /\ Slot(new, users, used, known')
      BY <1>1, NewSlot DEF Providers, Status
    <2>2. ASSUME NEW u \in BySSO(s)
          PROVE  Found(u).pc \notin {"update", "updated"} /\ Slot(Found(u), users, used, known')
      <3>1. u \in Ids /\ Exists(u) /\ users[u].provider = "kysignon"
        BY <1>0, SubjectsAccounts
      <3> QED
        BY <1>0, <3>1, FoundSlot
    <2>3. \/ req' = [req EXCEPT ![p] = new]
          \/ \E u \in BySSO(s) : req' = [req EXCEPT ![p] = Found(u)]
      BY DEF SSOCallback, Become, Inserts, Found
    <2> HIDE DEF new
    <2> QED
      BY <1>0, <2>1, <2>2, <2>3
  <1> QED
    BY <1>1, <1>2, <1>3, MovesOn

(* The webhook: an event that would enable a settled account is not fresh. *)
LEMMA WebhookStep ==
  ASSUME Inv, NEW p \in Procs, NEW e \in events, HandleSyncWebhook(p, e)
  PROVE  Inv'
  <1>0. Tables /\ DOMAIN req = Procs
    BY DEF Inv, Requests
  <1>1. UNCHANGED <<users, used, sessions, clock, events, known, settled>>
    BY DEF HandleSyncWebhook, inputs
  <1>2. /\ e.kind \in Kinds /\ e.subject \in Subjects /\ e.name \in Names
        /\ e.status \in Status /\ e.ts \in Nat /\ e.name \in known[e.subject]
    BY DEF Inv, Signed, Event
  <1> DEFINE new == Inserts(e.kind, Account("kysignon", e.subject, e.name, e.status))
  <1>3. /\ Slot(new, users, used, known) /\ new.pc = e.kind
        /\ new.row.subject = e.subject /\ new.row.status = e.status
    <2>1. "kysignon" \in Providers /\ "create" \notin Kinds
      BY DEF Providers
    <2> QED
      BY <1>2, <2>1, NewSlot
  <1>4. req' = [req EXCEPT ![p] = new]
    BY DEF HandleSyncWebhook, Become, Inserts
  <1> HIDE DEF new
  <1>5. ASSUME NEW u \in settled, e.kind = "updated", e.subject = users[u].subject
        PROVE  e.status = "inactive"
    <2> SUFFICES ASSUME e.status = "active" PROVE FALSE
      BY <1>2 DEF Status
    <2>1. clock > e.ts + Window
      BY <1>5 DEF Inv, Settled, Enables
    <2>2. e.ts - clock \in -Window..Window
      BY DEF HandleSyncWebhook, Fresh
    <2> QED
      BY <1>2, <2>1, <2>2, ProvisioningAssumption DEF Inv, Signed
  <1>6. \A u \in settled : Harmless(new, u, users[u].subject)
    BY <1>2, <1>3, <1>5
  <1>7. req'[p] = new
    BY <1>0, <1>4
  <1> QED
    BY <1>0, <1>1, <1>3, <1>4, <1>6, <1>7, NamesKept, MovesOn

(* The lookup: the copy that will be written back is of the subject of the *)
(* event, which was harmless when it was let in.                           *)
LEMMA LookupStep ==
  ASSUME Inv, NEW p \in Procs, GetUserBySSO(p)
  PROVE  Inv'
  <1> DEFINE e == req[p].row
             found == BySSO(e.subject)
  <1>0. Tables /\ DOMAIN req = Procs /\ Slot(req[p], users, used, known)
    BY DEF Inv, Requests
  <1>1. UNCHANGED <<users, used, sessions, clock, events, known, settled>>
    BY DEF GetUserBySSO, inputs
  <1>2. /\ req[p].pc \in Kinds /\ e \in AccountRow /\ e.provider = "kysignon"
        /\ e.subject \in Subjects /\ e.name \in known[e.subject]
    BY <1>0 DEF GetUserBySSO, At, Slot, Named
  <1>3. e.name \in Names /\ e.status \in Status
    BY <1>2 DEF AccountRow
  <1> DEFINE Legal(r) ==
        Slot(r, users, used, known) /\ \A u \in settled : Harmless(r, u, users[u].subject)
  <1>4. ASSUME NEW u \in found, req[p].pc = "updated"
        PROVE  Legal(Edit(u, e.name, e.status))
    <2>1. u \in Ids /\ Exists(u) /\ users[u].subject = e.subject
      BY <1>0, <1>2, SubjectsAccounts
    <2>2. /\ Slot(Edit(u, e.name, e.status), users, used, known)
          /\ Edit(u, e.name, e.status).user = u /\ Edit(u, e.name, e.status).row.status = e.status
      BY <1>0, <1>2, <1>3, <2>1, EditSlot
    <2>3. u \in settled => e.status = "inactive"
      BY <1>4, <2>1 DEF Inv, Settled
    <2>4. Edit(u, e.name, e.status).pc = "update"
      BY DEF Edit
    <2> QED
      BY <2>2, <2>3, <2>4
  <1>5. ASSUME NEW u \in found
        PROVE  Legal(Revokes(Edit(u, users[u].name, "inactive")))
    <2>1. /\ u \in Ids /\ Exists(u) /\ users[u].name \in Names
          /\ users[u].name \in known[users[u].subject]
      BY <1>0, <1>2, SubjectsAccounts
    <2>2. "inactive" \in Status
      BY DEF Status
    <2> QED
      BY <1>0, <2>1, <2>2, EditSlot
  <1>6. ASSUME NEW u \in found PROVE Legal(Gone(u))
    BY <1>0, <1>2, FoundSlot, SubjectsAccounts
  <1>7. Legal([req[p] EXCEPT !.pc = "create"])
    <2> DEFINE new == [req[p] EXCEPT !.pc = "create"]
    <2>1. new \in Request /\ new.pc = "create" /\ new.row = e
      BY <1>0 DEF Slot, Request
    <2>2. Named(e, known)
      BY <1>0, <1>2 DEF Slot
    <2> HIDE DEF new, e
    <2>3. Slot(new, users, used, known)
      BY <1>2, <2>1, <2>2 DEF Slot
    <2> QED
      BY <2>1, <2>3 DEF new
  <1>8. Legal(Idle)
    BY IdleSlot
  <1>9. \E r : Legal(r) /\ req' = [req EXCEPT ![p] = r]
    <2> HIDE DEF Legal
    <2> QED
      BY <1>4, <1>5, <1>6, <1>7, <1>8 DEF GetUserBySSO, Become, Revokes, Gone, At
  <1>10. Legal(req'[p]) /\ req' = [req EXCEPT ![p] = req'[p]]
    <2> HIDE DEF Legal
    <2> QED
      BY <1>0, <1>9
  <1> QED
    BY <1>0, <1>1, <1>10, NamesKept, MovesOn


(* SCIM: an account it edits is no longer settled.                         *)
LEMMA ScimStep ==
  ASSUME Inv, NEW p \in Procs, NEW n \in Names, NEW status \in Status,
         \/ \E x \in Subjects \cup {None} : ScimCreate(p, x, n, status)
         \/ \E u \in Ids : ScimPatch(p, u, n, status)
         \/ \E u \in Ids : ScimDelete(p, u)
  PROVE  Inv'
  <1>0. Tables /\ DOMAIN req = Procs
    BY DEF Inv, Requests
  <1>1. UNCHANGED <<users, used, sessions, clock, events>>
    BY DEF ScimCreate, ScimPatch, ScimDelete, ScimRequest
  <1>2. ASSUME NEW x \in Subjects \cup {None}, ScimCreate(p, x, n, status) PROVE Inv'
    <2> DEFINE new == Inserts("create", Account("scim", x, n, status))
    <2>1. "scim" \in Providers /\ "scim" # "kysignon"
      BY DEF Providers
    <2>2. Slot(new, users, used, known') /\ new.pc = "create"
      BY <2>1, NewSlot
    <2>3. req' = [req EXCEPT ![p] = new] /\ UNCHANGED <<known, settled>>
      BY <1>2 DEF ScimCreate, Become, Inserts
    <2> HIDE DEF new
    <2>4. req'[p] = new
      BY <1>0, <2>3
    <2> QED
      BY <1>0, <1>1, <2>2, <2>3, <2>4, NamesKept, MovesOn
  <1>3. ASSUME NEW u \in Ids, ScimPatch(p, u, n, status) PROVE Inv'
    <2> DEFINE e == Edit(u, n, status)
    <2>1. /\ Exists(u) /\ settled' = settled \ {u} /\ req' = [req EXCEPT ![p] = e]
          /\ known' = [s \in Subjects |-> IF u \in BySSO(s) THEN known[s] \cup {n} ELSE known[s]]
      BY <1>3 DEF ScimPatch, Become
    <2>2. ASSUME NEW s \in Subjects
          PROVE  IsFiniteSet(known'[s]) /\ known[s] \subseteq known'[s]
      BY <1>0, <2>1, FS_AddElement DEF Tables
    <2>3. known' \in [Subjects -> SUBSET Names]
      BY <1>0, <2>1 DEF Tables
    <2>4. users[u].provider = "kysignon" => n \in known'[users[u].subject]
      BY <1>0, <2>1 DEF Tables, Named, BySSO
    <2>5. Slot(e, users, used, known') /\ e.user = u
      BY <1>0, <2>1, <2>4, EditSlot
    <2>p. e.pc = "update"
      BY DEF Edit
    <2> HIDE DEF e
    <2>6. req'[p] = e
      BY <1>0, <2>1
    <2> QED
      BY <1>0, <1>1, <2>1, <2>2, <2>3, <2>5, <2>p, <2>6, MovesOn
  <1>4. ASSUME NEW u \in Ids, ScimDelete(p, u) PROVE Inv'
    <2>1. Exists(u) /\ UNCHANGED <<known, settled>> /\ req' = [req EXCEPT ![p] = Gone(u)]
      BY <1>4 DEF ScimDelete, Become, Gone
    <2>2. Slot(Gone(u), users, used, known') /\ Gone(u).pc = "delete"
      BY <1>0, <2>1, FoundSlot
    <2>3. req'[p] = Gone(u)
      BY <1>0, <2>1
    <2> QED
      BY <1>0, <1>1, <2>1, <2>2, <2>3, NamesKept, MovesOn
  <1> QED
    BY <1>2, <1>3, <1>4

(* A request that ends changes nothing else.                               *)
LEMMA EndStep ==
  ASSUME Inv, NEW p \in Procs, End(p)
  PROVE  Inv'
  <1>0. Tables /\ DOMAIN req = Procs
    BY DEF Inv, Requests
  <1>1. /\ req' = [req EXCEPT ![p] = Idle]
        /\ UNCHANGED <<users, used, sessions, clock, events, known, settled>>
    BY DEF End, Become, inputs
  <1>2. req'[p] = Idle
    BY <1>0, <1>1
  <1> QED
    BY <1>0, <1>1, <1>2, IdleSlot, NamesKept, MovesOn

(* The insert: a fresh id, a free name.                                    *)
LEMMA InsertStep ==
  ASSUME Inv, NEW p \in Procs, Provision(p) \/ Create(p)
  PROVE  Inv'
  <1> DEFINE row == req[p].row
  <1>0. Tables /\ DOMAIN req = Procs /\ Slot(req[p], users, used, known)
    BY DEF Inv, Requests
  <1>1. req[p].pc \in {"provision", "create"} /\ row \in AccountRow /\ Named(row, known)
    BY <1>0 DEF Provision, Create, At, Slot
  <1>2. PICK u \in Ids : /\ CreateUser(p, u)
                         /\ \/ /\ req[p].pc = "provision"
                               /\ req' = [req EXCEPT ![p] = [req[p] EXCEPT !.pc = "issue", !.user = u]]
                            \/ req' = [req EXCEPT ![p] = Idle]
    BY DEF Provision, Create, Become, At
  <1>3. /\ u \notin used /\ NameFree(row.name) /\ used' = used \cup {u}
        /\ users' = [users EXCEPT ![u] = row]
        /\ UNCHANGED <<sessions, clock, events, known, settled>>
    BY <1>2 DEF CreateUser, Provision, Create, inputs
  <1>4. users'[u] = row /\ \A v \in Ids \ {u} : users'[v] = users[v]
    BY <1>0, <1>3 DEF Tables
  <1>5. Continues
    BY <1>0, <1>3, <1>4 DEF Continues, Tables
  <1>6. Tables'
    <2>1. users' \in [Ids -> AccountRow \cup {NoRow}]
      BY <1>0, <1>1, <1>3 DEF Tables
    <2>2. used' \subseteq Ids /\ \A v \in Ids : users'[v] # NoRow => v \in used'
      BY <1>0, <1>3, <1>4 DEF Tables, Exists
    <2>3. ASSUME NEW v \in Ids, NEW w \in Ids, users'[v] # NoRow, users'[w] # NoRow,
                 users'[v].name = users'[w].name
          PROVE  v = w
      BY <1>0, <1>3, <1>4, <2>3 DEF Tables, NameFree, Exists
    <2>4. \A v \in Ids : Named(users'[v], known')
      BY <1>0, <1>1, <1>3, <1>4 DEF Tables, Named
    <2> QED
      BY <1>0, <1>3, <2>1, <2>2, <2>3, <2>4 DEF Tables, Exists
  <1>7. Slot(req'[p], users', used', known') /\ req'[p].pc \notin {"update", "updated"}
        /\ req' = [req EXCEPT ![p] = req'[p]]
    <2>1. CASE req' = [req EXCEPT ![p] = Idle]
      <3>1. req'[p] = Idle
        BY <1>0, <2>1
      <3> QED
        BY <2>1, <3>1, IdleSlot
    <2>2. CASE /\ req[p].pc = "provision"
               /\ req' = [req EXCEPT ![p] = [req[p] EXCEPT !.pc = "issue", !.user = u]]
      <3> DEFINE r == [req[p] EXCEPT !.pc = "issue", !.user = u]
      <3>1. r \in Request /\ r.pc = "issue" /\ r.user = u /\ r.row = row
        BY <1>0 DEF Slot, Request
      <3>2. req'[p] = r
        BY <1>0, <2>2
      <3>3. row.provider = "kysignon"
        BY <1>0, <2>2 DEF Slot
      <3> HIDE DEF r, row
      <3>4. SamePerson(users'[u], row) /\ u \in used'
        BY <1>3, <1>4 DEF SamePerson
      <3>5. Slot(r, users', used', known')
        BY <1>1, <3>1, <3>3, <3>4 DEF Slot
      <3> QED
        BY <2>2, <3>1, <3>2, <3>5 DEF r
    <2> QED
      BY <1>2, <2>1, <2>2
  <1>8. /\ \A v \in settled : v \in used /\ users'[v] # NoRow /\ users'[v].status = "inactive"
        /\ \A x \in sessions : x.user \in used /\ users'[x.user] # NoRow
    <2>1. \A v \in Ids : users[v].provider = "kysignon" => v \in used
      BY <1>0, Rows DEF Tables, Exists
    <2> QED
      BY <1>3, <1>4, <2>1, Rows DEF Inv, Settled, Sessions, Own
  <1>9. Local(p)
    BY <1>3, <1>5, <1>6, <1>7, <1>8 DEF Local
  <1> QED
    BY <1>9, LocalStep


(* The session is for the account read or made at sign-on, which is still  *)
(* there and so still the subject's.                                       *)
LEMMA IssueStep ==
  ASSUME Inv, NEW p \in Procs, IssueSession(p)
  PROVE  Inv'
  <1> DEFINE u == req[p].user
             x == [user |-> u, subject |-> req[p].row.subject]
  <1>0. Tables /\ DOMAIN req = Procs /\ Slot(req[p], users, used, known)
    BY DEF Inv, Requests
  <1>1. /\ req[p].pc = "issue" /\ Exists(u) /\ sessions' = sessions \cup {x}
        /\ req' = [req EXCEPT ![p] = Idle] /\ req'[p] = Idle
        /\ UNCHANGED <<users, used, clock, events, known, settled>>
    BY <1>0 DEF IssueSession, At, Become, inputs
  <1>2. /\ u \in Ids /\ users[u].provider = "kysignon"
        /\ users[u].subject = req[p].row.subject
    BY <1>0, <1>1 DEF Slot, SamePerson, Exists, Tables
  <1>3. x.user = u /\ x.subject = req[p].row.subject
    OBVIOUS
  <1> HIDE DEF u, x
  <1>4. \A y \in sessions' : Own(y, users')
    BY <1>1, <1>2, <1>3 DEF Own, Inv, Sessions
  <1>5. Tables' /\ Continues
    BY <1>0, <1>1 DEF Tables, Exists, Continues
  <1>6. \A v \in settled' : users'[v] # NoRow /\ users'[v].status = "inactive"
    BY <1>1, Rows DEF Inv, Settled
  <1>7. Local(p)
    BY <1>1, <1>4, <1>5, <1>6, IdleSlot DEF Local
  <1> QED
    BY <1>7, LocalStep

(* The copy is written back: to the account it was read from, if that is   *)
(* still there, under a name nobody else has.                              *)
LEMMA UpdateStep ==
  ASSUME Inv, NEW p \in Procs, UpdateUser(p)
  PROVE  Inv'
  <1> DEFINE u   == req[p].user
             row == req[p].row
             r   == [req[p] EXCEPT !.pc = "revoke", !.row = NoRow]
  <1>0. Tables /\ DOMAIN req = Procs /\ Slot(req[p], users, used, known)
    BY DEF Inv, Requests
  <1>1. /\ req[p].pc = "update" /\ Exists(u) /\ \A v \in Ids \ {u} : users[v].name # row.name
        /\ users' = [users EXCEPT ![u] = row]
        /\ UNCHANGED <<used, sessions, clock, events, known, settled>>
    BY DEF UpdateUser, At, inputs
  <1>2. /\ u \in used /\ u \in Ids /\ row \in AccountRow /\ Named(row, known)
        /\ users[u].provider = row.provider /\ users[u].subject = row.subject
    BY <1>0, <1>1 DEF Slot, SamePerson, Exists, Tables
  <1>3. req' = [req EXCEPT ![p] = r] \/ req' = [req EXCEPT ![p] = Idle]
    BY DEF UpdateUser, Become
  <1>4. r \in Request /\ r.pc = "revoke" /\ r.user = u
    BY <1>0 DEF Slot, Request
  <1> HIDE DEF r
  <1>5. Slot(r, users', used', known')
    BY <1>1, <1>2, <1>4 DEF Slot
  <1>6. Slot(req'[p], users', used', known') /\ req' = [req EXCEPT ![p] = req'[p]]
        /\ req'[p].pc \notin {"update", "updated"}
    BY <1>0, <1>3, <1>4, <1>5, IdleSlot
  <1>7. users'[u] = row /\ \A v \in Ids \ {u} : users'[v] = users[v]
    BY <1>0, <1>1, <1>2 DEF Tables
  <1>8. \A v \in Ids : users'[v] # NoRow => users[v] # NoRow
    BY <1>1, <1>7 DEF Exists
  <1>9. Continues
    BY <1>0, <1>1, <1>2, <1>7, <1>8 DEF Continues, Tables
  <1>10. Tables'
    <2>1. users' \in [Ids -> AccountRow \cup {NoRow}]
      BY <1>0, <1>1, <1>2 DEF Tables
    <2>2. used' \subseteq Ids /\ \A v \in Ids : users'[v] # NoRow => v \in used'
      BY <1>0, <1>1, <1>8 DEF Tables, Exists
    <2>3. ASSUME NEW v \in Ids, NEW w \in Ids, users'[v] # NoRow, users'[w] # NoRow,
                 users'[v].name = users'[w].name
          PROVE  v = w
      BY <1>0, <1>1, <1>7, <1>8, <2>3 DEF Tables, Exists
    <2>4. \A v \in Ids : Named(users'[v], known')
      BY <1>0, <1>1, <1>2, <1>7 DEF Tables, Named
    <2> QED
      BY <1>0, <1>1, <2>1, <2>2, <2>3, <2>4 DEF Tables, Exists
  <1>11. /\ \A v \in settled : users'[v] # NoRow /\ users'[v].status = "inactive"
         /\ \A x \in sessions : users'[x.user] # NoRow
    <2>1. row # NoRow
      BY <1>2, Rows
    <2>2. ASSUME NEW v \in settled PROVE users'[v] # NoRow /\ users'[v].status = "inactive"
      <3>1. CASE v = u
        BY <1>1, <1>7, <2>1, <3>1 DEF Inv, Settled
      <3>2. CASE v # u
        BY <1>7, <3>2, Rows DEF Inv, Settled
      <3> QED
        BY <3>1, <3>2
    <2>3. \A x \in sessions : users'[x.user] # NoRow
      BY <1>7, <2>1, Rows DEF Inv, Sessions, Own
    <2> QED
      BY <2>2, <2>3
  <1>12. Local(p)
    BY <1>1, <1>6, <1>9, <1>10, <1>11 DEF Local
  <1> QED
    BY <1>12, LocalStep

(* Sessions end, alone or with their account.                              *)
LEMMA DeleteStep ==
  ASSUME Inv, NEW p \in Procs, DeleteUserSessions(p) \/ DeleteUser(p)
  PROVE  Inv'
  <1> DEFINE u == req[p].user
  <1>0. Tables /\ DOMAIN req = Procs /\ Slot(req[p], users, used, known)
    BY DEF Inv, Requests
  <1>1. /\ req' = [req EXCEPT ![p] = Idle] /\ req'[p] = Idle
        /\ sessions' = sessions \ OfUser(u)
        /\ UNCHANGED <<used, clock, events, known>>
        /\ \/ UNCHANGED <<users, settled>>
           \/ users' = [users EXCEPT ![u] = NoRow] /\ settled' = settled \ {u}
    BY <1>0 DEF DeleteUserSessions, DeleteUser, Become, inputs
  <1>2. \A v \in Ids : users'[v] \in {users[v], NoRow} /\ (v # u => users'[v] = users[v])
    BY <1>0, <1>1 DEF Tables
  <1>3. Continues
    BY <1>0, <1>1, <1>2 DEF Continues, Tables
  <1>4. Tables'
    <2>1. users' \in [Ids -> AccountRow \cup {NoRow}]
      BY <1>0, <1>1 DEF Tables
    <2>2. \A v \in Ids : Named(users'[v], known')
      BY <1>0, <1>1, <1>2, Rows DEF Tables, Named
    <2>3. ASSUME NEW v \in Ids, NEW w \in Ids, users'[v] # NoRow, users'[w] # NoRow,
                 users'[v].name = users'[w].name
          PROVE  v = w
      BY <1>0, <1>2, <2>3 DEF Tables, Exists
    <2>4. \A v \in Ids : users'[v] # NoRow => v \in used'
      BY <1>0, <1>1, <1>2 DEF Tables, Exists
    <2> QED
      BY <1>0, <1>1, <2>1, <2>2, <2>3, <2>4 DEF Tables, Exists
  <1>5. \A v \in settled' : users'[v] # NoRow /\ users'[v].status = "inactive"
    BY <1>1, <1>2, Rows DEF Inv, Settled
  <1>6. \A x \in sessions' : x \in sessions /\ users'[x.user] # NoRow
    BY <1>1, <1>2, Rows DEF Inv, Sessions, Own, OfUser
  <1>7. Slot(req'[p], users', used', known') /\ req'[p].pc \notin {"update", "updated"} /\ settled' \subseteq settled
    BY <1>1, IdleSlot
  <1>8. req' = [req EXCEPT ![p] = req'[p]]
    BY <1>1
  <1>9. Local(p)
    BY <1>1, <1>3, <1>4, <1>5, <1>6, <1>7, <1>8 DEF Local
  <1> QED
    BY <1>9, LocalStep


(* KySignOn signs: what it enables is no longer settled.                   *)
LEMMA SignStep ==
  ASSUME Inv, NEW kind \in Kinds, NEW s \in Subjects, NEW n \in Names, NEW status \in Status,
         Sign(kind, s, n, status)
  PROVE  Inv'
  <1> DEFINE e == [kind |-> kind, subject |-> s, name |-> n, status |-> status, ts |-> clock]
  <1>0. Tables /\ Requests /\ clock \in Nat
    BY DEF Inv, Signed
  <1>1. /\ events' = events \cup {e} /\ UNCHANGED <<users, used, sessions, req, clock>>
        /\ known' = [known EXCEPT ![s] = @ \cup {n}]
        /\ settled' = IF Enables(e) THEN settled \ BySSO(s) ELSE settled
    BY DEF Sign, server
  <1>2. e \in Event /\ e.subject = s /\ e.name = n
    BY <1>0 DEF Event
  <1> HIDE DEF e
  <1>3. /\ known' \in [Subjects -> SUBSET Names] /\ n \in known'[s]
        /\ \A t \in Subjects : IsFiniteSet(known'[t]) /\ known[t] \subseteq known'[t]
    BY <1>0, <1>1, Naming
  <1>4. Tables'
    <2>1. \A u \in Ids : Named(users'[u], known')
      BY <1>0, <1>1, <1>3 DEF Tables, Named
    <2> QED
      BY <1>0, <1>1, <1>3, <2>1 DEF Tables, Exists
  <1>5. Continues
    BY <1>1, <1>3 DEF Continues
  <1>6. Requests'
    <2>1. \A p \in Procs : Slot(req[p], users', used', known')
      BY <1>0, <1>5, SlotStable DEF Requests
    <2> QED
      BY <1>0, <1>1, <2>1 DEF Requests
  <1>7. Signed'
    BY <1>0, <1>1, <1>2, <1>3 DEF Inv, Signed, Event
  <1>8. Sessions'
    BY <1>1 DEF Inv, Sessions, Own
  <1>9. Settled'
    <2> SUFFICES ASSUME NEW u \in settled', NEW f \in events', Enables(f),
                        f.subject = users[u].subject
                 PROVE  clock > f.ts + Window
      BY <1>1 DEF Inv, Settled, Enables
    <2>1. u \in settled /\ u \in Ids /\ users[u].provider = "kysignon"
      BY <1>1 DEF Inv, Settled
    <2>2. f # e
      BY <1>1, <1>2, <2>1 DEF BySSO
    <2> QED
      BY <1>1, <2>1, <2>2 DEF Inv, Settled
  <1> QED
    BY <1>4, <1>6, <1>7, <1>8, <1>9 DEF Inv

(* Time passes: what is disabled, with nothing fresh or under way to       *)
(* enable it, is settled.                                                  *)
LEMMA TickStep ==
  ASSUME Inv, Tick
  PROVE  Inv'
  <1>0. clock \in Nat /\ events \subseteq Event
    BY DEF Inv, Signed
  <1>1. /\ clock' = clock + 1 /\ settled' = settled \cup Settle(clock + 1)
        /\ UNCHANGED <<users, used, sessions, req, events, known>>
    BY DEF Tick, server, inputs
  <1>2. Tables' /\ Requests' /\ Sessions'
    BY <1>1 DEF Inv, Tables, Requests, Sessions, Exists
  <1>3. Signed'
    BY <1>0, <1>1 DEF Inv, Signed
  <1>4. ASSUME NEW u \in settled
        PROVE  \A e \in events : Enables(e) /\ e.subject = users[u].subject
                                   => clock' > e.ts + Window
    BY <1>0, <1>1, ProvisioningAssumption DEF Inv, Settled, Event
  <1>5. Settled'
    <2> SUFFICES ASSUME NEW u \in settled'
                 PROVE  /\ u \in Ids /\ users[u].provider = "kysignon"
                        /\ users[u].status = "inactive"
                        /\ \A e \in events : Enables(e) /\ e.subject = users[u].subject
                                               => clock' > e.ts + Window
                        /\ \A q \in Procs : Harmless(req[q], u, users[u].subject)
      BY <1>1 DEF Settled, Enables
    <2>1. CASE u \in settled
      BY <1>4, <2>1 DEF Inv, Settled
    <2>2. CASE u \in Settle(clock + 1)
      BY <1>1, <2>2 DEF Settle, At
    <2> QED
      BY <1>1, <2>1, <2>2
  <1> QED
    BY <1>2, <1>3, <1>5 DEF Inv

----------------------------------------------------------------------------
(* A fresh instance.                                                       *)
LEMMA InvInit == Init => Inv
  <1> SUFFICES ASSUME Init PROVE Inv
    OBVIOUS
  <1>1. PICK u \in Ids, n \in Names :
          /\ users = [v \in Ids |-> IF v = u THEN Account("local", None, n, "active") ELSE NoRow]
          /\ used = {u}
    BY DEF Init
  <1> DEFINE a == Account("local", None, n, "active")
  <1>2. a \in AccountRow /\ a.provider # "kysignon"
    BY DEF Account, AccountRow, Providers, Status
  <1> HIDE DEF a
  <1>3. users = [v \in Ids |-> IF v = u THEN a ELSE NoRow]
    BY <1>1 DEF a
  <1>4. Tables
    <2>1. \A v \in Ids : Named(users[v], known)
      BY <1>2, <1>3, Rows DEF Named
    <2>2. known \in [Subjects -> SUBSET Names] /\ \A s \in Subjects : IsFiniteSet(known[s])
      BY FS_EmptySet DEF Init
    <2> QED
      BY <1>1, <1>2, <1>3, <2>1, <2>2 DEF Tables, Exists
  <1>5. Requests
    <2>1. DOMAIN req = Procs /\ \A p \in Procs : req[p] = Idle
      BY DEF Init
    <2> QED
      BY <2>1, IdleSlot DEF Requests
  <1>6. Signed /\ Sessions /\ Settled
    BY DEF Init, Signed, Sessions, Settled
  <1> QED
    BY <1>4, <1>5, <1>6 DEF Inv

(* Every step keeps the invariant.                                         *)
LEMMA InvStep == Inv /\ [Next]_vars => Inv'
  <1> SUFFICES ASSUME Inv, [Next]_vars PROVE Inv'
    OBVIOUS
  <1>1. ASSUME NEW p \in Procs, SignOn(p) PROVE Inv'
    BY <1>1, SSOCallbackStep, InsertStep, IssueStep DEF SignOn
  <1>2. ASSUME NEW p \in Procs, Replicate(p) PROVE Inv'
    <2>1. ASSUME NEW u \in Ids, ScimDelete(p, u) PROVE Inv'
      <3>1. \E n \in Names : TRUE
        BY <2>1 DEF Inv, Tables, ScimDelete, Exists, AccountRow
      <3>2. "active" \in Status
        BY DEF Status
      <3> QED
        BY <2>1, <3>1, <3>2, ScimStep
    <2>2. ASSUME NEW n \in Names, NEW status \in Status,
                 \/ \E x \in Subjects \cup {None} : ScimCreate(p, x, n, status)
                 \/ \E u \in Ids : ScimPatch(p, u, n, status)
          PROVE  Inv'
      BY <2>2, ScimStep
    <2> QED
      BY <1>2, <2>1, <2>2, WebhookStep, LookupStep, InsertStep, UpdateStep, DeleteStep DEF Replicate
  <1>3. CASE UNCHANGED vars
    BY <1>3 DEF vars, server, inputs, Inv, Tables, Requests, Signed, Sessions, Settled, Exists
  <1> QED
    BY <1>1, <1>2, <1>3, EndStep, SignStep, TickStep DEF Next

(* The inductive invariant holds in every reachable state.                 *)
THEOREM ProvisioningInv == Spec => []Inv
  BY InvInit, InvStep, PTL DEF Spec

(* Accounts have generated ids, and no request acts on an id that never    *)
(* was one.                                                                *)
THEOREM ProvisioningTypes == Spec => []TypeOK
  <1>1. Inv => TypeOK
    <2> SUFFICES ASSUME Inv PROVE TypeOK
      OBVIOUS
    <2>1. \A u \in Ids : Exists(u) => u \in used /\ users[u] \in AccountRow
      BY DEF Inv, Tables, Exists
    <2>2. \A p \in Procs : req[p].pc \in {"issue", "update", "revoke", "delete"}
                             => req[p].user \in used
      BY DEF Inv, Requests, Slot
    <2> QED
      BY <2>1, <2>2 DEF TypeOK, AccountRow
  <1> QED
    BY <1>1, ProvisioningInv, PTL

(* However callbacks, webhooks and SCIM race and events are repeated, a    *)
(* subject has no more accounts than it has had names.                     *)
THEOREM AccountsBounded == Spec => []AccountsPerSubject
  <1>1. Inv => AccountsPerSubject
    <2> SUFFICES ASSUME Inv, NEW s \in Subjects
                 PROVE  Cardinality(BySSO(s)) <= Cardinality(known[s])
      BY DEF AccountsPerSubject
    <2> DEFINE f == [u \in BySSO(s) |-> users[u].name]
    <2>0. Tables
      BY DEF Inv
    <2>1. \A u \in BySSO(s) : u \in Ids /\ Exists(u) /\ users[u].name \in known[s]
      BY <2>0, SubjectsAccounts
    <2>2. f \in Injection(BySSO(s), known[s])
      BY <2>0, <2>1 DEF Injection, IsInjective, Tables
    <2>3. IsFiniteSet(known[s])
      BY <2>0 DEF Tables
    <2> QED
      BY <2>2, <2>3, FS_Injection
  <1> QED
    BY <1>1, ProvisioningInv, PTL

(* Nobody enters another's, a local or a SCIM account through KySignOn.    *)
THEOREM SignOnIsOwnHolds == Spec => []SignOnIsOwn
  <1>1. Inv => SignOnIsOwn
    BY DEF Inv, Sessions, Own, SignOnIsOwn
  <1> QED
    BY <1>1, ProvisioningInv, PTL

(* For every window, clock and number of events: what is disabled for good *)
(* stays disabled, whatever is delivered again.                            *)
THEOREM DisabledStays == Spec => []DisabledForGood
  <1>1. Inv => DisabledForGood
    BY DEF Inv, Settled, DisabledForGood
  <1> QED
    BY <1>1, ProvisioningInv, PTL

=============================================================================
