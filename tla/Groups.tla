------------------------------- MODULE Groups -------------------------------
(***************************************************************************)
(* SCIM groups: create, replace and patch change the members of a group    *)
(* one row at a time, first removing the members they had read and then    *)
(* adding the members asked for, each row a statement of its own.  Other   *)
(* requests delete users and the group meanwhile.                          *)
(***************************************************************************)
CONSTANTS
  Users,  \* user ids
  Procs   \* request slots of the SCIM client

VARIABLES
  users,    \* ids that have a row in users
  group,    \* whether the group has a row in groups
  members,  \* group_members of the group
  req,      \* program counter and locals of each request
  first,    \* history: the members when the behaviour began
  asked,    \* history: the member lists asked for
  cut       \* history: a request ended before its last statement, or the
            \* group was deleted under it

vars == <<users, group, members, req, first, asked, cut>>

Idle == [pc |-> "idle", old |-> {}, next |-> {}]

Init ==
  /\ users = Users
  /\ group \in BOOLEAN
  /\ members \in SUBSET Users /\ (~group => members = {})
  /\ req = [p \in Procs |-> Idle]
  /\ first = members /\ asked = {} /\ cut = FALSE

At(p, step)  == req[p].pc = step
Become(p, r) == req' = [req EXCEPT ![p] = r]

----------------------------------------------------------------------------
(* CreateGroup, and then the members of a group that has none.             *)
CreateGroup(p, next) ==
  /\ At(p, "idle") /\ ~group
  /\ group' = TRUE
  /\ asked' = asked \cup {next}
  /\ Become(p, [pc |-> "add", old |-> {}, next |-> next])
  /\ UNCHANGED <<users, members, first, cut>>

(* Patch reads the group and asks for the members it read, unless a path   *)
(* names others, of a replace that reads the group again.                  *)
PatchGroup(p, next) ==
  /\ At(p, "idle") /\ group
  /\ Become(p, [pc |-> "replace", old |-> {}, next |-> next])
  /\ asked' = asked \cup {next}
  /\ UNCHANGED <<users, group, members, first, cut>>

ReplaceGroup(p, next) ==
  /\ At(p, "idle") /\ group
  /\ Become(p, [pc |-> "update", old |-> members, next |-> next])
  /\ asked' = asked \cup {next}
  /\ UNCHANGED <<users, group, members, first, cut>>

ReadForPatch(p) ==
  /\ At(p, "replace") /\ group
  /\ Become(p, [req[p] EXCEPT !.pc = "update", !.old = members])
  /\ UNCHANGED <<users, group, members, first, asked, cut>>

UpdateGroup(p) ==
  /\ At(p, "update") /\ group
  /\ Become(p, [req[p] EXCEPT !.pc = "remove"])
  /\ UNCHANGED <<users, group, members, first, asked, cut>>

----------------------------------------------------------------------------
(* replaceMembers.                                                         *)

RemoveGroupMember(p, u) ==
  /\ At(p, "remove") /\ u \in req[p].old
  /\ members' = members \ {u}
  /\ Become(p, [req[p] EXCEPT !.old = @ \ {u}])
  /\ UNCHANGED <<users, group, first, asked, cut>>

RemovalsDone(p) ==
  /\ At(p, "remove") /\ req[p].old = {}
  /\ Become(p, [req[p] EXCEPT !.pc = "add"])
  /\ UNCHANGED <<users, group, members, first, asked, cut>>

(* Mutant of AddGroupMember: the foreign keys are not enforced.            *)
AddGroupMemberUnchecked(p, u) ==
  /\ At(p, "add") /\ u \in req[p].next
  /\ members' = members \cup {u}
  /\ Become(p, [req[p] EXCEPT !.next = @ \ {u}])
  /\ UNCHANGED <<users, group, first, asked, cut>>

(* The foreign keys hold the row to a group and a user that exist; a       *)
(* member who is there already is no conflict.                             *)
AddGroupMember(p, u) ==
  /\ At(p, "add") /\ u \in req[p].next
  /\ group /\ u \in users
  /\ members' = members \cup {u}
  /\ Become(p, [req[p] EXCEPT !.next = @ \ {u}])
  /\ UNCHANGED <<users, group, first, asked, cut>>

(* Mutant of Reply: an error of an addition is ignored.                    *)
ReplyIgnoringErrors(p) ==
  /\ At(p, "add")
  /\ Become(p, Idle)
  /\ UNCHANGED <<users, group, members, first, asked, cut>>

Reply(p) ==
  /\ At(p, "add") /\ req[p].next = {}
  /\ Become(p, Idle)
  /\ UNCHANGED <<users, group, members, first, asked, cut>>

(* A statement fails or the sender hangs up: what is done stays done.      *)
Abort(p) ==
  /\ ~At(p, "idle")
  /\ Become(p, Idle)
  /\ cut' = TRUE
  /\ UNCHANGED <<users, group, members, first, asked>>

----------------------------------------------------------------------------
(* Deletions cascade to group_members.                                     *)

DeleteGroup ==
  /\ group
  /\ group' = FALSE
  /\ members' = {}
  /\ cut' = TRUE
  /\ UNCHANGED <<users, req, first, asked>>

DeleteUser(u) ==
  /\ u \in users
  /\ users' = users \ {u}
  /\ members' = members \ {u}
  /\ UNCHANGED <<group, req, first, asked, cut>>

Replace(p) ==
  \/ \E next \in SUBSET Users :
       CreateGroup(p, next) \/ ReplaceGroup(p, next) \/ PatchGroup(p, next)
  \/ ReadForPatch(p) \/ UpdateGroup(p)
  \/ \E u \in Users : RemoveGroupMember(p, u) \/ AddGroupMember(p, u)
  \/ RemovalsDone(p) \/ Reply(p) \/ Abort(p)

Next ==
  \/ \E p \in Procs : Replace(p)
  \/ DeleteGroup
  \/ \E u \in Users : DeleteUser(u)

Spec == Init /\ [][Next]_vars

----------------------------------------------------------------------------
(* The foreign keys: no membership outlives its user or its group,         *)
(* although a request may add it long after it read either.                *)
NoDanglingMember ==
  members \subseteq users /\ (~group => members = {})

(* Replacements that overlap mix their member lists, but they lose nobody  *)
(* whom all of them keep: a member from the start, whom every list asked   *)
(* for names, is a member when the requests are done (unless one was cut   *)
(* short between its removals and its additions, or the user is gone).     *)
CommonMembersSurvive ==
  (~cut /\ group /\ \A p \in Procs : At(p, "idle")) =>
    {u \in first \cap users : \A s \in asked : u \in s} \subseteq members

=============================================================================
