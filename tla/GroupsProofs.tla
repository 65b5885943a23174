---------------------------- MODULE GroupsProofs ----------------------------
(***************************************************************************)
(* Groups, proved for any number of users and of overlapping requests.     *)
(* NoDanglingMember is inductive by itself.  CommonMembersSurvive is not:  *)
(* it speaks of the end, when all requests are done.  On the way there a   *)
(* member everybody keeps may be missing, but then it is on the list of a  *)
(* request that has yet to add it (Kept and Listed).                       *)
(***************************************************************************)
EXTENDS Groups, TLAPS

Steps   == {"idle", "replace", "update", "remove", "add"}
Request == [pc: Steps, old: SUBSET Users, next: SUBSET Users]

TypeOK == members \subseteq Users /\ req \in [Procs -> Request]

(* The members from the start, still there, whom every list asked for names. *)
Common == {u \in first \cap users : \A s \in asked : u \in s}

(* A request that has not begun to add holds all of them on its list.      *)
Listed ==
  \A p \in Procs : req[p].pc \in {"replace", "update", "remove"} => Common \subseteq req[p].next

(* Each of them is a member, or on the list of a request that removes or   *)
(* adds.                                                                   *)
Kept ==
  ~cut /\ group => \A u \in Common :
    u \in members \/ \E p \in Procs : req[p].pc \in {"remove", "add"} /\ u \in req[p].next

(* A group that was there at the start and is gone was deleted.            *)
Fresh == ~cut /\ ~group => first = {}

Inv == TypeOK /\ NoDanglingMember /\ Listed /\ Kept /\ Fresh

(* What any behaviour starts from.                                         *)
LEMMA InvInit == Init => Inv
  <1> SUFFICES ASSUME Init PROVE Inv
    OBVIOUS
  <1>1. TypeOK
    BY DEF Init, TypeOK, Request, Steps, Idle
  <1>2. NoDanglingMember /\ Listed /\ Kept /\ Fresh
    BY DEF Init, NoDanglingMember, Listed, Kept, Fresh, Common, Idle
  <1> QED
    BY <1>1, <1>2 DEF Inv

(* A step that changes the locals of one request.                          *)
LEMMA RequestWrite ==
  ASSUME TypeOK, NEW p \in Procs, NEW r \in Request, Become(p, r)
  PROVE  /\ req' \in [Procs -> Request] /\ req'[p] = r
         /\ \A q \in Procs : q # p => req'[q] = req[q]
  BY DEF TypeOK, Become

(* A request that asks for a list: fewer members are common to all lists,  *)
(* and those that are stand on this one.                                   *)
LEMMA AskStep ==
  ASSUME Inv, NEW p \in Procs, NEW next \in SUBSET Users,
         CreateGroup(p, next) \/ ReplaceGroup(p, next) \/ PatchGroup(p, next)
  PROVE  Inv'
  <1>0. TypeOK /\ members \subseteq Users
    BY DEF Inv, TypeOK
  <1>1. PICK r \in Request : Become(p, r) /\ r.next = next /\ r.pc # "idle"
    <2>1. /\ [pc |-> "add", old |-> {}, next |-> next] \in Request
          /\ [pc |-> "replace", old |-> {}, next |-> next] \in Request
          /\ [pc |-> "update", old |-> members, next |-> next] \in Request
      BY <1>0 DEF Request, Steps
    <2> QED
      BY <2>1 DEF CreateGroup, ReplaceGroup, PatchGroup
  <1>2. /\ req' \in [Procs -> Request] /\ req'[p] = r
        /\ \A q \in Procs : q # p => req'[q] = req[q]
    BY <1>0, <1>1, RequestWrite
  <1>3. /\ asked' = asked \cup {next} /\ UNCHANGED <<users, members, first, cut>>
        /\ group' /\ (group' = group \/ ~group) /\ At(p, "idle")
    BY DEF CreateGroup, ReplaceGroup, PatchGroup
  <1>4. Common' \subseteq Common /\ Common' \subseteq next
    BY <1>3 DEF Common
  <1>5. Listed'
    BY <1>1, <1>2, <1>4 DEF Inv, Listed
  <1>6. Kept'
    <2>1. CASE ~group
      BY <1>3, <2>1 DEF Inv, Fresh, Kept, Common
    <2>2. CASE group
      <3> SUFFICES ASSUME ~cut', group', NEW u \in Common', u \notin members'
                   PROVE  \E q \in Procs : req'[q].pc \in {"remove", "add"} /\ u \in req'[q].next
        BY DEF Kept
      <3>1. PICK q \in Procs : req[q].pc \in {"remove", "add"} /\ u \in req[q].next
        BY <1>3, <1>4, <2>2 DEF Inv, Kept
      <3>2. q # p
        BY <1>3, <3>1 DEF At
      <3> QED
        BY <1>2, <3>1, <3>2
    <2> QED
      BY <2>1, <2>2
  <1>7. TypeOK' /\ NoDanglingMember' /\ Fresh'
    BY <1>0, <1>2, <1>3 DEF Inv, TypeOK, NoDanglingMember, Fresh
  <1> QED
    BY <1>5, <1>6, <1>7 DEF Inv

(* A request that reads the group or begins its statements keeps its list. *)
LEMMA MoveStep ==
  ASSUME Inv, NEW p \in Procs, ReadForPatch(p) \/ UpdateGroup(p) \/ RemovalsDone(p)
  PROVE  Inv'
  <1>0. TypeOK /\ req[p] \in Request /\ members \subseteq Users
    BY DEF Inv, TypeOK
  <1>1. PICK r \in Request : /\ Become(p, r) /\ r.next = req[p].next
                             /\ req[p].pc \in {"replace", "update", "remove"}
                             /\ r.pc \in {"update", "remove", "add"}
                             /\ req[p].pc = "remove" => r.pc = "add"
    <2>1. /\ [req[p] EXCEPT !.pc = "update", !.old = members] \in Request
          /\ [req[p] EXCEPT !.pc = "remove"] \in Request
          /\ [req[p] EXCEPT !.pc = "add"] \in Request
      BY <1>0 DEF Request, Steps
    <2>2. CASE ReadForPatch(p)
      BY <1>0, <2>1, <2>2 DEF ReadForPatch, At, Request
    <2>3. CASE UpdateGroup(p)
      BY <1>0, <2>1, <2>3 DEF UpdateGroup, At, Request
    <2>4. CASE RemovalsDone(p)
      BY <1>0, <2>1, <2>4 DEF RemovalsDone, At, Request
    <2> QED
      BY <2>2, <2>3, <2>4
  <1>2. /\ req' \in [Procs -> Request] /\ req'[p] = r
        /\ \A q \in Procs : q # p => req'[q] = req[q]
    BY <1>0, <1>1, RequestWrite
  <1>3. UNCHANGED <<users, group, members, first, asked, cut>> /\ Common' = Common
    BY DEF ReadForPatch, UpdateGroup, RemovalsDone, Common
  <1>4. Listed'
    BY <1>1, <1>2, <1>3 DEF Inv, Listed
  <1>5. Kept'
    <2> SUFFICES ASSUME ~cut', group', NEW u \in Common', u \notin members'
                 PROVE  \E q \in Procs : req'[q].pc \in {"remove", "add"} /\ u \in req'[q].next
      BY DEF Kept
    <2>1. PICK q \in Procs : req[q].pc \in {"remove", "add"} /\ u \in req[q].next
      BY <1>3 DEF Inv, Kept
    <2> QED
      BY <1>1, <1>2, <2>1
  <1>6. TypeOK' /\ NoDanglingMember' /\ Fresh'
    BY <1>0, <1>2, <1>3 DEF Inv, TypeOK, NoDanglingMember, Fresh
  <1> QED
    BY <1>4, <1>5, <1>6 DEF Inv

(* Whoever is removed and kept by all is on the remover's own list.        *)
LEMMA RemoveStep ==
  ASSUME Inv, NEW p \in Procs, NEW u \in Users, RemoveGroupMember(p, u)
  PROVE  Inv'
  <1>0. TypeOK /\ req[p] \in Request /\ members \subseteq Users
    BY DEF Inv, TypeOK
  <1> DEFINE r == [req[p] EXCEPT !.old = @ \ {u}]
  <1>1. /\ r \in Request /\ Become(p, r) /\ r.next = req[p].next
        /\ r.pc = "remove" /\ req[p].pc = "remove"
    BY <1>0 DEF Request, RemoveGroupMember, At
  <1> HIDE DEF r
  <1>2. /\ req' \in [Procs -> Request] /\ req'[p] = r
        /\ \A q \in Procs : q # p => req'[q] = req[q]
    BY <1>0, <1>1, RequestWrite
  <1>3. /\ UNCHANGED <<users, group, first, asked, cut>> /\ Common' = Common
        /\ members' = members \ {u}
    BY DEF RemoveGroupMember, Common
  <1>4. Listed'
    BY <1>1, <1>2, <1>3 DEF Inv, Listed
  <1>5. Kept'
    <2> SUFFICES ASSUME ~cut', group', NEW v \in Common', v \notin members'
                 PROVE  \E q \in Procs : req'[q].pc \in {"remove", "add"} /\ v \in req'[q].next
      BY DEF Kept
    <2>1. v \in req[p].next
      BY <1>1, <1>3 DEF Inv, Listed
    <2> QED
      BY <1>1, <1>2, <2>1
  <1>6. TypeOK' /\ NoDanglingMember' /\ Fresh'
    BY <1>0, <1>2, <1>3 DEF Inv, TypeOK, NoDanglingMember, Fresh
  <1> QED
    BY <1>4, <1>5, <1>6 DEF Inv

(* An addition takes a name off the list and makes it a member.            *)
LEMMA AddStep ==
  ASSUME Inv, NEW p \in Procs, NEW u \in Users, AddGroupMember(p, u)
  PROVE  Inv'
  <1>0. TypeOK /\ req[p] \in Request /\ members \subseteq Users
    BY DEF Inv, TypeOK
  <1> DEFINE r == [req[p] EXCEPT !.next = @ \ {u}]
  <1>1. /\ r \in Request /\ Become(p, r) /\ r.next = req[p].next \ {u}
        /\ r.pc = "add" /\ req[p].pc = "add" /\ group /\ u \in users
    BY <1>0 DEF Request, AddGroupMember, At
  <1> HIDE DEF r
  <1>2. /\ req' \in [Procs -> Request] /\ req'[p] = r
        /\ \A q \in Procs : q # p => req'[q] = req[q]
    BY <1>0, <1>1, RequestWrite
  <1>3. /\ UNCHANGED <<users, group, first, asked, cut>> /\ Common' = Common
        /\ members' = members \cup {u}
    BY DEF AddGroupMember, Common
  <1>4. Listed'
    BY <1>1, <1>2, <1>3 DEF Inv, Listed
  <1>5. Kept'
    <2> SUFFICES ASSUME ~cut', group', NEW v \in Common', v \notin members'
                 PROVE  \E q \in Procs : req'[q].pc \in {"remove", "add"} /\ v \in req'[q].next
      BY DEF Kept
    <2>1. PICK q \in Procs : req[q].pc \in {"remove", "add"} /\ v \in req[q].next
      BY <1>3 DEF Inv, Kept
    <2>2. v # u
      BY <1>3
    <2> QED
      BY <1>1, <1>2, <2>1, <2>2
  <1>6. TypeOK' /\ NoDanglingMember' /\ Fresh'
    BY <1>0, <1>1, <1>2, <1>3 DEF Inv, TypeOK, NoDanglingMember, Fresh
  <1> QED
    BY <1>4, <1>5, <1>6 DEF Inv

(* A request replies with an empty list, or is cut short.                  *)
LEMMA EndStep ==
  ASSUME Inv, NEW p \in Procs, Reply(p) \/ Abort(p)
  PROVE  Inv'
  <1>0. TypeOK /\ Idle \in Request
    BY DEF Inv, Idle, Request, Steps
  <1>1. Become(p, Idle) /\ (cut' \/ (cut' = cut /\ req[p].next = {}))
    BY DEF Reply, Abort
  <1>2. /\ req' \in [Procs -> Request] /\ req'[p] = Idle
        /\ \A q \in Procs : q # p => req'[q] = req[q]
    BY <1>0, <1>1, RequestWrite
  <1>3. UNCHANGED <<users, group, members, first, asked>> /\ Common' = Common
    BY DEF Reply, Abort, Common
  <1>4. Listed'
    BY <1>2, <1>3 DEF Inv, Listed, Idle
  <1>5. Kept'
    <2> SUFFICES ASSUME ~cut', group', NEW v \in Common', v \notin members'
                 PROVE  \E q \in Procs : req'[q].pc \in {"remove", "add"} /\ v \in req'[q].next
      BY DEF Kept
    <2>1. PICK q \in Procs : req[q].pc \in {"remove", "add"} /\ v \in req[q].next
      BY <1>1, <1>3 DEF Inv, Kept
    <2>2. q # p
      BY <1>1, <2>1
    <2> QED
      BY <1>2, <2>1, <2>2
  <1>6. TypeOK' /\ NoDanglingMember' /\ Fresh'
    BY <1>0, <1>1, <1>2, <1>3 DEF Inv, TypeOK, NoDanglingMember, Fresh
  <1> QED
    BY <1>4, <1>5, <1>6 DEF Inv

(* The deletions that cascade.                                             *)
LEMMA DeletionStep ==
  ASSUME Inv, DeleteGroup \/ \E u \in Users : DeleteUser(u)
  PROVE  Inv'
  <1>1. CASE DeleteGroup
    BY <1>1 DEF DeleteGroup, Inv, TypeOK, NoDanglingMember, Listed, Kept, Fresh, Common
  <1>2. ASSUME NEW u \in Users, DeleteUser(u) PROVE Inv'
    <2>1. /\ UNCHANGED <<group, req, first, asked, cut>> /\ members' = members \ {u}
          /\ users' = users \ {u} /\ Common' \subseteq Common \ {u}
      BY <1>2 DEF DeleteUser, Common
    <2>2. TypeOK' /\ NoDanglingMember' /\ Fresh' /\ Listed'
      BY <2>1 DEF Inv, TypeOK, NoDanglingMember, Fresh, Listed
    <2>3. Kept'
      BY <2>1 DEF Inv, Kept
    <2> QED
      BY <2>2, <2>3 DEF Inv
  <1> QED
    BY <1>1, <1>2

(* Every step keeps the invariant.                                         *)
LEMMA InvStep == Inv /\ [Next]_vars => Inv'
  <1> SUFFICES ASSUME Inv, [Next]_vars PROVE Inv'
    OBVIOUS
  <1>1. ASSUME NEW p \in Procs, Replace(p) PROVE Inv'
    BY <1>1, AskStep, MoveStep, RemoveStep, AddStep, EndStep DEF Replace
  <1>2. CASE DeleteGroup \/ \E u \in Users : DeleteUser(u)
    BY <1>2, DeletionStep
  <1>3. CASE UNCHANGED vars
    BY <1>3 DEF vars, Inv, TypeOK, NoDanglingMember, Listed, Kept, Fresh, Common
  <1> QED
    BY <1>1, <1>2, <1>3 DEF Next

(* The inductive invariant of the groups.                                  *)
THEOREM GroupsInv == Spec => []Inv
  BY InvInit, InvStep, PTL DEF Spec

(* No membership outlives its user or its group.                           *)
THEOREM MembersExist == Spec => []NoDanglingMember
  <1>1. Inv => NoDanglingMember
    BY DEF Inv
  <1> QED
    BY GroupsInv, <1>1, PTL

(* Overlapping replacements of the members lose nobody whom all of them    *)
(* keep, however many there are and however their rows interleave.         *)
THEOREM NobodyIsLost == Spec => []CommonMembersSurvive
  <1>1. Inv => CommonMembersSurvive
    BY DEF Inv, Kept, Common, CommonMembersSurvive, At
  <1> QED
    BY GroupsInv, <1>1, PTL

=============================================================================
