------------------------------ MODULE Workspace ------------------------------
(***************************************************************************)
(* Members, roles and invites of one workspace (app/main.py).  A user is   *)
(* an authenticated email.  A request passes auth_gate and the permission  *)
(* check of its endpoint, and saves what it changes later; nothing locks   *)
(* members or invites.  Reads without a save between them are one action.  *)
(*                                                                         *)
(* A definition marked "Faulty variant" belongs to no specification.       *)
(***************************************************************************)
EXTENDS FiniteSets, Server

CONSTANTS
  Users,         \* emails
  HomeUsers,     \* users whose claims name this workspace
  Members,       \* ids of members created by an invite or by a writer (a bound)
  Invites        \* ids of invites (a bound)

VARIABLES
  member,        \* workspace_members: by id; the id of a bootstrapped owner is computed from the email
  invite,        \* workspace_invites
  overdue,       \* invites whose expiresAt has passed
  wsCall,        \* per thread: the request it serves
  spent          \* history variable: invites whose acceptance was answered

wsVars == <<member, invite, overdue, wsCall, spent>>

-----------------------------------------------------------------------------
\* Owner stands for the roles that hold workspace:write, Viewer for the others.
Roles == {"Owner", "Viewer"}
Member == [email : Users, role : Roles]
Invite == [email : Users, role : Roles, status : {"pending", "accepted", "expired"}]
MemberIds == Users \cup Members

ASSUME WorkspaceAssumption ==
  /\ HomeUsers \subseteq Users /\ Users \cap Members = {} /\ None \notin Users
  /\ None \notin Member /\ None \notin Invite

WriteRequest == ({"invite"} \X Invites) \cup ({"add"} \X Members) \cup ({"patch", "remove"} \X MemberIds)

NoWsCall == [at |-> "idle", user |-> None, op |-> None, id |-> None, read |-> None]

Stored == {m \in MemberIds : member[m] # None}
MembersOf(u) == {m \in Stored : member[m].email = u}

WsInit ==
  /\ member = [m \in MemberIds |-> None]
  /\ invite = [i \in Invites |-> None]
  /\ overdue = {}
  /\ wsCall = [t \in Threads |-> NoWsCall]
  /\ spent = {}

WsMove(t, call) == wsCall' = [wsCall EXCEPT ![t] = call]

-----------------------------------------------------------------------------
\* What an endpoint reads before it saves, for the email v it names:
\* create_workspace_member refuses an email that is listed, the others need
\* their member; a patch may change its email.  None: refused.
Target(op, id, v) ==
  CASE op = "invite" -> [email |-> v, role |-> "Viewer", status |-> "pending"]
    [] op = "add" -> IF MembersOf(v) = {} THEN [email |-> v, role |-> "Viewer"] ELSE None
    [] op = "patch" -> IF member[id] = None THEN None ELSE [member[id] EXCEPT !.email = v]
    [] op = "remove" -> member[id]

\* A new invite or member gets an id of its own.
Fresh(op, id) == (op = "invite" => invite[id] = None) /\ (op = "add" => member[id] = None)

\* require_permission("workspace:write"), by the role of the user's member.
Permitted(u) == \E m \in MembersOf(u) : member[m].role = "Owner"

\* auth_gate and authorize_workspace_request: a user enters the workspace of
\* the claims, or one that lists the user.  A request refused here or by the
\* permission check changes nothing.
Enter(t, u, op, id, v) ==
  /\ wsCall[t].at = "idle"
  /\ u \in HomeUsers \/ MembersOf(u) # {}
  /\ Permitted(u) /\ Target(op, id, v) # None /\ Fresh(op, id)
  /\ WsMove(t, [at |-> "save", user |-> None, op |-> op, id |-> id, read |-> Target(op, id, v)])
  /\ UNCHANGED <<member, invite, overdue, spent>>

\* ensure_workspace_bootstrap: a user at home who finds no member becomes the
\* owner, and two first requests may both find none; the check goes on.
EnterEmpty(t, u, op, id) ==
  /\ wsCall[t].at = "idle"
  /\ u \in HomeUsers /\ Stored = {}
  /\ WsMove(t, [at |-> "bootstrap", user |-> u, op |-> op, id |-> id, read |-> None])
  /\ UNCHANGED <<member, invite, overdue, spent>>

Bootstrap(t) ==
  /\ wsCall[t].at = "bootstrap"
  /\ member' = [member EXCEPT ![wsCall[t].user] = [email |-> wsCall[t].user, role |-> "Owner"]]
  /\ WsMove(t, [wsCall[t] EXCEPT !.at = "permit"])
  /\ UNCHANGED <<invite, overdue, spent>>

Permit(t, v) ==
  LET read == Target(wsCall[t].op, wsCall[t].id, v) IN
  /\ wsCall[t].at = "permit"
  /\ WsMove(t, IF Permitted(wsCall[t].user) /\ read # None
                 THEN [wsCall[t] EXCEPT !.at = "save", !.user = None, !.read = read]
                 ELSE NoWsCall)
  /\ UNCHANGED <<member, invite, overdue, spent>>

\* A new invite or member under a new id, the member as read with the patch,
\* or no member.
SaveWorkspace(t, role) ==
  LET c == wsCall[t]
      record == [c.read EXCEPT !.role = role]
  IN
  /\ c.at = "save"
  /\ Fresh(c.op, c.id)
  /\ invite' = IF c.op = "invite" THEN [invite EXCEPT ![c.id] = record] ELSE invite
  /\ member' = CASE c.op = "invite" -> member
                 [] c.op = "remove" -> [member EXCEPT ![c.id] = None]
                 [] c.op \in {"add", "patch"} -> [member EXCEPT ![c.id] = record]
  /\ WsMove(t, NoWsCall)
  /\ UNCHANGED <<overdue, spent>>

-----------------------------------------------------------------------------
\* Any user who holds the token reads an invite, to accept it (the gate lets
\* that path pass) or, as a reader of the list, to refresh it.
OpenInvite(t, i, op) ==
  /\ wsCall[t].at = "idle"
  /\ invite[i] # None
  /\ WsMove(t, [at |-> "refresh", user |-> None, op |-> op, id |-> i, read |-> invite[i]])
  /\ UNCHANGED <<member, invite, overdue, spent>>

\* refresh_invite_status: a pending invite past its time is saved as expired.
\* An acceptance goes on only if the invite it read is pending and names the
\* user, whom the model takes to be its addressee.
Lapsed(t) == wsCall[t].read.status = "pending" /\ wsCall[t].id \in overdue

\* Faulty variant: whatever status was read is saved with the refreshed one.
RefreshAlways(t) ==
  LET fresh == IF Lapsed(t) THEN [wsCall[t].read EXCEPT !.status = "expired"] ELSE wsCall[t].read
      goesOn == wsCall[t].op = "accept" /\ fresh.status = "pending"
  IN
  /\ wsCall[t].at = "refresh"
  /\ invite' = [invite EXCEPT ![wsCall[t].id] = fresh]
  /\ WsMove(t, IF goesOn THEN [wsCall[t] EXCEPT !.at = "admit"] ELSE NoWsCall)
  /\ UNCHANGED <<member, overdue, spent>>

Refresh(t) ==
  LET goesOn == wsCall[t].op = "accept" /\ wsCall[t].read.status = "pending" /\ ~Lapsed(t) IN
  /\ wsCall[t].at = "refresh"
  /\ invite' = IF Lapsed(t) THEN [invite EXCEPT ![wsCall[t].id] = [wsCall[t].read EXCEPT !.status = "expired"]]
                            ELSE invite
  /\ WsMove(t, IF goesOn THEN [wsCall[t] EXCEPT !.at = "admit"] ELSE NoWsCall)
  /\ UNCHANGED <<member, overdue, spent>>

\* workspace_member_from_invite: a listed member gets the invite's role, a new
\* user a member of a new id.
AdmitMember(t, m) ==
  LET i == wsCall[t].read
      known == MembersOf(i.email)
  IN
  /\ wsCall[t].at = "admit"
  /\ IF known # {} THEN m \in known ELSE m \in Members \ Stored
  /\ member' = [member EXCEPT ![m] = [email |-> i.email, role |-> i.role]]
  /\ WsMove(t, [wsCall[t] EXCEPT !.at = "spend"])
  /\ UNCHANGED <<invite, overdue, spent>>

\* accept_workspace_invite then saves the invite it read as accepted.
SpendInvite(t) ==
  /\ wsCall[t].at = "spend"
  /\ invite' = [invite EXCEPT ![wsCall[t].id] = [wsCall[t].read EXCEPT !.status = "accepted"]]
  /\ spent' = spent \cup {wsCall[t].id}
  /\ WsMove(t, NoWsCall)
  /\ UNCHANGED <<member, overdue>>

InviteLapses(i) ==
  /\ i \notin overdue /\ invite[i] # None
  /\ overdue' = overdue \cup {i}
  /\ UNCHANGED <<member, invite, wsCall, spent>>

WsNext ==
  \/ \E t \in Threads :
       \/ \E req \in WriteRequest, u \in Users :
            EnterEmpty(t, u, req[1], req[2]) \/ \E v \in Users : Enter(t, u, req[1], req[2], v)
       \/ \E v \in Users : Permit(t, v)
       \/ \E i \in Invites : OpenInvite(t, i, "accept") \/ OpenInvite(t, i, "list")
       \/ \E m \in MemberIds : AdmitMember(t, m)
       \/ \E role \in Roles : SaveWorkspace(t, role)
       \/ Bootstrap(t) \/ Refresh(t) \/ SpendInvite(t)
  \/ \E i \in Invites : InviteLapses(i)

WsSpec == WsInit /\ [][WsNext]_wsVars

-----------------------------------------------------------------------------
WsTypeOK ==
  /\ member \in [MemberIds -> Member \cup {None}]
  /\ invite \in [Invites -> Invite \cup {None}]
  /\ overdue \subseteq Invites
  /\ spent \subseteq Invites

(* An invite whose acceptance was answered admits nobody afterwards: though *)
(* every save of an invite writes the whole record as it was read, none     *)
(* makes it pending again, so each later request finds it accepted or       *)
(* expired.  (Two acceptances that overlap may both be admitted.)           *)
InviteStaysSpent == \A i \in spent : invite[i].status # "pending"
=============================================================================
