-------------------------------- MODULE Access --------------------------------
(***************************************************************************)
(* Sessions and administration: login, rotation, logout and expiry of      *)
(* browser sessions (auth/routes, auth/sessions), the two lookups that     *)
(* authenticate a request (auth/csrf, api/deps), and the commands of       *)
(* api/admin: grant a role, revoke a role, deactivate a membership.        *)
(*                                                                         *)
(* A command reads its principal, checks its guards and writes in one      *)
(* READ COMMITTED transaction that locks nothing it reads, so the reads    *)
(* and the commit are steps of their own.  There is one organization; a    *)
(* role assignment is a <<user, scope>> of the org_admin role, unique by   *)
(* the table's constraint.  Reactivation of a membership has no code path. *)
(***************************************************************************)
EXTENDS Integers, FiniteSets

CONSTANTS
    Users,
    Scopes,      \* "org" (no factory) and the factories
    Browsers,
    Requests,    \* commands that may be in flight together
    Founders     \* users who are org_admin at the start

VARIABLES
    active,      \* users with an active membership
    assigned,    \* role assignments of org_admin: <<user, scope>>
    session,     \* browser -> [user, live]
    request      \* in-flight command -> [step, user, kind, target]

vars == <<active, assigned, session, request>>

Nobody == "nobody"
Idle == [step |-> "idle", user |-> Nobody, kind |-> "none", target |-> <<>>]

\* memberships: one per user, ACTIVE or not.
MembershipRows == active \in SUBSET Users

\* role_assignments: unique by membership, scope and role.
AssignmentRows == assigned \in SUBSET (Users \X Scopes)

\* sessions, the newest of each browser.
SessionRows == session \in [Browsers -> [user : Users \cup {Nobody}, live : BOOLEAN]]

Commands == [kind : {"grant", "revoke"}, target : Users \X Scopes]
            \cup [kind : {"deactivate"}, target : Users \X {"org"}]

TypeOK ==
    /\ MembershipRows /\ AssignmentRows /\ SessionRows
    /\ \A r \in Requests :
          \/ request[r] = Idle
          \/ /\ request[r].step \in {"resolved", "admitted", "checked"}
             /\ request[r].user \in Users
             /\ [kind |-> request[r].kind, target |-> request[r].target] \in Commands

HasAdminRole(u) == \E s \in Scopes : <<u, s>> \in assigned

\* load_principal, has_anywhere: an active membership with an org_admin role.
Administrators == {u \in active : HasAdminRole(u)}

-----------------------------------------------------------------------------
(* Sessions                                                                 *)

Held(b) == session[b].live

\* create_session, revoke_session
Opened(u) == [user |-> u, live |-> TRUE]
Ended(u) == [user |-> u, live |-> FALSE]

\* callback: the session this browser held is revoked, a new one created.  A
\* user without a membership may log in; each of his requests is refused.
Login(b, u) ==
    /\ session' = [session EXCEPT ![b] = Opened(u)]
    /\ UNCHANGED <<active, assigned, request>>

\* logout, or resolve_session finding expires_at passed.
Logout(b) ==
    /\ Held(b)
    /\ session' = [session EXCEPT ![b] = Ended(session[b].user)]
    /\ UNCHANGED <<active, assigned, request>>

WithoutSessionsOf(u) ==
    [b \in Browsers |-> IF session[b].user = u THEN Ended(u) ELSE session[b]]

-----------------------------------------------------------------------------
(* A command, step by step                                                  *)

\* CsrfMiddleware resolves the session in a transaction of its own.
Arrive(r, b, c) ==
    /\ request[r].step = "idle" /\ Held(b)
    /\ request' = [request EXCEPT ![r] = [step |-> "resolved", user |-> session[b].user,
                                          kind |-> c.kind, target |-> c.target]]
    /\ UNCHANGED <<active, assigned, session>>

\* get_principal and _require_admin; a refused request changes nothing.
LoadPrincipal(r) ==
    /\ request[r].step = "resolved"
    /\ request' = [request EXCEPT ![r] = IF @.user \in Administrators
                                         THEN [@ EXCEPT !.step = "admitted"] ELSE Idle]
    /\ UNCHANGED <<active, assigned, session>>

CountedWithInactive(excluded) ==
    Cardinality({a \in assigned \ {excluded} : a[1] \in Users})

\* _active_org_admin_count
ActiveAdminAssignments(excluded) ==
    Cardinality({a \in assigned \ {excluded} : a[1] \in active})

MayProceed(r) ==
    LET q == request[r] IN
    \/ q.kind = "grant" /\ q.target \notin assigned
    \/ q.kind = "revoke" /\ q.target \in assigned /\ ActiveAdminAssignments(q.target) > 0
    \/ q.kind = "deactivate" /\ q.target[1] # q.user /\ q.target[1] \in active

CheckGuards(r) ==
    /\ request[r].step = "admitted"
    /\ request' = [request EXCEPT ![r] = IF MayProceed(r)
                                         THEN [@ EXCEPT !.step = "checked"] ELSE Idle]
    /\ UNCHANGED <<active, assigned, session>>

\* Flush, revoke the sessions of the affected user, commit.  A second grant of
\* one role fails on the unique constraint and a second delete finds no row:
\* both leave the tables as they are.
Commit(r) ==
    LET q == request[r] IN
    /\ q.step = "checked"
    /\ assigned' = CASE q.kind = "grant" -> assigned \cup {q.target}
                     [] q.kind = "revoke" -> assigned \ {q.target}
                     [] OTHER -> assigned
    /\ active' = IF q.kind = "deactivate" THEN active \ {q.target[1]} ELSE active
    /\ session' = WithoutSessionsOf(q.target[1])
    /\ request' = [request EXCEPT ![r] = Idle]

Init ==
    /\ active = Users
    /\ assigned = {<<u, "org">> : u \in Founders}
    /\ session = [b \in Browsers |-> [user |-> Nobody, live |-> FALSE]]
    /\ request = [r \in Requests |-> Idle]

Next ==
    \/ \E b \in Browsers : Logout(b) \/ \E u \in Users : Login(b, u)
    \/ \E r \in Requests :
          \/ LoadPrincipal(r) \/ CheckGuards(r) \/ Commit(r)
          \/ \E b \in Browsers, c \in Commands : Arrive(r, b, c)

Spec == Init /\ [][Next]_vars

-----------------------------------------------------------------------------
(* Properties                                                               *)

\* The organization keeps somebody who can administer it: an active member
\* with an org_admin role (admin.py 290-300: "Cannot remove the organization's
\* last org_admin assignment").  It takes both the count of revoke_role and
\* the caller check of deactivate_membership.
AdministratorRemains == Administrators # {}

\* However many commands overlap, the last administrator is lost only to one
\* that was overtaken: at its commit its caller is no administrator any more, or
\* its guard would refuse it.  So the guards of api/admin.py suffice if they
\* are evaluated on rows that are locked until the commit.
LostToOvertakenCommand ==
    [][(Administrators # {} /\ Administrators' = {}) =>
          \E r \in Requests :
              /\ Commit(r)
              /\ request[r].user \in Administrators => ~MayProceed(r)]_vars
===============================================================================
