------------------------------- MODULE Access -------------------------------
(***************************************************************************)
(* Who gets to change anything: Admin::resolve and AdminWrite              *)
(* (crates/postbud-api/src/admin.rs) in front of the users handlers of     *)
(* module AdminUsers.  The role is read from the table in one statement,   *)
(* before the handler starts, and the handler goes by it whatever becomes  *)
(* of the table in between.                                                *)
(*                                                                         *)
(* Whether an id_token is genuine is module KeyCache's question: here it   *)
(* is, and all that counts of it are the names it asserts.                 *)
(***************************************************************************)
EXTENDS AdminUsers

CONSTANTS
  Allowlist,  \* ADMIN_OIDC_USERS
  TokenSet    \* is a static admin token configured?

ASSUME AccessAssumption == Allowlist \subseteq Identity /\ TokenSet \in BOOLEAN

VARIABLE admitted  \* requests whose role was read as admin, not yet handled

accessVars == <<vars, admitted>>

-----------------------------------------------------------------------------

\* admin_user::resolve, `any_active`: nobody has a grant.
AllowlistGoverns == \A i \in DOMAIN grants : ~grants[i].active

\* The roles of the active grants that name the identity: admin_user::resolve
\* takes one of them.
RolesOf(names) ==
  {grants[i].role : i \in {j \in DOMAIN grants :
                             grants[j].active /\ grants[j].who \in names}}

\* OidcAdmin::env_allowlisted
Allowlisted(names) == names \cap Allowlist # {}

\* Admin::resolve, and AdminWrite's refusal of a viewer, for an identity
\* with these names: its subject, and its email if it has one.
IsAdminNow(names) ==
  \/ "admin" \in RolesOf(names)
  \/ RolesOf(names) = {} /\ AllowlistGoverns /\ Allowlisted(names)

Admit(r) ==
  /\ tx[r].phase = "idle" /\ r \notin admitted
  /\ TokenSet \/ \E sub, email \in Identity : IsAdminNow({sub, email})
  /\ admitted' = admitted \cup {r}
  /\ UNCHANGED vars

\* A users handler, at work for a request that was let in.
Handle(r) ==
  /\ r \in admitted
  /\ admitted' = admitted \ {r}
  /\ \/ \E who \in Identity, role \in Role : Add(who, role)
     \/ \E i \in DOMAIN grants, to \in Role \cup {"ended"} : Begin(r, i, to)

\* The grant exists already, or the request is gone before it is handled.
Dismiss(r) ==
  /\ r \in admitted
  /\ admitted' = admitted \ {r}
  /\ UNCHANGED vars

Continue(r) == Work(r) /\ UNCHANGED admitted

AccessInit == Init /\ admitted = {}

AccessNext ==
  \E r \in Request :
    \/ Admit(r) \/ Handle(r) \/ Dismiss(r)
    \/ Continue(r)
    \/ Fail(r) /\ UNCHANGED admitted

AccessSpec == AccessInit /\ [][AccessNext]_accessVars

-----------------------------------------------------------------------------
(* Properties.                                                             *)

AccessTypeOK == TypeOK /\ admitted \subseteq Request

\* The bootstrap window closes for good: once anyone was made an admin the
\* environment's list lets nobody in again, whatever requests that entered
\* before - through the list, or on a role lost since - still change.
AllowlistStaysClosed ==
  (\E i \in DOMAIN grants : grants[i].role = "admin") => ~AllowlistGoverns

\* Managing users by admitted requests is managing users.
AccessIsManaging == Spec

=============================================================================
