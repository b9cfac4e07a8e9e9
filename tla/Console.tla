------------------------------ MODULE Console -------------------------------
(***************************************************************************)
(* What stands behind the admin console: who may operate it (Access, which *)
(* extends AdminUsers), how their token is checked (KeyCache) and renewed  *)
(* (Session), who may send as what (Tenants), the alert about a tenant     *)
(* (Volume), the list of messages (Paging) and the bounces it shows        *)
(* (Notices).  They are read and written by separate requests over         *)
(* separate tables, so a behaviour is looked at one concern at a time:     *)
(* `concern` says which, and the others stand still.                       *)
(***************************************************************************)
EXTENDS Access, KeyCache, Session, Tenants, Volume, Paging, Notices

VARIABLE concern

consoleVars == <<concern, accessVars, keyVars, sessionVars, tenantVars, volumeVars,
                 pagingVars, noticeVars>>

Concern == {"users", "keys", "session", "tenants", "volume", "list", "notices"}

ConsoleInit ==
  /\ concern \in Concern
  /\ AccessInit /\ KeysInit /\ SessionInit /\ TenantsInit /\ VolumeInit
  /\ PagingInit /\ NoticesInit

ManagingUsers(step) ==
  /\ concern = "users" /\ step
  /\ UNCHANGED <<concern, keyVars, sessionVars, tenantVars, volumeVars, pagingVars,
                 noticeVars>>

CheckingTokens(step) ==
  /\ concern = "keys" /\ step
  /\ UNCHANGED <<concern, accessVars, sessionVars, tenantVars, volumeVars, pagingVars,
                 noticeVars>>

KeepingSession(step) ==
  /\ concern = "session" /\ step
  /\ UNCHANGED <<concern, accessVars, keyVars, tenantVars, volumeVars, pagingVars,
                 noticeVars>>

ManagingTenants(step) ==
  /\ concern = "tenants" /\ step
  /\ UNCHANGED <<concern, accessVars, keyVars, sessionVars, volumeVars, pagingVars,
                 noticeVars>>

WatchingVolume(step) ==
  /\ concern = "volume" /\ step
  /\ UNCHANGED <<concern, accessVars, keyVars, sessionVars, tenantVars, pagingVars,
                 noticeVars>>

Listing(step) ==
  /\ concern = "list" /\ step
  /\ UNCHANGED <<concern, accessVars, keyVars, sessionVars, tenantVars, volumeVars,
                 noticeVars>>

ReadingNotices(step) ==
  /\ concern = "notices" /\ step
  /\ UNCHANGED <<concern, accessVars, keyVars, sessionVars, tenantVars, volumeVars,
                 pagingVars>>

ConsoleNext ==
  \/ ManagingUsers(AccessNext)
  \/ CheckingTokens(KeysNext)
  \/ KeepingSession(SessionNext)
  \/ ManagingTenants(TenantsNext)
  \/ WatchingVolume(VolumeNext)
  \/ Listing(PagingNext)
  \/ ReadingNotices(NoticesNext)

\* The fairness of AdminUsers: a transaction goes on when it can, who waits
\* for a row is served in turn, and a deadlock is broken.
ConsoleSpec ==
  /\ ConsoleInit /\ [][ConsoleNext]_consoleVars
  /\ \A r \in Request : SF_consoleVars(ManagingUsers(Continue(r)))

-----------------------------------------------------------------------------
(* Properties, beside those of the modules.                                *)

\* Every variable of the concerns has its type.
ConsoleTypeOK ==
  /\ concern \in Concern
  /\ AccessTypeOK /\ KeysTypeOK /\ SessionTypeOK /\ TenantsTypeOK
  /\ VolumeTypeOK /\ PagingTypeOK /\ NoticesTypeOK

=============================================================================
