------------------------------ MODULE KeyCache ------------------------------
(***************************************************************************)
(* Finding the key an id_token was signed with: OidcAdmin::verify over     *)
(* jwks() and discovery() (crates/postbud-api/src/oidc.rs).  Every request *)
(* of the admin surface verifies its token, all of them over one cache of  *)
(* the issuer's key set, which is read and written under a lock but not    *)
(* held while the issuer is asked: answers come back in any order, and     *)
(* the issuer rotates its keys meanwhile.                                  *)
(*                                                                         *)
(* Signature, issuer, audience and expiry are taken to be in order; with   *)
(* ADMIN_OIDC_JWKS_FILE there is nothing to fetch, and nothing here.       *)
(***************************************************************************)
EXTENDS Naturals

CONSTANTS
  Kid,           \* key ids
  Visit,         \* verifications that may be in progress at once
  MaxKeyFaults   \* bound: requests to the issuer that fail

ASSUME KeyCacheAssumption == Kid # {} /\ MaxKeyFaults \in Nat

VARIABLES
  published,   \* the issuer's key set
  discovered,  \* is the discovery document cached?
  cache,       \* jwks_cache: {} for none, or the one set it holds
  visit,       \* [Visit -> Verification]
  keyFaults    \* faults so far, at most MaxKeyFaults

keyVars == <<published, discovered, cache, visit, keyFaults>>

-----------------------------------------------------------------------------
(* Data.                                                                   *)

\* `set` is the local `jwks`, `again` whether it is the refetched one; and
\* `steady`, a history, whether the key was published all the while.
Verification ==
  [at : {"none", "discover", "ask", "store", "find",
         "accepted", "refused", "failed"},
   kid : Kid, set : SUBSET Kid, again : BOOLEAN, steady : BOOLEAN]

InProgress(v) == visit[v].at \in {"discover", "ask", "store", "find"}

Go(v, at) == visit' = [visit EXCEPT ![v].at = at]

\* verify returns, and its locals are gone.
Return(v, at) ==
  visit' = [visit EXCEPT ![v] = [@ EXCEPT !.at = at, !.set = {}, !.again = FALSE]]

\* jwks(): the discovery document first, unless it is known.
Fetching == IF discovered THEN "ask" ELSE "discover"

-----------------------------------------------------------------------------
(* The issuer (external).                                                  *)

\* A key is added to the published set, or withdrawn.
Republish(k) ==
  /\ published' = IF k \in published THEN published \ {k} ELSE published \cup {k}
  /\ visit' = [v \in Visit |->
       [visit[v] EXCEPT !.steady = @ /\ (visit[v].kid = k => k \notin published)]]
  /\ UNCHANGED <<discovered, cache, keyFaults>>

-----------------------------------------------------------------------------
(* A verification.                                                         *)

\* verify: the cached set if there is one, the issuer's otherwise.
Verify(v, kid) ==
  /\ ~InProgress(v)
  /\ visit' = [visit EXCEPT ![v] =
       [at |-> IF cache = {} THEN Fetching ELSE "find", kid |-> kid,
        set |-> UNION cache,
        again |-> FALSE, steady |-> kid \in published]]
  /\ UNCHANGED <<published, discovered, cache, keyFaults>>

\* The discovery document arrives, and is cached.
Discover(v) ==
  /\ visit[v].at = "discover"
  /\ discovered' = TRUE
  /\ Go(v, "ask")
  /\ UNCHANGED <<published, cache, keyFaults>>

\* The issuer answers with its set of the moment.
Answer(v) ==
  /\ visit[v].at = "ask"
  /\ visit' = [visit EXCEPT ![v] = [@ EXCEPT !.at = "store", !.set = published]]
  /\ UNCHANGED <<published, discovered, cache, keyFaults>>

\* The answer was parsed, and is cached: over whatever is cached by now,
\* an answer to a later question included.
Store(v) ==
  /\ visit[v].at = "store"
  /\ cache' = {visit[v].set}
  /\ Go(v, "find")
  /\ UNCHANGED <<published, discovered, keyFaults>>

\* Mutant: an unknown key id is refused at once.
Find_NoRefetch(v) ==
  /\ visit[v].at = "find"
  /\ Return(v, IF visit[v].kid \in visit[v].set THEN "accepted" ELSE "refused")
  /\ UNCHANGED <<published, discovered, cache, keyFaults>>

\* An unknown key id once means a rotated key: the set is fetched again,
\* even if it was fetched just now.  Unknown twice, the token is refused.
Find(v) ==
  /\ visit[v].at = "find"
  /\ CASE visit[v].kid \in visit[v].set -> Return(v, "accepted")
       [] visit[v].kid \notin visit[v].set /\ ~visit[v].again ->
            visit' = [visit EXCEPT ![v] = [@ EXCEPT !.at = Fetching, !.again = TRUE]]
       [] OTHER -> Return(v, "refused")
  /\ UNCHANGED <<published, discovered, cache, keyFaults>>

\* The issuer cannot be reached or makes no sense: refused, nothing cached.
FailToFetch(v) ==
  /\ visit[v].at \in {"discover", "ask"}
  /\ keyFaults < MaxKeyFaults
  /\ keyFaults' = keyFaults + 1
  /\ Return(v, "failed")
  /\ UNCHANGED <<published, discovered, cache>>

KeysInit ==
  /\ published = {}
  /\ discovered = FALSE
  /\ cache = {}
  /\ visit = [v \in Visit |-> [at |-> "none", kid |-> CHOOSE k \in Kid : TRUE,
                             set |-> {}, again |-> FALSE, steady |-> FALSE]]
  /\ keyFaults = 0

KeysNext ==
  \/ \E k \in Kid : Republish(k)
  \/ \E v \in Visit :
       \/ \E kid \in Kid : Verify(v, kid)
       \/ Discover(v) \/ Answer(v) \/ Store(v) \/ Find(v) \/ FailToFetch(v)

KeysSpec == KeysInit /\ [][KeysNext]_keyVars

-----------------------------------------------------------------------------
(* Properties.                                                             *)

KeysTypeOK ==
  /\ published \subseteq Kid
  /\ discovered \in BOOLEAN
  /\ cache \in SUBSET SUBSET Kid /\ \A s1, s2 \in cache : s1 = s2
  /\ visit \in [Visit -> Verification]
  /\ keyFaults \in Nat

\* Nobody is locked out by the cache: a token whose key is published all the
\* while it is being verified is not refused, though the cache is older than
\* the key, or is overwritten meanwhile by an older answer - unless the
\* issuer did not answer.
PublishedKeyIsAccepted == \A v \in Visit : visit[v].at = "refused" => ~visit[v].steady

=============================================================================
