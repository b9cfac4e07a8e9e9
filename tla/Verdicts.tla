------------------------------ MODULE Verdicts ------------------------------
(***************************************************************************)
(* What the DNS answers mean: dnscheck::evaluate                           *)
(* (crates/postbud-core/src/dnscheck.rs) over what dnscheck::observe       *)
(* (crates/postbud-relay/src/dnscheck.rs) asks for.  The functions are     *)
(* pure; the behaviours are all the ways in which the owner of a domain    *)
(* may publish records, against whatever it was registered with.           *)
(*                                                                         *)
(* An answer is a sequence, in the order in which the resolver returns it, *)
(* and a record is what the checks tell apart in it: case, spaces, quotes  *)
(* and root dots are compared away by the code.  Records that evaluate     *)
(* panics on, for there is no character boundary where it cuts them, have  *)
(* no verdict: what comes of them is in module DomainChecks.               *)
(***************************************************************************)
EXTENDS Naturals, Sequences, FiniteSetsExt, Functions

CONSTANTS
  MaxAnswer,   \* bound: records in one answer
  MaxRecords,  \* bound: records published at a time
  DmarcTags    \* bound: the DMARC records that are published

VARIABLES
  zone,      \* what is published
  expected   \* what the domain was registered with (domain::add)

verdictVars == <<zone, expected>>

-----------------------------------------------------------------------------
(* Data.                                                                   *)

\* POLICY_LADDER, weakest first, and policy_rank
Policy == {"none", "quarantine", "reject"}

Rank(p) == CASE p = "none" -> 0 [] p = "quarantine" -> 1 [] p = "reject" -> 2

\* A DMARC record's tags p and sp: a level, a word that is none, or no tag.
Tag == Policy \cup {"typo", "absent"}
DmarcRecord == [p : Tag, sp : Tag]

Unrelated == "unrelated"   \* a TXT record of another kind, that can be cut
SpfText  == {"spf as expected", "spf otherwise", Unrelated}
DkimText == {"our key", "another key"}
MxHost   == {"our host", "another host"}

ASSUME VerdictsAssumption ==
  {MaxAnswer, MaxRecords} \subseteq Nat /\ DmarcTags \subseteq DmarcRecord

\* A TXT record that does not start with v=DMARC1 is no DMARC record.
NoDmarc == [p |-> Unrelated, sp |-> Unrelated]
IsDmarc(text) == text # NoDmarc
DmarcTexts == DmarcTags \cup {NoDmarc}

\* The names of a zone: for a subdomain, dmarc_names adds the organizational
\* domain's; the names between are never asked for.
Answer(Text) == UNION {[1 .. n -> Text] : n \in 0 .. MaxAnswer}

Zone == [apex : Answer(SpfText), dkim : Answer(DkimText), mx : Answer(MxHost),
         dmarc : [{"domain", "organization"} -> Answer(DmarcTexts)]]

\* `policy` is "absent" when nobody stated a level; the table's check
\* constraint keeps other words out, so check_dmarc never blames the registry.
Expectation == [subdomain : BOOLEAN, mx : BOOLEAN, policy : Policy \cup {"absent"}]

Unregistered == [subdomain |-> FALSE, mx |-> FALSE, policy |-> "unregistered"]

-----------------------------------------------------------------------------
(* The checks, each "ok", "missing" or "mismatch".                         *)

\* The SPF records of an answer, by their places in it.
Spf(answer) == {i \in DOMAIN answer : answer[i] # Unrelated}

\* Mutant: one of two records that matches is enough.
CheckSpf_AnyMatches(answer) ==
  IF Spf(answer) = {} THEN "missing"
  ELSE IF "spf as expected" \in Range(answer) THEN "ok" ELSE "mismatch"

\* A second SPF record makes a PermError of both.
CheckSpf(answer) ==
  IF Spf(answer) = {} THEN "missing"
  ELSE IF \E i \in DOMAIN answer : Spf(answer) = {i} /\ answer[i] = "spf as expected"
       THEN "ok" ELSE "mismatch"

\* check_dkim, and check_mx: one of the records is the expected one
CheckPresent(answer, wanted) ==
  IF answer = << >> THEN "missing"
  ELSE IF wanted \in Range(answer) THEN "ok" ELSE "mismatch"

Dmarc(answer) == {i \in DOMAIN answer : IsDmarc(answer[i])}

\* The first DMARC record of the answer counts, and its tag p alone.
CheckDmarc(answer, want) ==
  LET found == answer[Min(Dmarc(answer))].p
  IN  IF Dmarc(answer) = {} THEN "missing"
      ELSE IF found \notin Policy THEN "mismatch"
      ELSE IF want = "absent" THEN "ok"
      ELSE IF Rank(found) < Rank(want) THEN "mismatch" ELSE "ok"

\* observe: the first of dmarc_names that answers with a DMARC record.
ObservedDmarc(z, subdomain) ==
  IF Dmarc(z.dmarc["domain"]) # {} THEN z.dmarc["domain"]
  ELSE IF subdomain THEN z.dmarc["organization"] ELSE << >>

\* evaluate: `valid`.  Neither the bounce probe nor the reports' consent is
\* part of it.
Valid(z, e) ==
  /\ CheckSpf(z.apex) = "ok"
  /\ CheckPresent(z.dkim, "our key") = "ok"
  /\ CheckDmarc(ObservedDmarc(z, e.subdomain), e.policy) = "ok"
  /\ e.mx => CheckPresent(z.mx, "our host") = "ok"

-----------------------------------------------------------------------------
(* The world: records are published and withdrawn.                         *)

Published ==
  Len(zone.apex) + Len(zone.dkim) + Len(zone.mx)
    + Len(zone.dmarc["domain"]) + Len(zone.dmarc["organization"])

\* What may become of an answer: it loses its records, or gets one more.
Edited(answer, Text) ==
  {<< >>} \cup {Append(answer, t) : t \in IF Len(answer) < MaxAnswer /\ Published < MaxRecords
                                        THEN Text ELSE {}}

\* domain::add; what was said then is not edited, only ended and said anew.
Register ==
  /\ expected = Unregistered
  /\ expected' \in Expectation
  /\ UNCHANGED zone

Publish ==
  /\ \/ \E a \in Edited(zone.apex, SpfText)  : zone' = [zone EXCEPT !.apex = a]
     \/ \E a \in Edited(zone.dkim, DkimText) : zone' = [zone EXCEPT !.dkim = a]
     \/ \E a \in Edited(zone.mx, MxHost)     : zone' = [zone EXCEPT !.mx = a]
     \/ \E n \in {"domain", "organization"} :
          \E a \in Edited(zone.dmarc[n], DmarcTexts) :
            zone' = [zone EXCEPT !.dmarc[n] = a]
  /\ UNCHANGED expected

VerdictsInit ==
  /\ zone = [apex |-> << >>, dkim |-> << >>, mx |-> << >>,
             dmarc |-> [n \in {"domain", "organization"} |-> << >>]]
  /\ expected = Unregistered

VerdictsNext == Register \/ Publish

-----------------------------------------------------------------------------
(* What a receiver makes of the same records (RFC 7208, 6376, 7489).       *)

Own == Dmarc(zone.dmarc["domain"])

Inherited == IF expected.subdomain THEN Dmarc(zone.dmarc["organization"]) ELSE {}

\* The tags that speak for the domain: p of its own records, or else those
\* of the records it inherits, which speak of subdomains with sp.
Applied ==
  IF Own # {}
  THEN [i \in Own |-> zone.dmarc["domain"][i].p]
  ELSE [i \in Inherited |->
          LET record == zone.dmarc["organization"][i]
          IN  IF record.sp = "absent" THEN record.p ELSE record.sp]

\* Several records are as good as none, and so is one that cannot be read.
Readable ==
  \E i \in DOMAIN Applied : DOMAIN Applied = {i} /\ Applied[i] \in Policy

Enforced == IF Readable THEN Rank(Applied[CHOOSE i \in DOMAIN Applied : TRUE]) ELSE 0

\* The owner has published a policy that has one reading.
PlainDmarc ==
  /\ \A i, k \in DOMAIN Applied : i = k
  /\ Own = {} => \A i \in Inherited : zone.dmarc["organization"][i].sp = "absent"

VerdictsSpec == VerdictsInit /\ [][VerdictsNext]_verdictVars

-----------------------------------------------------------------------------
(* Properties.                                                             *)

VerdictsTypeOK == zone \in Zone /\ expected \in Expectation \cup {Unregistered}

\* The badge is green exactly when receivers will accept what the domain
\* sends: one SPF record and the right one, the relay's key among the DKIM
\* keys, bounces routed to us, and a policy that can be read and protects
\* the domain as far as it is meant to - whatever else is published, where
\* evaluate returns at all, and in whatever order.
BadgeIsRight ==
  expected # Unregistered /\ PlainDmarc =>
    (Valid(zone, expected) <=>
       /\ \E i \in DOMAIN zone.apex :
            \A k \in DOMAIN zone.apex :
              zone.apex[k] = (IF k = i THEN "spf as expected" ELSE Unrelated)
       /\ \E i \in DOMAIN zone.dkim : zone.dkim[i] = "our key"
       /\ expected.mx => \E i \in DOMAIN zone.mx : zone.mx[i] = "our host"
       /\ Readable
       /\ expected.policy # "absent" => Enforced >= Rank(expected.policy))

\* migrations/0011_dmarc_policy_expected.sql, lines 3-6 and 16-18: the check
\* answers whether a domain still enforces what it is meant to, and downward
\* drift is a fault.  A green badge means that receivers enforce that much.
DownwardDriftIsSeen ==
  expected.policy \in Policy /\ Valid(zone, expected) =>
    Enforced >= Rank(expected.policy)

=============================================================================
