---------------------------- MODULE MCPublisher ----------------------------
(***************************************************************************)
(* In one run: the owner and the adapter with the checkout of a site, and, *)
(* with one version more and an unsafe copy, the endpoints by themselves.  *)
(***************************************************************************)
EXTENDS Publisher, FiniteSets, TLC

CONSTANTS Editors, SiteCallers  \* the callers of the endpoints, and those beside the site

VARIABLE instance

\* Two articles of different slugs.
OwnSlugs == [copy \in Copies |-> copy]

Idle(c) == view[c] = NoView /\ request[c] = Quiet

\* The copies that a draft has held, or that a request brings.
Used ==
  UNION {{revisions[d][i].copy : i \in DOMAIN revisions[d]} : d \in Drafts}
  \cup {request[c].row.copy : c \in {b \in Callers : request[b] # Quiet}}

VersionsWithin(bound) ==
  /\ \A d \in Drafts : Exists(d) => draft[d].version <= bound
  /\ \A c \in Callers : request[c].op \in {"edit", "approve"} => request[c].row.version < bound

\* Every draft, safe copies, two versions.
SiteBounds ==
  /\ \A c \in Callers \ SiteCallers : Idle(c)
  /\ Used \subseteq Copies \ Unsafe
  /\ VersionsWithin(2)

\* One draft, two of the copies, every version.
EndpointsBounds ==
  /\ \A c \in Callers \ Editors : Idle(c)
  /\ Cardinality({d \in Drafts : Exists(d)}) <= 1
  /\ Cardinality(Used) <= 2

PublishingInit == instance \in {"site", "endpoints"} /\ Init
PublisherNext == instance = "site" /\ Next /\ SiteBounds' /\ UNCHANGED instance
EndpointsNext ==
  /\ instance = "endpoints" /\ EditorialNext /\ EndpointsBounds'
  /\ UNCHANGED <<siteVars, run, crashes, instance>>

Publishing == PublishingInit /\ [][PublisherNext \/ EndpointsNext]_<<vars, instance>>

Symmetry == Permutations(Drafts) \cup Permutations(Copies \ Unsafe)

\* Types; an approval in force is for the copy that the draft holds, and every receipt for one
\* that was approved, at the endpoints by themselves and beside the adapter.
TypesOK == TypeOK /\ ExportsApproved /\ ApprovalIsExact
=============================================================================
