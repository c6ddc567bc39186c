-------------------------------- MODULE Grants --------------------------------
(***************************************************************************)
(* Connection grants: strings that devices redeem for an API token, at     *)
(* most max_redemptions times, until they expire or are revoked.  A        *)
(* redemption checks the grant in a plain read and claims it in one        *)
(* conditional update, whose lock it holds until the token is committed.   *)
(* Other redemptions, the clock, revocation and the replacement of the     *)
(* administrator fall between these steps.                                 *)
(***************************************************************************)
EXTENDS Naturals, FiniteSets

CONSTANTS
  Grants,
  Devices,      \* redemptions
  Names,        \* of the administrator
  Limits,       \* values of max_redemptions; None: no limit
  MaxReplaced,  \* bound: replacements of the administrator
  ServiceOwner, \* the name of an administrator made before there was one
  None, Deleted

VARIABLES
  admin,    \* the administrator's id and name
  grant,    \* connection_grants; None before, Deleted after
  tokens,   \* api_tokens: whose and by which grant
  redeem    \* what each device's request is at

tables == <<admin, grant, tokens>>
vars == <<tables, redeem>>

Users == 0..MaxReplaced
Rows == [user : Users, limit : Limits, count : 0..Cardinality(Devices),
         revoked : BOOLEAN, expired : BOOLEAN]

\* A request holds its grant's row from the claim on.
Pcs == {"idle", "checked", "claimed", "done"}

TypeOK ==
  /\ admin \in [id : Users, name : Names]
  /\ grant \in [Grants -> Rows \cup {None, Deleted}]
  /\ tokens \subseteq [grant : Grants, device : Devices, user : Users]
  /\ redeem \in [Devices -> [pc : Pcs, grant : Grants \cup {None}, name : Names \cup {None}]]

Init ==
  /\ admin \in [id : {0}, name : Names]
  /\ grant = [g \in Grants |-> None]
  /\ tokens = {}
  /\ redeem = [d \in Devices |-> [pc |-> "idle", grant |-> None, name |-> None]]

Exists(g) == grant[g] \notin {None, Deleted}

Claimants(g) == {d \in Devices : redeem[d].pc = "claimed" /\ redeem[d].grant = g}

------------------------------------------------------------------------------
CreateGrant(g, limit) ==
  /\ grant[g] = None
  /\ grant' = [grant EXCEPT ![g] =
       [user |-> admin.id, limit |-> limit, count |-> 0, revoked |-> FALSE, expired |-> FALSE]]
  /\ UNCHANGED <<admin, tokens, redeem>>

Revoke(g) ==
  /\ Exists(g) /\ Claimants(g) = {}
  /\ grant' = [grant EXCEPT ![g].revoked = TRUE]
  /\ UNCHANGED <<admin, tokens, redeem>>

Expire(g) ==
  /\ Exists(g)
  /\ grant' = [grant EXCEPT ![g].expired = TRUE]
  /\ UNCHANGED <<admin, tokens, redeem>>

\* ensure_admin_user, for the first time ...
Rename(name) ==
  /\ admin.name = ServiceOwner
  /\ admin' = [admin EXCEPT !.name = name]
  /\ UNCHANGED <<grant, tokens, redeem>>

\* ... or with force: the users go, and with them their grants and tokens.
Replace(name) ==
  /\ admin.id < MaxReplaced
  /\ \A g \in Grants : Claimants(g) = {}
  /\ admin' = [id |-> admin.id + 1, name |-> name]
  /\ grant' = [g \in Grants |-> IF Exists(g) THEN Deleted ELSE grant[g]]
  /\ tokens' = {}
  /\ UNCHANGED redeem

------------------------------------------------------------------------------
(* redeem_connection_grant. *)

Redeemable(g) ==
  /\ Exists(g)
  /\ ~grant[g].revoked /\ ~grant[g].expired
  /\ grant[g].limit # None => grant[g].count < grant[g].limit

Check(d, g) ==
  /\ redeem[d].pc = "idle"
  /\ Redeemable(g)
  /\ redeem' = [redeem EXCEPT ![d] = [pc |-> "checked", grant |-> g, name |-> admin.name]]
  /\ UNCHANGED tables

Refuse(d) ==
  /\ redeem' = [redeem EXCEPT ![d] = [@ EXCEPT !.pc = "idle", !.grant = None, !.name = None]]
  /\ UNCHANGED tables

\* Faulty: the check is not repeated.
AsChecked(g) == Exists(g)
\* The conditions of the update.
Claimable(g) == Redeemable(g)

\* The count itself shows when the transaction commits.
Claim(d) ==
  LET g == redeem[d].grant IN
  /\ redeem[d].pc = "checked"
  /\ Claimants(g) = {}
  /\ IF Claimable(g)
     THEN redeem' = [redeem EXCEPT ![d].pc = "claimed"] /\ UNCHANGED tables
     ELSE Refuse(d)

\* create_api_token looks the user up by name; the claim is rolled back if there is none.
Issue(d) ==
  LET g == redeem[d].grant IN
  /\ redeem[d].pc = "claimed"
  /\ IF admin.name = redeem[d].name
     THEN /\ tokens' = tokens \cup {[grant |-> g, device |-> d, user |-> admin.id]}
          /\ grant' = [grant EXCEPT ![g].count = @ + 1]
          /\ redeem' = [redeem EXCEPT ![d].pc = "done"]
          /\ UNCHANGED admin
     ELSE Refuse(d)

\* The request fails, and is rolled back.
Fail(d) == redeem[d].pc \in {"checked", "claimed"} /\ Refuse(d)

Next ==
  \/ \E g \in Grants : \/ \E limit \in Limits : CreateGrant(g, limit)
                       \/ Revoke(g) \/ Expire(g)
  \/ \E name \in Names : Rename(name) \/ Replace(name)
  \/ \E d \in Devices : \/ \E g \in Grants : Check(d, g)
                        \/ Claim(d) \/ Issue(d) \/ Fail(d)

Spec == Init /\ [][Next]_vars

------------------------------------------------------------------------------
(* Properties. *)

TokensOf(g) == {t \in tokens : t.grant = g}

\* A grant's tokens are as many as it counts and never more than it allows, however many
\* devices redeem it at once and however many of them fail halfway.
CountedOnce ==
  \A g \in Grants : Exists(g) =>
    /\ Cardinality(TokensOf(g)) = grant[g].count
    /\ grant[g].limit # None => grant[g].count <= grant[g].limit

\* No token is issued by a grant that is revoked, however long ago the device was checked.
RevokedIsFinal ==
  [][\A g \in Grants : Exists(g) /\ grant[g].revoked =>
       {t \in tokens' : t.grant = g} \subseteq TokensOf(g)]_vars
=============================================================================
