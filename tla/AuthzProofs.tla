----------------------------- MODULE AuthzProofs -----------------------------
(* Proofs about Authz, for any accounts, actions, groups and versions of   *)
(* the policy, any requests, and any failures of OPA and of the script.    *)
EXTENDS Authz, TLAPS

--------------------------------------------------------------------------------
(* The decision                                                            *)

\* With the file of policies as it is, the evaluator gives the admin tier to members of the
\* operators' groups with a second factor, the user tier to members of the users' groups, and
\* neither to anybody else (data.json, match.rego).
THEOREM TierTable ==
    ASSUME NEW operators, NEW users, NEW mfa, NEW token
    PROVE  /\ Permits(TierPolicy(operators, users, mfa), "admin", token) <=>
                  operators \cap token.entitlements # {} /\ mfa \in token.acr
           /\ Permits(TierPolicy(operators, users, mfa), "user", token) <=>
                  users \cap token.entitlements # {}
<1> DEFINE factor == {[left |-> "acr", eq |-> TRUE, right |-> mfa]}
           adminRules == {TierRule("admin", g, factor) : g \in operators}
           userRules == {TierRule("user", g, {}) : g \in users}
           policy == [permission |-> adminRules \cup userRules, prohibition |-> {}]
<1>1. ASSUME NEW tier \in {"admin", "user"}
      PROVE  Permits(TierPolicy(operators, users, mfa), tier, token) <=>
                 \E rule \in adminRules \cup userRules : RuleMatched(rule, tier, token)
  <2>1. TierPolicy(operators, users, mfa) = {policy}
    BY DEF TierPolicy
  <2>2. policy.permission = adminRules \cup userRules /\ policy.prohibition = {}
    OBVIOUS
  <2>. HIDE DEF policy
  <2>. QED
    BY <2>1, <2>2 DEF Permits
<1>2. ASSUME NEW g, NEW tier \in {"admin", "user"}
      PROVE  RuleMatched(TierRule("admin", g, factor), tier, token) <=>
                 tier = "admin" /\ g \in token.entitlements /\ mfa \in token.acr
  <2>1. \A c \in factor : Holds(c, token) <=> mfa \in token.acr
    BY DEF Holds
  <2>2. \E c \in factor : TRUE
    OBVIOUS
  <2>. HIDE DEF factor
  <2>. QED
    BY <2>1, <2>2 DEF RuleMatched, TierRule
<1>3. ASSUME NEW g, NEW tier \in {"admin", "user"}
      PROVE  RuleMatched(TierRule("user", g, {}), tier, token) <=>
                 tier = "user" /\ g \in token.entitlements
  BY DEF RuleMatched, TierRule
<1>. HIDE DEF factor
<1>. QED
  BY <1>1, <1>2, <1>3

\* "a token's tier always comes from ODRL, even when its subject also maps to a listed account"
\* (authz.rego): with a token, the account makes no difference.
THEOREM AccountMakesNoDifference ==
    ASSUME NEW o, NEW token, token.sub, NEW a, NEW b, NEW action
    PROVE  Allows(o, [account |-> a, action |-> action, token |-> token]) <=>
           Allows(o, [account |-> b, action |-> action, token |-> token])
BY DEF Allows, IsAdmin

\* A policy that only prohibits takes away, and never gives.
THEOREM BansOnlyTakeAway ==
    ASSUME NEW odrl, NEW ban, ban.permission = {}, NEW tier, NEW token,
           Permits(odrl \cup {ban}, tier, token)
    PROVE  Permits(odrl, tier, token)
BY DEF Permits

--------------------------------------------------------------------------------
(* The ingestion                                                           *)

\* The script loads one version, the module before its data and the data before the policies,
\* so where there is a module, what is loaded after it is of the same version: a restart in
\* between takes the module along.
InOrder ==
    /\ script.at \notin {"none"} => \E v \in Version : script.version = {v}
    /\ opa.module # {} =>
          /\ script.at \in {"data", "odrl", "cleanup", "done"} => opa.module = script.version
          /\ script.at \in {"odrl", "cleanup", "done"} => opa.data = script.version
          /\ script.at \in {"cleanup", "done"} => opa.odrl = script.version

IInv == TypeOK /\ InOrder

LEMMA InitIInv == Init => IInv
BY DEF Init, IInv, TypeOK, InOrder, EmptyOpa, UnderWay

\* Each step keeps types and order.
LEMMA NextIInv == IInv /\ [Next]_vars => IInv'
<1> SUFFICES ASSUME IInv, [Next]_vars PROVE IInv'
  OBVIOUS
<1>. USE DEF IInv, TypeOK, InOrder, UnderWay
<1>1. CASE OpaStops
  BY <1>1 DEF OpaStops
<1>2. CASE OpaStarts
  BY <1>2 DEF OpaStarts, EmptyOpa
<1>3. ASSUME NEW v \in Version, Begin(v) PROVE IInv'
  BY <1>3 DEF Begin
<1>4. CASE Check
  BY <1>4 DEF Check, Goes
<1>5. CASE PutModule
  BY <1>5 DEF PutModule, Put, Goes
<1>6. CASE PutData
  BY <1>6 DEF PutData, Put, Goes
<1>7. CASE PutOdrl
  BY <1>7 DEF PutOdrl, Put, Goes
<1>8. CASE RemoveObsolete
  BY <1>8 DEF RemoveObsolete, Goes
<1>9. CASE Fail
  BY <1>9 DEF Fail, Failed
<1>10. CASE UNCHANGED vars
  BY <1>10 DEF vars
<1>. QED
  BY <1>1, <1>2, <1>3, <1>4, <1>5, <1>6, <1>7, <1>8, <1>9, <1>10 DEF Next

LEMMA InvariantHolds == Spec => []IInv
BY InitIInv, NextIInv, PTL DEF Spec

\* The state of OPA and of the script keeps to its types.
THEOREM AuthzTypeCorrect == Spec => []TypeOK
BY InvariantHolds, PTL DEF IInv

\* A tier that OPA gives is one the policies of a version give.
LEMMA TiersAreOfVersions ==
    ASSUME TypeOK, NEW tier, NEW token, HasTier(opa, tier, token)
    PROVE  \E v \in Version : v \in opa.odrl /\ Permits(v.odrl, tier, token)
BY DEF TypeOK, HasTier

\* After a successful ingestion nobody is permitted what its version does not allow, through
\* restarts of OPA in the middle of it and later, and no module of OPA permits less
\* (ingest_policies.py, main).
THEOREM DoneAlwaysMeansVersion == Spec => []DoneMeansVersion
<1>1. IInv => DoneMeansVersion
  <2>. SUFFICES ASSUME IInv, script.at = "done", NEW req \in Request
                PROVE  LET allowed == \E v \in script.version : Allows(Whole(v), req)
                       IN /\ Permitted(req) => allowed
                          /\ opa.up /\ opa.evaluator /\ opa.module # {} /\ allowed
                                => Permitted(req)
    BY DEF DoneMeansVersion
  <2>1. PICK v \in Version : script.version = {v}
    BY DEF IInv, InOrder
  <2>2. CASE opa.module = {}
    BY <2>2 DEF Permitted, Allows
  <2>3. CASE opa.module # {}
    <3>1. opa.module = {v} /\ opa.data = {v} /\ opa.odrl = {v}
      BY <2>1, <2>3 DEF IInv, InOrder
    <3>2. \A tier : HasTier(opa, tier, req.token) <=>
                       opa.evaluator /\ HasTier(Whole(v), tier, req.token)
      BY <3>1 DEF HasTier, Whole
    <3>3. AdminAccounts(opa) = AdminAccounts(Whole(v))
      BY <3>1 DEF AdminAccounts, Whole
    <3>4. Allows(opa, req) => Allows(Whole(v), req)
      BY <3>1, <3>2, <3>3 DEF Allows, IsAdmin, Whole
    <3>5. opa.evaluator /\ Allows(Whole(v), req) => Allows(opa, req)
      BY <3>1, <3>2, <3>3 DEF Allows, IsAdmin, Whole
    <3>. QED
      BY <2>1, <3>4, <3>5 DEF Permitted
  <2>. QED
    BY <2>2, <2>3
<1>. QED
  BY <1>1, InvariantHolds, PTL

\* Whatever mixture of versions an ingestion under way or a failed one leaves, a person with a
\* token has a tier of one of them or is permitted nothing.
THEOREM TiersOnlyAlways == Spec => []TiersOnly
<1>1. IInv => TiersOnly
  BY TiersAreOfVersions DEF IInv, TiersOnly, Permitted, Allows, IsAdmin
<1>. QED
  BY <1>1, InvariantHolds, PTL

\* What a person with a token may do is what some version allows.
OfOneVersion ==
    \A req \in Request : Permitted(req) /\ req.token.sub =>
        \E v \in Version : Allows(Whole(v), req)

\* As long as versions differ in their data only, not in the module's list of actions, every
\* decision on a token is one of a whole version, also in the middle of an ingestion.
THEOREM DataChangesAtOnce ==
    ASSUME \A v, w \in Version : v.actions = w.actions
    PROVE  Spec => []OfOneVersion
<1>1. IInv => OfOneVersion
  <2>. SUFFICES ASSUME IInv, NEW req \in Request, Permitted(req), req.token.sub
                PROVE  \E v \in Version : Allows(Whole(v), req)
    BY DEF OfOneVersion
  <2>1. PICK m \in opa.module :
           \/ HasTier(opa, "admin", req.token)
           \/ req.action \in m.actions /\ HasTier(opa, "user", req.token)
    BY DEF Permitted, Allows, IsAdmin
  <2>2. m \in Version
    BY DEF IInv, TypeOK
  <2>3. PICK tier \in {"admin", "user"} :
           HasTier(opa, tier, req.token) /\ (tier = "user" => req.action \in m.actions)
    BY <2>1
  <2>4. PICK v \in Version : v \in opa.odrl /\ Permits(v.odrl, tier, req.token)
    BY <2>3, TiersAreOfVersions DEF IInv
  <2>5. HasTier(Whole(v), tier, req.token) /\ v \in Whole(v).module
    BY <2>4 DEF HasTier, Whole
  <2>6. tier = "user" => req.action \in v.actions
    BY <2>2, <2>3
  <2>7. Allows(Whole(v), req)
    BY <2>3, <2>5, <2>6 DEF Allows, IsAdmin
  <2>. QED
    BY <2>7
<1>. QED
  BY <1>1, InvariantHolds, PTL

==============================================================================
