-------------------------------- MODULE Authz --------------------------------
(***************************************************************************)
(* Who may do what in Rucio: the decision of OPA (src/configs/opa/) on what *)
(* permission.py sends it, and the ingestion of the policy into a running   *)
(* OPA (src/scripts/ingest_policies.py).  OPA keeps in memory what it is    *)
(* given; only the evaluator of ODRL policies is there from the start.      *)
(*                                                                         *)
(* A field that may be missing is a set of at most one value.  Left out:    *)
(* what OPA logs, the evaluator's validation of policies, which authz.rego  *)
(* does not ask for, and the switches nothing sets (data.override,          *)
(* data.dep.policies, rucio_target).                                        *)
(***************************************************************************)

CONSTANTS
    Account, Root,   \* Root: the default of admin_accounts
    Action,
    Entitlement, Acr,
    Target, Rucio,   \* what policies are about; Rucio: _rucio_target
    Version          \* of the policy files, any of which may be given to the script

VARIABLES
    opa,             \* what OPA has loaded
    script           \* the ingestion under way, or the last one

vars == <<opa, script>>

--------------------------------------------------------------------------------
(* Policies and requests                                                   *)

Operand == {"acr", "entitlement", "entitlements", "other"}
Constraint == [left : Operand, eq : BOOLEAN, right : Acr \cup Entitlement]
Rule == [action : SUBSET {"admin", "user"}, target : SUBSET Target,
         assignee : SUBSET Entitlement, constraint : SUBSET Constraint]
Policy == [permission : SUBSET Rule, prohibition : SUBSET Rule]

\* The module's list of actions, the script's list of accounts, the file of policies.
PolicyFiles == [actions : SUBSET Action, admins : SUBSET Account, odrl : SUBSET Policy]

\* A login by password has no claims; a JWT that Rucio accepts has a sub.
Token == [sub : BOOLEAN, entitlements : SUBSET Entitlement, acr : SUBSET Acr]
NoClaims == [sub |-> FALSE, entitlements |-> {}, acr |-> {}]
Request == [account : Account, action : Action, token : {t \in Token : t.sub} \cup {NoClaims}]

--------------------------------------------------------------------------------
(* The evaluator of ODRL policies                                          *)

Holds(c, token) ==
    /\ c.eq
    /\ \/ c.left = "acr" /\ c.right \in token.acr
       \/ c.left \in {"entitlement", "entitlements"} /\ c.right \in token.entitlements

\* A field a rule does not have matches everything.
RuleMatched(rule, tier, token) ==
    /\ rule.action \in {{}, {tier}}
    /\ rule.target \in {{}, {Rucio}}
    /\ rule.assignee = {} \/ rule.assignee \cap token.entitlements # {}
    /\ \A c \in rule.constraint : Holds(c, token)

\* One permission is enough, one prohibition too much.
Permits(odrl, tier, token) ==
    /\ \E policy \in odrl : \E rule \in policy.permission : RuleMatched(rule, tier, token)
    /\ ~ \E policy \in odrl : \E rule \in policy.prohibition : RuleMatched(rule, tier, token)

--------------------------------------------------------------------------------
(* The decision                                                            *)

AdminAccounts(o) == IF o.data = {} THEN {Root} ELSE UNION {v.admins : v \in o.data}

HasTier(o, tier, token) == o.evaluator /\ \E v \in o.odrl : Permits(v.odrl, tier, token)

\* A mutation: a listed account is an administrator with whatever token.
MutIsAdmin(o, req) ==
    \/ req.account \in AdminAccounts(o)
    \/ HasTier(o, "admin", req.token)

IsAdmin(o, req) ==
    \/ req.account \in AdminAccounts(o) /\ ~req.token.sub
    \/ HasTier(o, "admin", req.token)

\* Without a module the answer has no result, which query_opa takes for a denial.
Allows(o, req) ==
    \E v \in o.module :
        \/ IsAdmin(o, req)
        \/ req.action \in v.actions /\ HasTier(o, "user", req.token)

\* has_permission: no answer is a denial, too.
Permitted(req) == opa.up /\ Allows(opa, req)

\* The shape of the file of policies: groups of operators, who need a second factor, and of
\* users.
TierRule(tier, group, constraint) ==
    [action |-> {tier}, target |-> {Rucio}, assignee |-> {group}, constraint |-> constraint]

TierPolicy(operators, users, mfa) ==
    {[permission |->
         {TierRule("admin", g, {[left |-> "acr", eq |-> TRUE, right |-> mfa]}) : g \in operators}
         \cup {TierRule("user", g, {}) : g \in users},
      prohibition |-> {}]}

\* What a version means, where it has been loaded as a whole.
Whole(v) == [up |-> TRUE, evaluator |-> TRUE, module |-> {v}, data |-> {v}, odrl |-> {v}]

--------------------------------------------------------------------------------
(* OPA and the script                                                      *)

EmptyOpa(up, evaluator) ==
    [up |-> up, evaluator |-> evaluator, module |-> {}, data |-> {}, odrl |-> {}]

OpaStops == opa.up /\ opa' = [opa EXCEPT !.up = FALSE] /\ UNCHANGED script

\* The evaluator may be missing from what OPA is started with.
OpaStarts ==
    /\ ~opa.up
    /\ \E evaluator \in BOOLEAN : opa' = EmptyOpa(TRUE, evaluator)
    /\ UNCHANGED script

UnderWay == {"checking", "module", "data", "odrl", "cleanup"}

\* One ingestion at a time: it is a job of the deployment, or run by hand.
Begin(v) ==
    /\ script.at \notin UnderWay
    /\ script' = [at |-> "checking", version |-> {v}]
    /\ UNCHANGED opa

Goes(from, to) ==
    opa.up /\ script.at = from /\ script' = [script EXCEPT !.at = to]

\* health_check, require_evaluator
Check == opa.evaluator /\ Goes("checking", "module") /\ UNCHANGED opa

\* A mutation: what is put is added to what is there.
MutPut(old) == old \cup script.version
Put(old) == script.version

PutModule == Goes("module", "data") /\ opa' = [opa EXCEPT !.module = Put(@)]
PutData == Goes("data", "odrl") /\ opa' = [opa EXCEPT !.data = Put(@)]
PutOdrl == Goes("odrl", "cleanup") /\ opa' = [opa EXCEPT !.odrl = Put(@)]

\* remove_data: what no module reads any more.
RemoveObsolete == Goes("cleanup", "done") /\ UNCHANGED opa

\* A mutation: the status of an answer is not looked at.
MutFailed == [script EXCEPT !.at = "done"]
Failed == [script EXCEPT !.at = "failed"]

\* No connection, a status that is an error, no answer to what OPA has done: exit(1).
Fail ==
    /\ script.at \in UnderWay
    /\ script' = Failed
    /\ UNCHANGED opa

Init ==
    /\ opa = EmptyOpa(FALSE, FALSE)
    /\ script = [at |-> "none", version |-> {}]

Next ==
    \/ OpaStops \/ OpaStarts
    \/ \E v \in Version : Begin(v)
    \/ Check \/ PutModule \/ PutData \/ PutOdrl \/ RemoveObsolete \/ Fail

Spec == Init /\ [][Next]_vars

--------------------------------------------------------------------------------
(* Properties                                                              *)

\* Types: OPA has at most one module, one list of accounts and one file of policies.
TypeOK ==
    /\ opa \in [up : BOOLEAN, evaluator : BOOLEAN, module : SUBSET Version,
                data : SUBSET Version, odrl : SUBSET Version]
    /\ \A part \in {opa.module, opa.data, opa.odrl} : \A v, w \in part : v = w
    /\ script \in [at : UnderWay \cup {"none", "done", "failed"}, version : SUBSET Version]

\* After a successful ingestion, until the next one, nobody is permitted what the version
\* ingested does not allow, however often OPA has been restarted meanwhile; and where OPA still
\* has a module, everybody is permitted what the version allows.
DoneMeansVersion ==
    script.at = "done" =>
        \A req \in Request :
            LET allowed == \E v \in script.version : Allows(Whole(v), req)
            IN /\ Permitted(req) => allowed
               /\ opa.up /\ opa.evaluator /\ opa.module # {} /\ allowed => Permitted(req)

\* While an ingestion is under way, or has failed, a person with a token may be permitted what
\* a mixture of versions allows; yet never what no version's tiers allow the token at all.
TiersOnly ==
    \A req \in Request : Permitted(req) /\ req.token.sub =>
        \E v \in Version : \E tier \in {"admin", "user"} : Permits(v.odrl, tier, req.token)

==============================================================================
