------------------------------ MODULE RucioTokens ------------------------------
(***************************************************************************)
(* The table "tokens" of Rucio and everything that writes it:              *)
(* src/patches/rucio/oidc.py (authorization code, exchange, refresh,       *)
(* validation of JWTs) and src/patches/rucio/authentication.py (the        *)
(* validation cache, login by password, deletion of expired tokens).       *)
(*                                                                         *)
(* Every query is about one account, so one account is modelled.  Each     *)
(* session is a request served in a database transaction; sessions         *)
(* interleave where they wait for the identity provider (IdP), for a row   *)
(* lock or for the commit.  A SELECT ... FOR UPDATE SKIP LOCKED reads and  *)
(* locks in one step, the writes of a transaction are seen when it commits.*)
(***************************************************************************)
EXTENDS Integers, FiniteSets

CONSTANTS
    Token,            \* token strings; each is issued once
    NoToken,          \* not a token
    Session,          \* requests served at the same time
    NoIssue,          \* a token string nobody has issued yet
    NoRow,            \* a token that is not in the table
    Expected,         \* EXPECTED_OIDC_SCOPE and EXPECTED_OIDC_AUDIENCE, as claims
    Wanted,           \* what operations ask an exchange for: sets of claims
    Offline,          \* the scope offline_access
    Lifetime,         \* of an access token (expires_in)
    RefreshLifetime,  \* of a refresh token, set by the IdP
    ChainLifetime,    \* REFRESH_LIFETIME_H: how long refreshing may go on
    ReuseWindow,      \* the 300 s in which a refreshed token is not refreshed again
    MaxTime,          \* bound of the clock
    MaxFaults         \* bound of the lost answers and failed commits

Claim == {Offline} \cup Expected \cup UNION Wanted

ASSUME ClaimAssumption == /\ Expected # {}
                          /\ Offline \notin Expected
                          /\ \A c \in Wanted : c # {} /\ Offline \notin c
ASSUME TimeAssumption == /\ Lifetime \in Nat \ {0}
                         /\ RefreshLifetime \in Nat
                         /\ ChainLifetime \in Nat
                         /\ ReuseWindow \in Nat
                         /\ MaxTime \in Nat
ASSUME FaultAssumption == MaxFaults \in Nat

VARIABLES
    now,              \* datetime.utcnow()
    issued,           \* what an issued token carries, unchangeable
    row,              \* the table, as committed
    unspent,          \* tokens whose refresh token the IdP still accepts
    cached,           \* tokens with an entry in TOKENREGION
    task,             \* what each session is doing
    faults            \* answers lost and commits failed so far

vars == <<now, issued, row, unspent, cached, task, faults>>

--------------------------------------------------------------------------------
NoTime == -1

\* A token's life is over after exp; origin: the token its chain of refreshes began with,
\* NoToken when Rucio did not get it for the user; no claims: Rucio made it up itself.
Issue == [exp : Nat, claims : SUBSET Claim, origin : Token \cup {NoToken}]

\* refresh: to be refreshed; rt: there is a refresh token; start: of the first refresh;
\* updated: of a row to be refreshed, nothing reads that of another.
Row == [refresh : BOOLEAN, rt : BOOLEAN, rexp : Nat \cup {NoTime},
        start : Nat \cup {NoTime}, updated : Nat \cup {NoTime}]

TaskPc == {"idle", "insert", "commit", "refresh", "stop", "save", "exchange",
           "saveExchanged", "login", "none"}

\* start: extra_dict['refresh_start']; held: the rows locked by the session's transaction.
Task == [pc : TaskPc, token : Token \cup {NoToken}, new : Token \cup {NoToken},
         want : SUBSET Claim, start : Nat, held : SUBSET Token]

ASSUME NamesAssumption == /\ NoToken \notin Token
                          /\ NoIssue \notin Issue
                          /\ NoRow \notin Row

Idle == [pc |-> "idle", token |-> NoToken, new |-> NoToken, want |-> {}, start |-> 0,
         held |-> {}]

TypeOK ==
    /\ now \in 0 .. MaxTime
    /\ issued \in [Token -> Issue \cup {NoIssue}]
    /\ row \in [Token -> Row \cup {NoRow}]
    /\ unspent \in SUBSET Token
    /\ cached \in SUBSET Token
    /\ task \in [Session -> Task]
    /\ faults \in 0 .. MaxFaults

--------------------------------------------------------------------------------
IsRow(t) == row[t] # NoRow

Fresh(t) == issued[t] = NoIssue

\* "expired_at > utcnow()", as the queries have it ...
Unexpired(t) == issued[t].exp > now

\* ... and "lifetime < utcnow()", as the checks of a validation have it.
Over(t) == issued[t].exp < now

Readable(t) == IsRow(t) /\ Unexpired(t)

Locked == UNION {task[s].held : s \in Session}

\* with_for_update(skip_locked=True)
SkipLocked(T) == T \ Locked

\* all_oidc_req_claims_present
Covers(t, claims) == claims \subseteq issued[t].claims

NewIssue(claims, origin) == [exp |-> now + Lifetime, claims |-> claims, origin |-> origin]

\* The exp of the refresh token that was issued with t.
RefreshEnd(t) == issued[t].exp - Lifetime + RefreshLifetime

\* __save_validated_token, without and with a refresh token.
PlainRow == [refresh |-> FALSE, rt |-> FALSE, rexp |-> NoTime, start |-> NoTime,
             updated |-> NoTime]

RefreshableRow(t, start) ==
    [refresh |-> TRUE, rt |-> TRUE, rexp |-> RefreshEnd(t), start |-> start, updated |-> now]

RowOf(t) == IF t \in unspent THEN RefreshableRow(t, NoTime) ELSE PlainRow

MutExpiredEarly(check) ==
    {t \in Token : /\ IsRow(t) /\ issued[t].exp <= now
                   /\ check => row[t].rexp = NoTime \/ row[t].rexp < now}

MutAlsoDeletes(check) ==
    {t \in Token : /\ IsRow(t)
                   /\ \/ Over(t)
                      \/ check /\ row[t].rexp # NoTime /\ row[t].rexp < now}

\* The rows __delete_expired_tokens_account selects.
ExpiredRows(check) ==
    {t \in Token : /\ IsRow(t) /\ Over(t)
                   /\ check => row[t].rexp = NoTime \/ row[t].rexp < now}

\* The table with new inserted and the expired rows of the account deleted.
InsertAndDelete(new, entry, check) ==
    row' = [t \in Token |-> IF t = new THEN entry
                            ELSE IF t \in SkipLocked(ExpiredRows(check)) THEN NoRow
                            ELSE row[t]]

Begin(s, work) == task[s].pc = "idle" /\ task' = [task EXCEPT ![s] = work]

End(s) == task' = [task EXCEPT ![s] = Idle]

\* The transaction of s is rolled back by a failure outside Rucio's control.
Fails(s) ==
    /\ faults < MaxFaults
    /\ faults' = faults + 1
    /\ End(s)

--------------------------------------------------------------------------------
(* validate_auth_token and validate_jwt.                                   *)

\* Answered from the cache: no query at all, and the entry goes when its life is over.
ValidateCached(s, t) ==
    /\ task[s].pc = "idle" /\ t \in cached
    /\ cached' = IF Over(t) THEN cached \ {t} ELSE cached
    /\ UNCHANGED <<now, issued, row, unspent, task, faults>>

\* query_token finds the row: the result is cached.
ValidateKnown(s, t) ==
    /\ task[s].pc = "idle" /\ ~Fresh(t) /\ t \notin cached /\ Readable(t)
    /\ cached' = cached \cup {t}
    /\ UNCHANGED <<now, issued, row, unspent, task, faults>>

\* Users have the tokens Rucio has saved for them and those they got elsewhere.
Presented(t) == ~Fresh(t) /\ (IsRow(t) \/ issued[t].origin = NoToken)

\* What the validation of a JWT demands; a password login's token is not one.
Acceptable(t) == ~Over(t) /\ Covers(t, Expected)

\* CannotAuthenticate
ValidateRefused(s, t) ==
    /\ task[s].pc = "idle" /\ Presented(t)
    /\ t \notin cached /\ ~Readable(t) /\ ~Acceptable(t)
    /\ UNCHANGED vars

\* No row: a JWT of a known issuer with the claims of Rucio is to be inserted.
ValidateForeign(s, t) ==
    /\ Presented(t)
    /\ t \notin cached /\ ~Readable(t) /\ Acceptable(t)
    /\ Begin(s, [Idle EXCEPT !.pc = "insert", !.token = t])
    /\ UNCHANGED <<now, issued, row, unspent, cached, faults>>

\* Inserted and not yet committed: another INSERT of the same key has to wait.
Pending(t) == \E s \in Session : task[s].pc = "commit" /\ task[s].token = t

\* TOKENREGION.set comes before the commit.  Refused when the row is there by now (the
\* INSERT violates the key), or when the life is over (the entry is deleted again).
InsertAndCache(s) ==
    LET t == task[s].token IN
    /\ task[s].pc = "insert" /\ ~Pending(t)
    /\ \/ /\ IsRow(t) \/ Over(t)
          /\ cached' = IF IsRow(t) THEN cached ELSE cached \ {t}
          /\ End(s)
       \/ /\ ~IsRow(t) /\ ~Over(t)
          /\ cached' = cached \cup {t}
          /\ task' = [task EXCEPT ![s].pc = "commit"]
    /\ UNCHANGED <<now, issued, row, unspent, faults>>

CommitValidated(s) ==
    /\ task[s].pc = "commit"
    /\ \/ /\ row' = [row EXCEPT ![task[s].token] = PlainRow]
          /\ End(s)
          /\ UNCHANGED faults
       \/ /\ Fails(s)
          /\ UNCHANGED row
    /\ UNCHANGED <<now, issued, unspent, cached>>

--------------------------------------------------------------------------------
(* refresh_cli_auth_token and __refresh_token_oidc.                        *)

RecentlyUpdated(t) == row[t].updated > now - ReuseWindow

MutStartOfRow(t) == row[t].start

\* extra_dict['refresh_start']
FirstRefresh(t) == IF row[t].start = NoTime THEN now ELSE row[t].start

\* The token is the live end of its chain, and old enough: it is to be refreshed, unless
\* the chain is over.  (In all other cases the answer is this token, a live one or None,
\* and nothing changes.)
BeginRefresh(s, t) ==
    LET start == FirstRefresh(t) IN
    /\ t \in SkipLocked({u \in Token : Readable(u)})
    /\ row[t].rt /\ row[t].refresh /\ ~RecentlyUpdated(t)
    /\ Begin(s, [Idle EXCEPT !.pc = IF now - start > ChainLifetime THEN "stop" ELSE "refresh",
                             !.token = t, !.start = start, !.held = {t}])
    /\ UNCHANGED <<now, issued, row, unspent, cached, faults>>

\* __refresh_token_oidc changes the refresh state and returns None; None is subscripted,
\* and the TypeError rolls the change back.
RefreshTooLate(s) ==
    /\ task[s].pc = "stop"
    /\ End(s)
    /\ UNCHANGED <<now, issued, row, unspent, cached, faults>>

\* The IdP takes a refresh token once, and in its time.
Accepted(t) == t \in unspent /\ now <= RefreshEnd(t)

\* It answers with a new pair.
AskRefresh(s, new) ==
    LET t == task[s].token IN
    /\ task[s].pc = "refresh" /\ Accepted(t)
    /\ Fresh(new)
    /\ issued' = [issued EXCEPT ![new] = NewIssue(issued[t].claims, issued[t].origin)]
    /\ unspent' = (unspent \ {t}) \cup {new}
    /\ task' = [task EXCEPT ![s].pc = "save", ![s].new = new]
    /\ UNCHANGED <<now, row, cached, faults>>

\* CannotAuthorize: the IdP refuses (it may at any time), or its answer is lost.
RefreshRefused(s) ==
    LET t == task[s].token IN
    /\ task[s].pc = "refresh"
    /\ \/ /\ End(s)
          /\ UNCHANGED <<unspent, faults>>
       \/ /\ Accepted(t)
          /\ Fails(s)
          /\ unspent' = unspent \ {t}
    /\ UNCHANGED <<now, issued, row, cached>>

MutNotSuperseded(entry) == entry

\* __change_refresh_state(refresh=False)
Superseded(entry) == [entry EXCEPT !.refresh = FALSE, !.rexp = now, !.updated = NoTime]

MutRestarted(s) == now

\* What extra_dict['refresh_start'] carries to the next token of the chain.
CarriedStart(s) == task[s].start

SaveRefresh(s) ==
    LET t == task[s].token  new == task[s].new IN
    /\ task[s].pc = "save"
    /\ \/ /\ row' = [row EXCEPT ![t] = Superseded(row[t]),
                                ![new] = RefreshableRow(new, CarriedStart(s))]
          /\ End(s)
          /\ UNCHANGED faults
       \/ /\ Fails(s)
          /\ UNCHANGED row
    /\ UNCHANGED <<now, issued, unspent, cached>>

--------------------------------------------------------------------------------
(* get_token_for_account_operation and __exchange_token_oidc.              *)

\* The tokens of the account's OIDC identities as the session sees them: the rows others
\* have locked are left out.
Visible == SkipLocked({t \in Token : Readable(t) /\ issued[t].claims # {}})

\* "No valid token exists", or none with the claims Rucio expects.
ExchangeImpossible(s, want) ==
    /\ ~\E t \in Visible : Covers(t, Expected)
    /\ Begin(s, [Idle EXCEPT !.pc = "none", !.want = want, !.held = Visible])
    /\ UNCHANGED <<now, issued, row, unspent, cached, faults>>

\* The subject: one that is being refreshed, if there is one, else any.
Subjects ==
    LET refreshed == {t \in Visible : Offline \in issued[t].claims /\ row[t].rt}
    IN  IF refreshed # {} THEN refreshed ELSE Visible

\* All rows read stay locked while the IdP is asked.  (A token that has the claims
\* asked for is answered at once, and nothing changes.)
BeginExchange(s, want) ==
    /\ \E t \in Visible : Covers(t, Expected)
    /\ ~\E t \in Visible : Covers(t, want)
    /\ \E t \in Subjects :
          Begin(s, [Idle EXCEPT !.pc = "exchange", !.token = t, !.want = want,
                                !.held = Visible])
    /\ UNCHANGED <<now, issued, row, unspent, cached, faults>>

\* offline_access is asked for when the subject has the scope but no refresh token here.
AskExchange(s, new) ==
    LET t == task[s].token IN
    /\ task[s].pc = "exchange" /\ ~Over(t)
    /\ Fresh(new)
    /\ \E granted \in BOOLEAN :
          /\ granted => Offline \in issued[t].claims /\ ~row[t].rt
          /\ issued' = [issued EXCEPT ![new] = NewIssue(
                           task[s].want \cup IF granted THEN {Offline} ELSE {}, new)]
          /\ unspent' = IF granted THEN unspent \cup {new} ELSE unspent
    /\ task' = [task EXCEPT ![s].pc = "saveExchanged", ![s].new = new]
    /\ UNCHANGED <<now, row, cached, faults>>

\* Any exception of an exchange is logged and answered with None.
ExchangeRefused(s) ==
    /\ task[s].pc = "exchange"
    /\ End(s)
    /\ UNCHANGED <<now, issued, row, unspent, cached, faults>>

SaveExchanged(s) ==
    LET new == task[s].new IN
    /\ task[s].pc = "saveExchanged"
    /\ \/ /\ row' = [row EXCEPT ![new] = RowOf(new)]
          /\ End(s)
          /\ UNCHANGED faults
       \/ /\ Fails(s)
          /\ UNCHANGED row
    /\ UNCHANGED <<now, issued, unspent, cached>>

ReplyNone(s) ==
    /\ task[s].pc = "none"
    /\ End(s)
    /\ UNCHANGED <<now, issued, row, unspent, cached, faults>>

--------------------------------------------------------------------------------
(* Logins: get_token_oidc, and get_auth_token_user_pass and its like.      *)

\* The code is redeemed at the IdP, which grants a refresh token or not.
RedeemCode(s, new) ==
    /\ Fresh(new)
    /\ \E granted \in BOOLEAN :
          /\ issued' = [issued EXCEPT ![new] = NewIssue(
                           Expected \cup IF granted THEN {Offline} ELSE {}, new)]
          /\ unspent' = IF granted THEN unspent \cup {new} ELSE unspent
    /\ Begin(s, [Idle EXCEPT !.pc = "login", !.new = new])
    /\ UNCHANGED <<now, row, cached, faults>>

SaveLogin(s) ==
    LET new == task[s].new IN
    /\ task[s].pc = "login"
    /\ \/ /\ InsertAndDelete(new, RowOf(new), TRUE)
          /\ End(s)
          /\ UNCHANGED faults
       \/ /\ Fails(s)
          /\ UNCHANGED row
    /\ UNCHANGED <<now, issued, unspent, cached>>

\* Not a JWT: a token without claims.  Rows with a live refresh token are deleted too.
LoginPassword(s, new) ==
    /\ task[s].pc = "idle" /\ Fresh(new)
    /\ issued' = [issued EXCEPT ![new] = NewIssue({}, new)]
    /\ InsertAndDelete(new, PlainRow, FALSE)
    /\ UNCHANGED <<now, unspent, cached, task, faults>>

--------------------------------------------------------------------------------
(* What happens around Rucio.                                              *)

\* A user gets a token from the IdP without Rucio.
IssueElsewhere(new) ==
    /\ Fresh(new)
    /\ \E claims \in Wanted \cup {Expected, Expected \cup {Offline}} :
          issued' = [issued EXCEPT ![new] = NewIssue(claims, NoToken)]
    /\ UNCHANGED <<now, row, unspent, cached, task, faults>>

\* 900 s after it was set, or when there is no room, an entry of the cache is gone.
Evict(t) ==
    /\ t \in cached
    /\ cached' = cached \ {t}
    /\ UNCHANGED <<now, issued, row, unspent, task, faults>>

Tick ==
    /\ now < MaxTime
    /\ now' = now + 1
    /\ UNCHANGED <<issued, row, unspent, cached, task, faults>>

--------------------------------------------------------------------------------
Init ==
    /\ now = 0
    /\ issued = [t \in Token |-> NoIssue]
    /\ row = [t \in Token |-> NoRow]
    /\ unspent = {}
    /\ cached = {}
    /\ task = [s \in Session |-> Idle]
    /\ faults = 0

SessionStep(s) ==
    \/ \E t \in Token : \/ ValidateCached(s, t)
                        \/ ValidateKnown(s, t)
                        \/ ValidateRefused(s, t)
                        \/ ValidateForeign(s, t)
                        \/ BeginRefresh(s, t)
                        \/ AskRefresh(s, t)
                        \/ AskExchange(s, t)
                        \/ RedeemCode(s, t)
                        \/ LoginPassword(s, t)
    \/ InsertAndCache(s)
    \/ CommitValidated(s)
    \/ RefreshTooLate(s)
    \/ RefreshRefused(s)
    \/ SaveRefresh(s)
    \/ \E want \in Wanted : ExchangeImpossible(s, want) \/ BeginExchange(s, want)
    \/ ExchangeRefused(s)
    \/ SaveExchanged(s)
    \/ ReplyNone(s)
    \/ SaveLogin(s)

Next ==
    \/ \E s \in Session : SessionStep(s)
    \/ \E t \in Token : IssueElsewhere(t) \/ Evict(t)
    \/ Tick

Spec == Init /\ [][Next]_vars

--------------------------------------------------------------------------------
(* Properties                                                              *)

\* A chain of refreshes has one live end: whatever sessions refresh at the same time,
\* at most one token of a login is left to be refreshed (__change_refresh_state).
OneLiveEnd ==
    \A t, u \in Token :
        /\ IsRow(t) /\ row[t].refresh
        /\ IsRow(u) /\ row[u].refresh
        /\ issued[t].origin = issued[u].origin
        => t = u

\* The live ends the IdP would refuse, not counting one whose successor is being saved.
LostChains ==
    {t \in Token : /\ IsRow(t) /\ row[t].refresh /\ t \notin unspent
                   /\ ~\E s \in Session : task[s].pc = "save" /\ task[s].token = t}

\* Refresh tokens are good for one use, so two sessions must not use one and none may be
\* used without its successor being kept: a chain is lost only to a failure between the
\* answer of the IdP and the commit, and then only that one (__refresh_token_oidc).
EachFailureLosesOneChain == Cardinality(LostChains) <= faults

\* A chain ends: no refresh begins more than ChainLifetime after the life of the token it
\* began with, however often it was refreshed and by whom (refresh_start).
ChainsEnd ==
    [][\A s \in Session : task[s].pc # "refresh" /\ task'[s].pc = "refresh" =>
          now < issued[issued[task'[s].token].origin].exp + ChainLifetime]_vars

\* A validation served from the cache, without a query, is one the table would confirm:
\* the token has a row, or is about to have it, unless a commit failed.
CachedIsKnown ==
    Cardinality({t \in cached : ~Over(t) /\ ~IsRow(t) /\ ~Pending(t)}) <= faults

\* Issued to Rucio by the IdP, and on the way into the table.
BeingSaved(t) ==
    \E s \in Session : /\ task[s].pc \in {"save", "saveExchanged", "login"}
                       /\ task[s].new = t

\* What Rucio got for its users, in its life, and has not kept: there is no row, or one that
\* is not to be refreshed although the IdP would still do it.
MissedTokens ==
    {t \in Token : /\ ~Fresh(t) /\ issued[t].origin # NoToken /\ ~Over(t) /\ ~BeingSaved(t)
                   /\ IsRow(t) => t \in unspent /\ ~row[t].refresh}

\* Users rely on the tokens Rucio got for them, also on one that was refreshed ("keeping it in
\* place until it expires"): sessions that refresh, exchange, log in and delete at the same
\* time keep each until its life is over, and the one whose refresh token is still good as the
\* one to be refreshed.  Each failure loses one at most (__delete_expired_tokens_account).
KeptInLife == Cardinality(MissedTokens) <= faults

\* "we require any other account than admin to have valid OIDC token in the Rucio DB":
\* an exchange is only refused for want of a token when the account has none.
RefusedOnlyWithoutToken ==
    [][\A s \in Session : task[s].pc # "none" /\ task'[s].pc = "none" =>
          ~\E t \in Token : Readable(t) /\ Covers(t, Expected)]_vars
=============================================================================
