# Formal models of dep-dlm-testbed

TLA+ models of the testbed's own program logic, checked with TLC on small
instances and proved with TLAPS for all values of the constants. The testbed
deploys Rucio, FTS3, XRootD, Teapot, Keycloak and OPA; the logic it adds or
changes is in `src/patches/`, `src/configs/opa/` and a few of `src/scripts/`.
Everything else is declarative deployment, or an upstream image.

This file says what the parts of the system are, what is modelled and how the
models correspond to the code, what the runs and the theorems establish, and
what is left. `PROJECT.json` lists the same in machine-readable form: the lines
each definition stands for, the runs, the hazards of the code with the property
that covers each, a mutation for each property, the findings and the theorems.

## 1. The system

### 1.1 Components

| component | source | state it keeps | operations | interacts through |
|---|---|---|---|---|
| **Teapot session manager** | `patches/teapot/teapot.py` | `sw_state` (per user: one of four states), `session_state` (per user: pid, port, last access, active requests), the session store file, one condition, one lock | a WebDAV request (find or start the user's instance, forward, count), the reaper, start-up, shutdown | the process table and ports of the host; tokens issued by the identity provider; called by FTS and Rucio over WebDAV |
| **Rucio OIDC tokens** | `patches/rucio/oidc.py` | tables `tokens` and `oauth_requests`, a token cache, clients per issuer | authorization code flow, exchange, refresh, client credentials, validation of foreign JWTs | the identity provider; the database; used by the transfer tool |
| **Rucio authentication** | `patches/rucio/authentication.py` | table `tokens`, the validation cache | log in by five methods, validate, delete expired tokens | `validate_jwt` of the OIDC module; every REST call |
| **Rucio FTS3 transfer tool** | `patches/rucio/fts3.py` | the request's state and external id; scitags ids | group, submit, poll, receive messages, cancel | FTS over REST; tokens from the OIDC module |
| **Rucio RSE registry** | `patches/rucio/rse.py` | tables of RSEs, attributes, protocols, usage; an attribute cache | add, delete, restore, attributes, protocols | read by the transfer tool and by the daemons |
| **OPA authorisation** | `rucio_opa_v1_policy/`, `configs/opa/*.rego`, `scripts/ingest_policies.py` | the policy and its data in OPA | a decision per Rucio operation; ingestion | Rucio's permission hook; the token's claims |
| **FTS job builder and REST authentication** | `patches/fts/` | job, file and token rows; known token providers; cloud storage credentials | validate and build a job; load the providers; introspect | called by the transfer tool; the FTS server reads the rows |
| **Init and bootstrap** | `scripts/*.sh`, `scripts/rucio/bootstrap-db.py` | accounts, RSEs and seeded tokens | linear, re-runnable steps | all of the above |

A transfer goes through them in this order: a user authenticates (validation,
perhaps exchange), Rucio asks OPA, the transfer tool obtains tokens for both
storages and submits to FTS, FTS validates the job and copies between XRootD and
Teapot, and Teapot starts the user's StoRM-WebDAV instance when the first
request arrives.

### 1.2 What is hard, and what makes each part correct

* **Teapot** is one asyncio process with many interleaved requests, a reaper, two
  locks, external processes it can lose sight of and a state file that has to
  survive kills. Correct means: one start per user at a time; the two tables
  agree; the file agrees with the table; the reaper stops what is idle and only
  that; whoever waits is woken; a request reaches its own user's instance.
* **Rucio tokens**: rows are read with `SKIP LOCKED`, refresh tokens are good for
  one use, validation results are cached beyond the life of their row, and every
  call to the identity provider can fail half-way. Correct means: no expired
  token is used or served, a refresh chain has one live end, concurrent
  operations do not lose it, a token is kept until its life is over.
* **Transfer tool and job builder**: status reports arrive out of order and
  twice, a submission may have succeeded although its answer was lost, checksum
  strategies are folded over hops. Correct means: a final state is never undone
  by a late report, a lost answer never submits twice, no hop is asked to verify
  what it cannot.
* **Registry, OPA**: stale caches, partial ingestion, and a decision that must
  never be more generous than the tier policy.

## 2. Plan

In order of importance. Steps 1 to 4 are there, with what each still lacks.

1. **Teapot** (`InstanceLifecycle`, `Teapot`, `TeapotProofs`,
   `TeapotInstanceProofs`; section 3). Every safety property of its passing runs
   is a theorem.
2. **Rucio tokens** (`RucioTokens`, `RucioTokensProofs`,
   `RucioTokensFaultsProofs`; section 4). So is every property here. To come: an
   abstract specification `RefreshChain` (one live end, one use per refresh
   token); the requests for authorization, and client credentials with their
   cache.
3. **FTS** (`FtsJob` for what is submitted and what is refused, `FtsTransfers`
   for what happens to it, `RequestLifecycle` for what is promised,
   `FtsJobProofs`, `FtsTransfersProofs`; section 5). Every safety property of its
   passing run is a theorem. To come: the REST authentication of FTS with its
   providers.
4. **Registry and authorisation** (`RseRegistry`, `RseRegistryProofs`, section 6;
   `Authz`, `AuthzProofs`, section 7). To come: administrators whose transactions
   overlap.
5. **Composition**: token, decision, submission and Teapot in one module on the
   smallest instance, for the end-to-end promise of a transfer.

The modules of the steps are independent of one another; `FtsTransfers` is
composed of `FtsJob` (EXTENDS), and implements `RequestLifecycle` as `Teapot`
implements `InstanceLifecycle` (INSTANCE).

## 3. Teapot

### 3.1 Modules

| module | role |
|---|---|
| `InstanceLifecycle.tla` | what is promised of each user's instance: four phases in one cyclic order, one owner of a start, no process id advertised while stopping |
| `Teapot.tla` | the session manager; ends with the properties and the refinement mapping |
| `MCTeapot.tla`, `MCTeapot*.cfg` | symmetry and constants for TLC |
| `TeapotProofs.tla` | the inductive invariant and the first theorems |
| `TeapotInstanceProofs.tla` | on top of it: process ids, counts, and the refinement of `InstanceLifecycle` |

### 3.2 State

| variable | code |
|---|---|
| `sw` | `sw_state`; "ABSENT" is a user without a key, which matters after a restart |
| `session` | `app.state.session_state`: pid, port and `active_requests` of the entry, or `NoSession` |
| `store` | the file `SESSION_STORE_PATH`: missing, complete with its data, or torn |
| `waiters` | the queue inside `sw_condition`, in the order of arrival, which is the order `notify()` wakes |
| `pc`, `local` | where each request is in `root` and `storm_webdav_state`; its `user`, `port`, `pid` and `loops` |
| `sweep` | the reaper's and the shutdown's walk over the users, and how far `_stop_webdav_instance` is |
| `due` | the users whose `last_accessed` is too old in this pass of the reaper. Time is abstracted to this: at the start of a pass any set of users with sessions may be due; whoever is touched meanwhile is taken out |
| `mode`, `reaperAlive` | the lifespan of the Teapot process, and whether the reaper task has died of an exception |
| `proc` | the StoRM-WebDAV processes of the host, which outlive Teapot |

A request is a slot that serves one HTTP request after another. Its `user` is
nondeterministic: token verification and identity mapping are abstracted to
their outcome, and a mapping that returns `None` is the user `NoUser`. (Tokens
that are refused change no state.)

### 3.3 Actions and their grain

asyncio switches tasks only at an `await` that suspends. `sw_state` is only
touched inside `async with sw_condition`, `session_state` only inside
`async with state_lock`, and `state_lock` is taken alone or inside
`sw_condition`, never the other way round. A section of both locks is one
action: a task that runs between its write of `sw_state` and its write of
`session_state` cannot see the first one (it would need the condition), so the
section takes effect at its second write. `save_session_state` writes the file
synchronously before the lock is released, so it belongs to the action; the kill
in the middle of it is the fault "torn".

| action | code (`teapot.py`) |
|---|---|
| `Arrive`, `Assess` | `root` up to `storm_webdav_state`; the loop under the condition 942-986, with its single `notify` |
| `FindPort` | `_find_usable_port_no`, `_test_port`, then `_start_webdav_instance` up to its sleep: no port (OverflowError), no user, a failure of the directories or the environment, or a process |
| `Locate` | `_get_proc` after the sleep: any process with the user's tmpdir on its command line, or RuntimeError |
| `Probe`, `GiveUp`, `Publish` | the readiness loop 1025-1065, the give-up path 1029-1042 and the publication 1067-1093 |
| `Reject`, `StartFailed`, `StartRaises` | the other ends of a start; the last two are failures that are and are not handled |
| `Lookup` | the port of an instance somebody else started, 1095-1104 |
| `Forward`, `SendFails`, `Respond`, `Complete`, `Leak` | `root` 1304-1387: count, send, stream, take the count back; `Leak` is the path that does not take it back |
| `Wake`, `Scan` | one pass of `stop_expired_instances`; the check under the lock is separate from the stop |
| `Stop`, `StopDone`, `StopRaises` | `_stop_webdav_instance` before and after `sudo kill`, and its KeyError |
| `BeginShutdown`, `ShutdownNext`, `EndShutdown` | the part of `lifespan` after `yield`; uvicorn drains the requests first |
| `Start`, `Crash` | `load_session_state`; Teapot killed |
| `Boot`, `Exit` | (outside the repository) an instance binds its port or finds it taken; a process ends |

The finding of a process by command line (`_get_proc`), the choice of a port by
what sessions and sockets say at the moment, and the readiness probe that
accepts an answer from whoever listens are modelled as what they do, not what
they are for; three of the findings come from there.

Left out because no property depends on it: header and body rewriting, the
contents of directories and environment files, logging, TLS, the wording of
errors, `created_at`. `RESTART` (176-178) is read from the configuration and
never used.

### 3.4 Runs

Constants are the same in all runs but for those named: ports 1..3 (1..2 in
`teapot_serve`), a readiness loop of one retry, two process ids. `Faults` says
what the environment may do: "abort" (a start ends in an exception nothing handles),
"leak" (the response of an instance breaks off), "die" (an instance ends by
itself), "crash" (Teapot is killed) and "torn" (in the middle of a save).

| run | instance | checks | size |
|---|---|---|---|
| `teapot_serve` | 2 users, 2 requests, abort | `TypeOK`, `OneStarter`, `SessionMatchesState`, `CountsOnlyRequestsInFlight`, `SessionPidIsOwn`, `ImplementsLifecycle` | 634 326 states, 1.5 min |
| `teapot_crash` | 1 user and `NoUser`, 2 requests, all faults | `SessionMatchesState`, `StoreIsCurrent`, `ImplementsLifecycle` | 534 377 states, 1.5 min |
| `teapot_live` | 1 user, 2 requests, abort and die, fair | `EveryStartEnds`, `AbandonedInstanceReaped` | 163 821 states, 1.5 min |
| `teapot_shutdown` | 1 user, 1 request, crash | `ShutdownLeavesNothing` is violated | - |
| `teapot_proxy` | 2 users, 2 requests, no faults | `ProxiesToOwnInstance` is violated | - |
| `teapot_wake` | 1 user, 3 requests, fair, no faults | `EveryWaiterIsWoken` is violated | - |

*Why the bounds are enough.* Users interact only through ports, process ids and
the one condition, so two users show every kind of interference and two requests
every race of two tasks; a third request (run `teapot_wake`) is needed only to
have two waiters and one who works. Two process ids allow an old instance still terminating
beside the new one, and running out. The ports are exhausted within a run, so
the overflow path happens. One retry distinguishes "not yet", "in time" and "too
late". Symmetry is used for safety only: request slots, processes and users are
interchangeable (`NoUser` is not).

*What the faults do to the claims.* `CountsOnlyRequestsInFlight` is claimed
without "leak" and without kills: a broken response and the counts a restart
reads from the file do leave the count too high, and the code has nothing to
repair it. `AbandonedInstanceReaped` likewise, and with the reaper alive (a KeyError in it,
possible only after a restart, ends it for good). `teapot_serve` includes clean
shutdowns and restarts. `teapot_crash` turns deadlock checking off because a torn
file stops the system for ever (mode "broken").

### 3.5 Fairness

`FairSpec` assumes weak fairness of each request's next step, the failures
`StartRaises` and `Leak` excepted (`RequestProgress`: the event loop
runs every task that is ready, and every await in a start is bounded by a
timeout or a sleep; a client or an instance ends its side of a response) and of
the reaper's step, and strong fairness of a pass of the reaper that finds
every session old (`WakeLate`): the reaper wakes for ever and time passes. A
pass that finds a session old and untouched is then bound to happen when
nobody touches it; requests that go on touching it are not prevented. Nothing
is assumed about arrivals, the processes of the host, or that a waiting request is
ever notified. Under the last point `EveryWaiterIsWoken` is a question to the
code, and the answer is no.

### 3.6 What the runs found

1. **A shutdown after a restart stops nothing.** `_stop_webdav_instance` reads
   `state[username]` (line 626) of the `sw_state` that a restart left empty,
   while `load_session_state` brought the sessions back. The KeyError ends
   `lifespan` before the other instances and the store are dealt with, and in
   the reaper it ends the reaper task.
2. **Two users' instances on one port.** The port of a start is not entered in
   a session until the instance answers (line 989 to 1070). Two starts choose
   the same; the one whose process lost the bind gets the probe answered by the
   other user's instance, and forwards its requests there.
3. **A waiting request is not woken.** One condition and `notify()` of one
   waiter: a woken request that finds its user RUNNING wakes nobody else, a
   waiter of another user takes the wake-up in vain, and the give-up path (1035) does not
   notify at all.

Met while modelling, and within the models, but with no run of their own:
`notify` in `Assess` wakes a waiter that cannot go on; `GiveUp` leaves the
process running; a start that ends in an unhandled exception, and a kill of
a process already gone, leave STARTING or STOPPING for ever. A kill in the
middle of a save leaves a session store on which Teapot does not start again
(mode "broken"): `json.load` (835) is not guarded, contrary to its docstring.

### 3.7 What is proved

`TeapotProofs.tla`, for every set of users, requests and processes, every
starting port, largest port and timeout, and every combination of faults:

| theorem | statement |
|---|---|
| `TeapotTypeCorrect` | `Spec => []TypeOK` |
| `TeapotOneStarter` | `Spec => []OneStarter` |
| `TeapotSessionMatchesState` | `Spec => []SessionMatchesState` |
| `TeapotStoreIsCurrent` | `Spec => []StoreIsCurrent` |

Assumptions: those `Teapot.tla` names (a starting port of at least 1, a natural
number of retries, the "none" values are not members of the sets they stand
beside, the fault names).

None of the four is inductive. `IInv` adds what they lean on:

* `UsersKnown`: a task under way has a user. Needed for everything that reads a
  table at `Me(r)`.
* `QueueOfWaiting`: the queue of the condition holds requests at the label
  "waiting", each once. Without it a notify could move a request that owns a
  start back to "assess", and both `OneStarter` and `SessionMatchesState` fail.
* `NothingWhileDown`: outside serving and shutdown there are no tasks and all
  states are ABSENT. Needed because `Start` installs a session table without
  looking at the states.
* `StarterHasInstance`: from the readiness loop on, the starter has a pid, and
  at the publication a port greater than 0 (a process listening on port 0 is
  known under another number). `Publish` makes `SessionMatchesState` depend on
  the locals of the request.
* `OneStarter` itself is needed for `SessionMatchesState`: the entry a failing
  or a late starter writes would otherwise overwrite the one of a RUNNING
  instance.

The case split over `Next` is made once (`NextLemma`): requests' steps
(`RequestStepLemma` says what each leaves alone), the two halves of a stop
(`StopStepLemma`), the choices of a walk (`ChoosingLemma`), the ends of the
process (`LeavingLemma`) and a few single actions. Each part of `IInv` has a lemma that
uses it.

`TeapotInstanceProofs.tla` builds on `IInv`:

| theorem | statement | assumed beside the above |
|---|---|---|
| `TeapotSessionPidIsOwn` | `Spec => []SessionPidIsOwn` | nothing |
| `TeapotCountsOnlyRequestsInFlight` | `Spec => []CountsOnlyRequestsInFlight` | no "leak", no "crash" in `Faults` |
| `TeapotImplementsLifecycle` | `Spec => ImplementsLifecycle` | nothing |

* **Process ids.** A process id is remembered in three places: the session, the
  store, and the variables of the request that located it. `OwnPids` says of all
  three that what they name is a process of that user or none any more. It
  rests on `_get_proc` searching for the user's own directory, and on the host not
  handing out an id that is still remembered (`FreshPid`, part of the model of
  the host). `IdleForgets` is the lemma's small companion: a finished request
  names nothing.
* **Counts.** `CountInv` compares each count with the finite set of the user's
  requests in flight, and follows it through the restart: a shutdown begins when no
  request is left, so the store counts none. The two hypotheses are needed, as
  said in 3.4. Removing a session while its requests are under way is
  harmless, since the counting stops at zero.
* **Refinement.** `InitImplements` and `NextImplements` show that the initial
  states map to initial states and that each step maps to a step of
  `InstanceLifecycle` or leaves the mapped variables alone. The mapping is per user, so
  each concrete step is shown to be one abstract action at one user
  (`ClaimLemma` to `ReloadLemma`) and to leave the others the `Same`. Beyond `IInv` it
  needs one more invariant, `NoneHasNoProcess`: a request whose identity maps to
  no user never gets past "reject", so that user never advertises a process.

Only liveness (`EveryStartEnds`, `AbandonedInstanceReaped`) is left to TLC.

## 4. Rucio's tokens

### 4.1 The model

`RucioTokens.tla` is the table `tokens` as the patched `oidc.py` and
`authentication.py` write it. Every query names one account, so one account is
modelled, with the OIDC identities it has at one issuer. `MCRucioTokens.tla` has
the symmetry, the `.cfg` files the constants.

| variable | code |
|---|---|
| `issued` | what a token carries from its issue on: its `exp`, its scopes and audiences (as a set of claims), and the first token of the chain of refreshes it belongs to. A token from a password login has no claims, one the user got elsewhere no chain |
| `row` | the rows, as committed: `refresh`, whether there is a `refresh_token`, `refresh_expired_at`, `refresh_start`, and `updated_at` where it is read |
| `unspent` | at the identity provider: the refresh tokens it still takes, named by the access token they came with |
| `cached` | the keys of `TOKENREGION`; what is cached is a function of the token |
| `task` | each session's request: where it is, its tokens, its `refresh_start`, the rows it has locked |
| `now`, `faults` | the clock, and the failures so far |

A session switches where the code waits: for the identity provider, for a lock or
for the commit. A `SELECT ... FOR UPDATE SKIP LOCKED` reads and locks in one step;
the writes of a transaction are seen when it commits, and an `INSERT` of a key
another transaction has inserted waits for that one. The decorator
`transactional_session` and these rules of the database are not in the
repository; they are modelled from how its code relies on them.

| action | code |
|---|---|
| `ValidateCached`, `ValidateKnown`, `ValidateRefused`, `ValidateForeign` | `validate_auth_token` by what it finds: an entry in the cache, a row, nothing acceptable, a JWT to be validated |
| `InsertAndCache`, `CommitValidated` | the end of `validate_jwt`; the cache is written before the commit, which may fail |
| `BeginRefresh`, `RefreshTooLate`, `AskRefresh`, `RefreshRefused`, `SaveRefresh` | `refresh_cli_auth_token` and `__refresh_token_oidc`, with `__change_refresh_state` |
| `ExchangeImpossible`, `ReplyNone`, `BeginExchange`, `AskExchange`, `ExchangeRefused`, `SaveExchanged` | `get_token_for_account_operation` for a user (`admin=False`) and `__exchange_token_oidc` |
| `RedeemCode`, `SaveLogin` | `get_token_oidc`, with the deletion of expired tokens |
| `LoginPassword` | `get_auth_token_user_pass`; the logins by x509, gss and ssh write the table in the same way |
| `IssueElsewhere`, `Evict`, `Tick` | (outside) the identity provider, the end of a cache entry, time |

Answers that change nothing (a token just refreshed, one whose claims suffice) are
stuttering steps and not spelled out, except for the refusal of a validation.
Left out: the requests for authorization and their fetch codes, client
credentials, the admin account's tokens, the issuer's capabilities (`resource`
or `audience`), discovery.

### 4.2 Runs

Three tokens, two sessions, a clock of 0..2, one fault, one storage whose claims
an exchange asks for; an access token lives for one tick, a refresh token for
two, and refreshing is allowed in the tick it began (`ChainLifetime = 0`).

| run | checks | size |
|---|---|---|
| `rucio_tokens` | `TypeOK`, `OneLiveEnd`, `EachFailureLosesOneChain`, `CachedIsKnown`, `KeptInLife`, `ChainsEnd` | 1 601 838 states, 2 min |
| `rucio_refusal` | `RefusedOnlyWithoutToken` is violated | - |

`KeptInLife` says what users rely on: the tokens Rucio got for them, by a refresh,
an exchange or a login, are in the table until their life is over, also those
that have been refreshed meanwhile, and the one with a good refresh token is the
one that will be refreshed. It counts what is missing (`MissedTokens`) and allows
one for each failure. A deletion by another session, or the superseding of a
token whose refresh was not saved, could violate it; so would the deletion the
docstring describes (4.3), since a token that has been refreshed has its
refresh token marked as expired.

*Why the bounds are enough.* Two sessions show every race for a row, a key or a
refresh token. Three tokens make a chain of two refreshes, or a chain and a
token beside it. In two ticks a token is issued, ends, and is past its end, and
the comparisons with `>` and `<` differ in the middle one. `ReuseWindow = 0` makes
the five minutes shorter than a tick: the window only puts refreshes off, so no
behaviour is lost. Deadlock is checked: no session waits for ever on another.

### 4.3 What the runs found

1. **An exchange is refused for want of a token the account has.** All of the
   account's rows are locked while one exchange waits for the identity provider;
   a second one skips them (line 922), sees none and answers `None`.

Met while modelling: a chain whose time is over is never switched off, although a
comment says so (1359). The `None` of `__refresh_token_oidc` is subscripted
(1298) and the `TypeError` rolls the switch back (`RefreshTooLate`).
`check_refresh_token` "also deletes tokens where the refresh token (if it exists) has
expired", says the docstring (`authentication.py` 549), but the code ANDs the two
conditions (558), so a login by OIDC, which sets the option, leaves expired rows; a
login by password, for which it is False, deletes expired rows whose refresh token
is still good; of two requests that bring the same new JWT at once one is refused;
the cache may answer for a token
whose row was never committed, which is why `CachedIsKnown`, like
`EachFailureLosesOneChain` and `KeptInLife`, allows one case for each failure, and
no more.

### 4.4 What is proved

`RucioTokensProofs.tla`, for every set of tokens and sessions, all lifetimes, any
end of the clock and any number of faults:

| theorem | statement |
|---|---|
| `RucioTokensTypeCorrect` | `Spec => []TypeOK` |
| `RucioTokensOneLiveEnd` | `Spec => []OneLiveEnd` |
| `RucioTokensChainsEnd` | `Spec => ChainsEnd` |

Assumptions: those `RucioTokens.tla` names (Rucio expects some claim, operations
ask for some, `offline_access` is not one of them, access tokens live for at least
one tick, the "none" values are not members of the sets they stand beside).

The inductive invariant `IInv` (which TLC finds to hold in the instance of
`rucio_tokens`) adds to `TypeOK` and `OneLiveEnd`:

* `IssuedOK`: rows are of issued tokens, and chains begin with issued tokens, so a
  fresh token begins a chain no row is in.
* `LiveRows`: a live row began its chain or carries a start that lies in the life
  of the token that did. `ChainsEnd` rests on it.
* `TasksFit`: what each session may rely on after it has waited: a refresh holds
  the lock of a row that is still live; a token that is not saved yet has no row,
  and when it begins a chain nobody else is in it; a validation that commits is
  of a token Rucio did not get itself.
* `TasksApart`: two sessions have locked different rows and are going to add
  different ones. Without it a session's write could destroy what another one
  relies on.

A step is a move of one session: `FitsLemma` and `MoveLemma` say once when the
others' tasks go on fitting, and the lemmas of the actions show that their own
does.

`RucioTokensFaultsProofs.tla` proves the three properties that count, without a
further assumption (there may be infinitely many tokens):

| theorem | statement |
|---|---|
| `RucioTokensEachFailureLosesOneChain` | `Spec => []EachFailureLosesOneChain` |
| `RucioTokensCachedIsKnown` | `Spec => []CachedIsKnown` |
| `RucioTokensKeptInLife` | `Spec => []KeptInLife` |

All three compare the size of a set with the number of failures. `GrowthLemma` and
`NoGrowthLemma` say when such a comparison survives a step: the set gains one
member at most and `faults` goes up, or it gains none. The invariants `LossInv`,
`CacheInv` and `KeptInv` add to the property that the set is finite, and what its
members depend on:

* a token that is being saved is still good for a refresh (`SavedIsUnspent`), since
  nobody can spend one that is not in the table yet. So what a commit makes live
  is not lost, and only a refresh whose answer or whose commit fails adds to
  `LostChains`;
* what is in the cache has been issued, and it got there with its row or with the
  `INSERT` of it, so only the failure of that commit adds to `UnknownTokens`;
  rows of tokens that are not over stay (`RowsLemma`);
* a token whose successor is being saved is spent (`UsedIsSpent`), and a refresh
  token appears only with the token it is issued with (`UnspentKnown`). So the row a
  refresh supersedes is not one the IdP would still refresh, a token that was kept is
  kept (`KeptLemma`), and only a commit of a token that fails adds it to
  `MissedTokens` (`MissLemma`).

All properties of `rucio_tokens` are thereby theorems.

## 5. FTS: the transfer tool and the job builder

### 5.1 Modules

| module | role |
|---|---|
| `RequestLifecycle.tla` | what is promised of each transfer: given to FTS once per attempt, no result reversed, another attempt only after one that failed or got lost |
| `FtsJob.tla` | without state: from paths to jobs (`fts3.py`), and what `JobBuilder.py` refuses and builds |
| `FtsTransfers.tla` | the requests, submissions, jobs and copies; ends with the properties and the refinement mapping |
| `MCFtsTransfers.tla`, `MCFts*.cfg` | storages, paths and configurations for TLC |
| `FtsJobProofs.tla` | facts about `FtsJob` for all storages |
| `FtsTransfersProofs.tla` | on top of them: the inductive invariants of `FtsTransfers` and the theorems |

`FtsJob` holds the decisions: the strategy of a hop and of a path
(`HopStrategy`, `Merged`, `PathStrategy`), the checksum of each file (`Picked`), the server
(`Server`, `Submittable`), the parameters of a job (`JobParams`), the grouping
(`GroupKey`, `Jobs`: `bulk_group_transfers` with its sizes), the files with their
token lists (`FileOf`, `Submissions`), and, at FTS, what is a `BadRequest`
(`Refused`, from tokens, claims, flags and the type of the job), the type and flag of the job
(`JobType`, `OverwriteFlag`) and its rows (`FileRows`, `Built`). Token lists are
modelled by their lengths, which is what the job builder compares. The
attributes of a storage are a record `Rse` with the defaults filled in.

### 5.2 State and actions of `FtsTransfers`

| variable | code |
|---|---|
| `setup` | one configuration: the paths to submit, the options of the tool and of FTS, what the destinations hold at first, how many faults may happen |
| `row` | the latest request of each transfer: its attempt, `state`, `external_id` and the `overwrite` of its attributes |
| `post` | the submissions, by the request whose id the deterministic job id is derived from: sent, made, refused or dropped; whether the tool still waits; whether it knows the id to expect |
| `job` | the jobs at FTS with the states of their files |
| `dest` | what lies at each destination, and whether it is on tape |
| `poll` | what `bulk_query` has read and not yet applied: the rows first, then the answer |

| action | code |
|---|---|
| `Submit`, `NoStorageToken` | `bulk_group_transfers` and `submit` up to the POST; tokens that cannot be had, and a `whoami` that fails |
| `Answered`, `Unanswered`, `TimesOut` | the end of `submit`: 200, anything else or no answer with or without an expected id, `ReadTimeout` |
| `SubmitterDies` | the submitter is killed with its requests SUBMITTING |
| `Arrive` | `JobBuilder`: refused, or the job with its rows |
| `CopyFile`, `CopyFails`, `ToTape`, `ArchivingEnds` | (outside) the FTS server and the tape system |
| `Receive` | `FTS3CompletionMessageTransferStatusReport`, on a message that is late, repeated or out of order |
| `PollRows`, `PollJob`, `PollApplied` | `bulk_query` and `FTS3ApiTransferStatusReport` |
| `Cancel` | `cancel` |
| `Finish` | (outside) the finisher: archive the requests of a path, or queue new ones |

Rucio's daemons and the table of requests are not in the repository; they are
modelled from what `fts3.py` hands to them and reads back: requests are taken in
state QUEUED, a report is applied only to a request whose `external_id` is the
job's and whose state differs, results are for requests that are not archived.
The poller is slower than a submission, so it does not ask for a job that is
still on its way.

### 5.3 Runs

| run | instance | checks | size |
|---|---|---|---|
| `fts_transfers` | twelve setups, 2 transfers, 2 attempts each, up to 2 faults, fair | `TypeOK`, `LiveJobsAreFollowed`, `DoneMeansThere`, `ChecksAreSupported`, `RefusedForCause`, `TapeCopyKept`, `ImplementsLifecycle`, `EveryRequestEnds` | 139 000 states, 2.5 min |
| `fts_multisource` | replicas with the message queue | `MultiSourceWaits` is violated | - |

The setups are the kinds of job and of storage the code tells apart: two files in
bulk to a tape; a single file under every failure, with deterministic ids and
without; replicas; two hops of which the middle storage verifies nothing; a
path whose second hop has no FTS server; storages with keys instead of tokens, as
source, on both sides and beside one with tokens; a tape whose buffer may be
overwritten; a tape without a limit for archiving, staged from another, without
tokens; and two jobs FTS refuses: replicas as the source of the first of two hops,
and a tape whose buffer may be overwritten, reached by `root`. Each
comes with the contents of the destinations that matter to it.

*Why the bounds are enough.* Transfers meet only in a job or a path, and two are
enough for either. Two attempts make a retry whose reports may be confused with
those of the first. Two faults make one failure on top of another; the setups
that are about flags and tokens need none.

*What the setups leave out.* Replicas run without the message queue: with it, the
finding below lets a retry run beside the first job, and `LiveJobsAreFollowed`
and the lifecycle no longer hold. All setups have `default_lifetime` 0, since any
other makes each job begin in STAGING, which changes nothing further on.
`LiveJobsAreFollowed` and `DoneMeansThere` make exceptions for jobs Rucio has
lost sight of (a timeout, a dead submitter, no answer and no expected id):
without deterministic ids a retry may run beside such a job.

### 5.4 Fairness

`FairSpec`: weak fairness of each answer that is there to be taken (`Answered`),
of FTS's progress with each job (`FtsProgress`: an answer to a submission, a
copy, the end of an archiving; never a failure), of tapes being written, and of
the poller's steps for each job (`PollProgress`: the daemon runs for ever). The
submitter is not assumed to submit, nor messages to arrive. `EveryRequestEnds`
then says that polling alone ends every request that was given to FTS.

### 5.5 What the runs found

1. **A message about one replica fails a request whose job goes on.** The report
   of a completion message turns every ERROR into FAILED (741), although it has
   read whether the job has several sources; the report of a polled answer waits,
   as its comment says it must (823).

Met while modelling, and within the model:

* A retry after a corrupted destination sets `overwrite` beside
  `overwrite_when_only_on_disk`, although a comment of `fts3.py` calls the two
  incompatible; the job builder refuses the pair, so the retries are used up.
  `RefusedForCause` lists it, and the other causes for a refusal:
  `overwrite_when_only_on_disk` on a tape without `archive_timeout`, or by a
  protocol other than `https`, `davs` and `mock`; a path of several hops one of
  which has a choice of sources; a source with keys beside one with tokens (the
  tool leaves out the token of the one with keys, the job builder wants one for each source).
* The branch for a duplicate job (409, line 1128) is never taken: a response with
  an error status is falsy. Under deterministic ids a refused submission counts
  as made until a poll finds no job (`WithoutAnswer`).
* Only the first source is asked for its checksums (`ChecksAreSupported` is
  about that one).

### 5.6 What is proved

`FtsJobProofs.tla`, for every storage, path and configuration:

| theorem | statement |
|---|---|
| `MergedAsksWhatBothAsk` | two strategies merged ask a side to verify exactly if both do |
| `MergedInAnyOrder` | merging is commutative and associative |
| `PickedIsSupported` | a checksum picked for a hop is one of the file's, and of each side that is asked |
| `HopStrategyIsSupported` | a hop's strategy asks a side only if it supports some checksum |
| `FlagsRefusedForCause` | the flags of a job of Rucio are refused only where the destination is a tape whose buffer alone may be overwritten, and then only beside the plain overwrite or without a limit for archiving |
| `PathAsksWhatEveryHopAsks` | the strategy of a path of any length asks a side to verify exactly if every hop's does |

The strategies themselves are proved by cases. The last theorem is about a fold:
`Joint` says what a set of strategies has in common, and merging one more takes it
along (`JointMerges`). That the fold over the path is `Joint` of its hops
(`MergingIsJoint`) would be an induction over the length; here it is proved by
least counterexample, since the existence of a least natural number with a
property (`LeastNat`, from the library's `WFMin`) is first-order.

`FtsTransfersProofs.tla`, for any set of setups (paths, sizes of groups, options and
contents that meet the assumptions below), any number of attempts and faults:

| theorem | statement | under |
|---|---|---|
| `FtsTypeOK` | `Spec => []TypeOK` | |
| `FtsTapeCopyKept` | `Spec => TapeCopyKept` | |
| `FtsRefusedForCause` | `Spec => []RefusedForCause` | |
| `FtsChecksAreSupported` | `Spec => []ChecksAreSupported` | |
| `FtsLiveJobsAreFollowed` | `Spec => []LiveJobsAreFollowed` | `NoReplicasReceived` |
| `FtsDoneMeansThere` | `Spec => []DoneMeansThere` | `NoReplicasReceived` |
| `FtsImplementsLifecycle` | `Spec => ImplementsLifecycle`, the refinement of `RequestLifecycle` | `NoReplicasReceived` |

`NoReplicasReceived` says that a setup that listens to completion messages has one
source for each file. It cannot be left out: without it the finding of 5.5
refutes `LiveJobsAreFollowed` and `ImplementsLifecycle`. The setups of
`fts_transfers` satisfy it, replicas and messages among them, each on its own.

How the arguments go:

* **`IInv`**, the inductive invariant all else rests on. A submission is what the
  grouping makes of some paths (`PostOK`, `SubOK`), a job what the builder makes
  of its submission (`JobOK`), and its files go forward as FTS does: a hop begins
  after the one before it, and of several replicas one is at work
  (`FilesInTurn`). `IdsApart`: no request is in two submissions, and none that was
  submitted is queued; this is what makes the deterministic id of a job
  unambiguous. It needs `PathsInStep` (the requests of a path are in the same
  attempt), or a retry of one hop could be submitted beside an old attempt of another. `FlagsFit`
  carries the cause of an overwrite from the row to the job, for `TapeCopyKept`: a
  path writes a tape only with its last hop.
* **Groupings.** What `Jobs` and `Submissions` make of all the paths is taken apart
  once (`JobsAre`: a job is a path with several hops or a group of single ones of
  the same key), after which the steps speak of one submission (`Sending`,
  `NewPost`).
* **Refusals.** `RefusedInv`: what FTS has refused, its builder's conditions refuse,
  and a lookup that failed has used up a fault. `CauseLemma` goes through the
  conditions one by one and finds each cause in the property's list.
* **`RInv`**: who waits for what. While a submission is open nothing else happens
  to its requests (`OpenWaits`); a row's result is one its job reports, and a LOST
  one has no job (`RowFits`); a request whose result FTS has yet to decide
  is waiting for it (`Followed`, which is what `LiveJobsAreFollowed` needs); and
  what a poll has read was true once, and whatever was final in it still is
  (`PollFits`, with `Older` for a job and its past). The last part is why a stale poll does no harm.
* **Refinement.** Each step is, for each transfer, a step of the lifecycle or none
  (`StepImplements`, with one lemma for each action). Submissions, reports and
  the finisher move several rows at once; the lifecycle lets many requests move
  in one step, each by its own rules.
* **`FilesThere`**, for `DoneMeansThere`: a file that ended well, or was found at its
  destination, is there, as long as no job that is adrift (`Drifting`) writes the same
  destination. An error of one replica that found the file there
  remains true while another writes, since the job may not overwrite it.
* **`ChecksInv`**: a submission stays as it was made, and when made each of its files
  fits the strategy of its job, by `PathAsksWhatEveryHopAsks` for a path and by the
  common key for a group.

Assumptions: `BoundAssumption` (at least one attempt), `NamesAssumption` (the
"none" values are no values), `SetupAssumption` (paths have hops of
the types of `FtsJob`, each transfer is in one hop of one path, and no path goes
on from a tape, which `fts3.py` rules out). The theorems do not speak of
fairness, so they hold of `FairSpec` too. Left to TLC is liveness
(`EveryRequestEnds`).

## 6. The registry of storages

### 6.1 The model

`RseRegistry.tla` is the rows of RSEs, their tags (an RSE's name as an attribute,
by which RSE expressions find it), one other attribute, the protocols, and the
cache `REGION` that the lookups share.

| variable | code |
|---|---|
| `rse`, `tags`, `attribute`, `protocols` | the tables: name, deleted, whether the counter says the RSE is in use; attributes; protocols by scheme, hostname and port |
| `cache` | the entries of `REGION`, by the lookup they answer |
| `reading` | what a reader has found in the database and not yet stored |
| `asked` | the lookups the readers make in this behaviour |

An entry has an `age` (ticks since it was stored, or since it was read) and
`gone`: for how many ticks its value has not been true. The latter is for the
property and nothing depends on it.

| action | code |
|---|---|
| `AddRse`, `DelRse`, `RestoreRse`, `UpdateRse` | the functions of these names, with what they do to the tags |
| `SetAttribute`, `DelAttribute` | `add_rse_attribute` (which replaces), `del_rse_attribute` |
| `AddProtocol`, `DelProtocols`, `UpdateProtocols` | by way of `get_rse_name(include_deleted=False)`, which goes past the cache |
| `Fill` | (outside) files come and go: `rse_is_empty` |
| `Read`, `Store` | `get_rse_id`, `get_rse_name`, `get_rses_with_attribute_value`, `get_rse_attribute`, `get_rse_info`: a miss, the query, and later the entry. The `rse_info` of an RSE takes its attribute from the cache if it is there; if not, that read, with its entry, is one step with the read of the rest |
| `Tick` | time; entries end after `expiration_time` |

Assumed: one VO; the calls of administrators for one RSE do not overlap (two
transactions could leave each other's tags, and a deletion between the check and
the write of a change of protocols would go unnoticed) and do not touch the tags
by hand. The time a nested read of the attribute takes is part of what the read of
`rse_info` takes, so one step for both leaves the bound of `AnswersAreRecent` as it is.
Nothing in the code invalidates an entry.

### 6.2 The run

| run | checks | size |
|---|---|---|
| `rse_registry` | `TypeOK`, `NamesAgree`, `AnswersAreRecent`, `DeletedIsLeftAlone` | 1 240 000 states, 1.7 min |

Two RSEs and two names: one RSE may take the name the other one has left, or is
refused the one it has. One value of the attribute (or none), two protocols
(interchangeable), one reader, an expiration of one tick and reads that take up
to one. Readers never read what another reader is about to store, so one reader
shows all that a value can go through; each behaviour has one kind of lookup,
and the one that matters together with another, the attribute and the
`rse_info` with its copy, has both. The bound of `AnswersAreRecent` is tight: TLC
finds it violated with one tick less.

### 6.3 What is proved

`RseRegistryProofs.tla`, for every set of RSEs, names, protocols and readers, any
expiration and any duration of a read:

| theorem | statement |
|---|---|
| `TypeCorrect` | `Spec => []TypeOK` |
| `NamesAlwaysAgree` | `Spec => []NamesAgree` |
| `DeletedStays` | `Spec => DeletedIsLeftAlone` |
| `AnswersAlwaysRecent` | `Spec => []AnswersAreRecent` |

The inductive invariant `IInv` has four parts: `RegistryOK` (the types of the
tables), `TagsFit` (the tag of an RSE is its name, a deleted one has none, which is
what stops the renaming of a deleted one), `CacheFits` and `ReadersFit` (a value
has not been true for at most as long as it is old, plus the time of the read
once it is stored, plus, for the copy in `rse_info`, what the copied entry may
have been late already). All four properties of the run are theorems.
Assumptions: the two times are natural numbers, the "none" row is not a row.

## 7. Authorisation

### 7.1 The model

`Authz.tla` is the decision and the loading of what it depends on. A version of
the policy is what one checkout has of it: the actions of the user tier (a list
in `authz.rego`), the accounts that are administrators without a token (a list in
`ingest_policies.py`), the tiers (the ODRL policies of `odrl/data.json`).

| definition | code |
|---|---|
| `RuleMatched`, `Holds`, `Permits` | the vendored evaluator: `match.rego`, `constraint.rego`, `main.rego` |
| `AdminAccounts`, `IsAdmin`, `HasTier`, `Allows` | `authz.rego`, on whatever of the three parts OPA has |
| `Token`, `NoClaims`, `Request` | `_token_claims` and `_build_input` of `permission.py`. A request with a JWT has a `sub`, since Rucio accepts no other; every other one has no claims |
| `Permitted` | `has_permission` and `query_opa`, which deny without an answer or a result |
| `Begin`, `Check`, `PutModule`, `PutData`, `PutOdrl`, `RemoveObsolete`, `Fail` | the steps of `ingest_policies.py`, and `exit(1)` at any of them, also after OPA has done what was asked |
| `OpaStops`, `OpaStarts` | (outside) OPA, which keeps in memory what it was given; the evaluator is mounted, or missing |

One ingestion runs at a time (a job of the deployment, or a person).

### 7.2 The run

`authz`: three accounts, three actions, two groups, two versions that differ in
everything, one of them with a prohibition: 556 states, a second. `TypeOK`;
`DoneMeansVersion`: after a success OPA permits what the version allows and
nothing else, through restarts in the middle of the ingestion (the script loads
the module first, so a restart that loses the lists loses the module, too, and
with the order turned round it would leave root an administrator that the
version does not list); `TiersOnly`: whatever mixture an ingestion leaves, nobody
with a token is permitted anything without a tier of some version. Every request
is looked at in every state, and two versions are enough for a mixture.

What does not hold, and is no claim of the code: in the middle of an update that
changes the module and the data, a person may be permitted a new action by an old
tier that neither version as a whole allows.

### 7.3 What is proved

`AuthzProofs.tla`, for every set of accounts, actions, groups and versions, and
any policies:

| theorem | statement |
|---|---|
| `TierTable` | with policies of the shape of `data.json`: admin for operators with a second factor, user for users, nothing else |
| `AccountMakesNoDifference` | with a token the account has no say, as a comment of `authz.rego` promises |
| `BansOnlyTakeAway` | a policy that only prohibits gives no tier |
| `AuthzTypeCorrect` | `Spec => []TypeOK` |
| `DoneAlwaysMeansVersion` | `Spec => []DoneMeansVersion` |
| `TiersOnlyAlways` | `Spec => []TiersOnly` |
| `DataChangesAtOnce` | if versions differ in their data only, every decision on a token is that of a whole version, also in the middle of an ingestion |

The inductive invariant is `TypeOK` with `InOrder`: where OPA has a module, what
the script has loaded after it is of the same version.

## 8. Not modelled

* **Rucio tokens**: the requests for authorization (state, nonce, fetch codes and
  polling), client credentials and their cache, discovery and the admin
  account's tokens (`oidc.py`); the checks behind the logins other than by
  password, and ssh challenges (`authentication.py`).
* **Transfer tool and FTS**: scitags, plugins for tape metadata, time limits in
  queues, priorities that are changed later, the administration of storages at
  FTS, banning, the reuse of sessions (Rucio does not ask for it, and the job
  builder's own decision for it, `_apply_auto_session_reuse`, 291-363, is off by
  default). Of the job builder's refusals: the translation between protocols
  (460-473, allowed by default), the limit on the number of files (913) and the
  distance between the limits for staging and for the whole job (727-746).
* **Registry**: usage, limits and quality of service (rows without influence on
  one another), the export, `RseData`, and the audience and scope derived for an
  RSE (a function of attributes).
* **REST authentication of FTS** (`openidconnect.py`, `middleware.py`,
  `tokenproviders.py`): planned.
* **Cloud storage of FTS** (`cloud.py`): CRUD over one table each; a storage with
  keys is an attribute of `Rse` in `FtsJob`, and the lookup may fail.
* **Constants and common types**: no state of their own. The hand-over of the
  claims in `common.py` is part of `Authz`.
* **Deployment, configuration, tests, bootstrap scripts**: no concurrent or
  failing behaviour of their own that the models could tell apart.

Out of the prover's reach and left to TLC: liveness (`EveryStartEnds`,
`AbandonedInstanceReaped`, `EveryRequestEnds`), since fairness and ENABLED are. Every
other property of a passing run is a theorem.
