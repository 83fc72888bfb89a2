-------------------------------- MODULE Teapot --------------------------------
(***************************************************************************)
(* The session manager of src/patches/teapot/teapot.py: an asyncio proxy   *)
(* that starts one StoRM-WebDAV instance per local user on demand,         *)
(* forwards requests to it, and stops it when it has been idle too long.   *)
(*                                                                         *)
(* Grain of atomicity.  The program is single-threaded; other tasks run    *)
(* only where a coroutine awaits something that is not ready.  All         *)
(* accesses to sw_state are made inside "async with sw_condition", all     *)
(* accesses to session_state inside "async with state_lock", and state_lock*)
(* is only ever taken alone or inside sw_condition, so every such section  *)
(* is one action here, together with the code up to the next await that    *)
(* can suspend.  save_session_state, _test_port, the directory and         *)
(* environment helpers and the wait for "sudo kill" never suspend.         *)
(***************************************************************************)
EXTENDS Integers, Sequences, FiniteSets

CONSTANTS
    User,             \* local user names _map_fed_to_local may return
    NoUser,           \* its None; a member of User where a mapping may return it
    Request,          \* concurrent requests (slots: a slot serves one after another)
    NoRequest,        \* not a request
    Pid,              \* processes the host can run (the bound on live instances)
    NoPid,            \* the pid None
    NoSession,        \* "username not in session_state"
    StartingPort,     \* config STARTING_PORT
    MaxPort,          \* 65535: the largest port number
    StartupTimeout,   \* config STORM_WEBDAV_STARTUP_TIMEOUT
    Faults            \* which failures the environment may produce

FaultKinds ==
    { "abort",        \* a start fails with an exception storm_webdav_state lets through
      "leak",         \* reading the response of an instance fails
      "die",          \* an instance terminates by itself
      "crash",        \* Teapot is killed
      "torn" }        \* ... in the middle of save_session_state

ASSUME PortAssumption == /\ StartingPort \in Nat \ {0}
                         /\ MaxPort \in Nat
                         /\ StartingPort <= MaxPort
ASSUME TimeoutAssumption == StartupTimeout \in Nat
ASSUME FaultAssumption == Faults \subseteq FaultKinds

VARIABLES
    mode,             \* lifespan of the Teapot process
    sw,               \* sw_state, per user
    session,          \* app.state.session_state, per user
    store,            \* the file SESSION_STORE_PATH
    waiters,          \* requests waiting on sw_condition, first come first
    pc, local,        \* where a request is, and its local variables
    sweep,            \* the reaper's and the shutdown's walk over the users
    due,              \* users whose last_accessed the reaper finds too old
    reaperAlive,      \* the task of stop_expired_instances has not died
    proc              \* the StoRM-WebDAV processes of the host

vars == <<mode, sw, session, store, waiters, pc, local, sweep, due, reaperAlive, proc>>

--------------------------------------------------------------------------------
\* "ABSENT": the user is not a key of sw_state yet.
SwState == {"ABSENT", "NOT RUNNING", "STARTING", "RUNNING", "STOPPING"}

PortValue == -1 .. MaxPort

SessionEntry == [pid : Pid \cup {NoPid}, port : PortValue, active : Nat]

ASSUME NamesAssumption == /\ NoPid \notin Pid
                          /\ NoRequest \notin Request
                          /\ NoSession \notin SessionEntry

NoEntries == [u \in User |-> NoSession]

\* The requests that own a start: should_start_sw is True and they are not done.
StarterPc == {"port", "reject", "spawned", "probe", "publish", "giveup", "failed"}

RequestPc == StarterPc \cup
             {"idle", "assess", "waiting", "lookup", "forward", "send", "stream"}

Locals == [user : User \cup {NoUser}, port : PortValue,
           pid : Pid \cup {NoPid}, loops : 0 .. StartupTimeout]

NoLocals == [user |-> NoUser, port |-> -1, pid |-> NoPid, loops |-> 0]

Sweeper == {"reaper", "shutdown"}

NoSweep == [pc |-> "idle", user |-> NoUser, todo |-> {}]

NoProcess == [st |-> "none", user |-> NoUser, port |-> -1]

Sweep == [pc : {"idle", "stop", "killed"}, user : User \cup {NoUser}, todo : SUBSET User]

Process == [st : {"none", "booting", "up", "dying"}, user : User \cup {NoUser},
            port : PortValue]

SwTable      == [User -> SwState]
SessionTable == [User -> SessionEntry \cup {NoSession}]
Store        == [kind : {"missing", "file", "torn"}, data : SessionTable]
PcTable      == [Request -> RequestPc]
LocalTable   == [Request -> Locals]
SweepTable   == [Sweeper -> Sweep]
ProcessTable == [Pid -> Process]

TypeOK ==
    /\ mode \in {"down", "crashed", "serving", "shutdown", "broken"}
    /\ sw \in SwTable
    /\ session \in SessionTable
    /\ store \in Store
    /\ waiters \in Seq(Request)
    /\ pc \in PcTable
    /\ local \in LocalTable
    /\ sweep \in SweepTable
    /\ due \in SUBSET User
    /\ reaperAlive \in BOOLEAN
    /\ proc \in ProcessTable

--------------------------------------------------------------------------------
(* Session table and its file: every write is followed by a save.          *)

FileStore(entries) == [kind |-> "file", data |-> entries]

MutNotSaved == UNCHANGED store

save_session_state == store' = FileStore(session')

SetEntry(u, entry) ==
    /\ session' = [session EXCEPT ![u] = entry]
    /\ save_session_state

IsPresent(u) == session[u] # NoSession

Present == {u \in User : IsPresent(u)}

MutKeptCount(n) == n

MutUnboundedCount(n) == n - 1

\* What a request that is over leaves in the count of active requests.
Decremented(n) == IF n = 0 THEN 0 ELSE n - 1

(* sw_condition.notify(): wakes the task that has waited longest, if any.  *)
NotifyAfter(f) ==
    /\ pc' = IF waiters = <<>> THEN f ELSE [f EXCEPT ![Head(waiters)] = "assess"]
    /\ waiters' = IF waiters = <<>> THEN waiters ELSE Tail(waiters)

NoNotifyAfter(f) == pc' = f /\ waiters' = waiters

MutShifted(u, from, to) == [sw EXCEPT ![u] = to]

ShiftedIf(u, from, to) == [sw EXCEPT ![u] = IF @ = from THEN to ELSE @]

Me(r) == local[r].user

At(r, label) == [pc EXCEPT ![r] = label]

EndRequest(r) == local' = [local EXCEPT ![r] = NoLocals]

\* Only the port is read again (none: -1) of what r had in its local variables.
KeepOnly(r, port) == [local EXCEPT ![r] = [NoLocals EXCEPT !.user = local[r].user,
                                                           !.port = port]]

MutProcessesOf(u) == {p \in Pid : proc[p].st # "none"}

\* Processes with the per-user -Djava.io.tmpdir of u on their command line.
ProcessesOf(u) == {p \in Pid : proc[p].st # "none" /\ proc[p].user = u}

\* A process given port 0 listens on one the kernel picks, nobody knows which.
Listening == {proc[p].port : p \in {q \in Pid : proc[q].st = "up"}} \ {0}

\* Process ids the kernel may give out: it does not soon reuse one still remembered.
FreshPid == {p \in Pid : /\ proc[p].st = "none"
                         /\ \A u \in User : IsPresent(u) => session[u].pid # p
                         /\ \A r \in Request : local[r].pid # p}

UsedPort == IF Present = {} THEN {StartingPort} ELSE {session[u].port : u \in Present}

\* What _find_usable_port_no and _test_port come to; none: bind() raises OverflowError.
UsablePort ==
    LET above == {q \in 0 .. MaxPort : /\ \A p \in UsedPort : p < q
                                       /\ q \notin Listening}
    IN  {q \in above : \A k \in above : q <= k}

--------------------------------------------------------------------------------
(* Requests: root() and storm_webdav_state().                              *)

\* A request with a valid token whose subject is mapped to u.
Arrive(r, u) ==
    /\ mode = "serving" /\ pc[r] = "idle"
    /\ pc' = At(r, "assess")
    /\ local' = [local EXCEPT ![r].user = u]
    /\ UNCHANGED <<mode, sw, session, store, waiters, sweep, due, reaperAlive, proc>>

StateOf(u) == IF sw[u] = "ABSENT" THEN "NOT RUNNING" ELSE sw[u]

MutWaitNotForStart(s) == s = "STOPPING"

MustWait(s) == s \in {"STARTING", "STOPPING"}

\* The loop under sw_condition: go on, become the starter, or wait for a notify.
Assess(r) ==
    LET s == StateOf(Me(r)) IN
    /\ pc[r] = "assess"
    /\ \/ /\ s = "RUNNING"
          /\ NoNotifyAfter(At(r, "lookup"))
          /\ UNCHANGED sw
       \/ /\ s # "RUNNING" /\ ~MustWait(s)
          /\ sw' = [sw EXCEPT ![Me(r)] = "STARTING"]
          /\ NotifyAfter(At(r, "port"))
       \/ /\ MustWait(s)
          /\ pc' = At(r, "waiting")
          /\ waiters' = Append(waiters, r)
          /\ UNCHANGED sw
    /\ UNCHANGED <<mode, session, store, local, sweep, due, reaperAlive, proc>>

\* The other branch: the port of an instance somebody else started (KeyError if gone).
Lookup(r) ==
    LET usable == IsPresent(Me(r)) /\ session[Me(r)].port > 0 IN
    /\ pc[r] = "lookup"
    /\ \/ /\ usable
          /\ pc' = At(r, "forward")
          /\ local' = [local EXCEPT ![r].port = session[Me(r)].port]
       \/ /\ ~usable
          /\ pc' = At(r, "idle")
          /\ EndRequest(r)
    /\ UNCHANGED <<mode, sw, session, store, waiters, sweep, due, reaperAlive, proc>>

\* An exception leaves storm_webdav_state: nobody takes STARTING back.
Abort(r) ==
    /\ pc' = At(r, "idle")
    /\ EndRequest(r)
    /\ UNCHANGED <<mode, sw, session, store, waiters, sweep, due, reaperAlive, proc>>

\* Port choice, then _start_webdav_instance up to its sleep.
FindPort(r) ==
    /\ pc[r] = "port"
    /\ \/ UsablePort = {} /\ Abort(r)
       \/ /\ UsablePort # {} /\ Me(r) = NoUser
          /\ pc' = At(r, "reject")
          /\ UNCHANGED <<mode, sw, session, store, waiters, local, sweep, due,
                         reaperAlive, proc>>
       \/ /\ UsablePort # {} /\ Me(r) # NoUser
          /\ \/ /\ pc' = At(r, "failed")          \* directories or environment
                /\ UNCHANGED <<local, proc>>
             \/ /\ pc' = At(r, "spawned")
                /\ \E p \in FreshPid, q \in UsablePort :
                      /\ proc' = [proc EXCEPT ![p] =
                                     [st |-> "booting", user |-> Me(r), port |-> q]]
                      /\ local' = [local EXCEPT ![r].port = q]
          /\ UNCHANGED <<mode, sw, session, store, waiters, sweep, due, reaperAlive>>
       \/ /\ UsablePort # {} /\ Me(r) # NoUser
          /\ FreshPid = {}                        \* fork fails: Popen raises
          /\ Abort(r)

\* After the sleep: _get_proc finds a process of the user, not always the new one.
Locate(r) ==
    /\ pc[r] = "spawned"
    /\ \/ ProcessesOf(Me(r)) = {} /\ Abort(r)     \* RuntimeError
       \/ \E p \in ProcessesOf(Me(r)) :
          /\ \/ /\ pc' = At(r, "probe")
                /\ local' = [local EXCEPT ![r].pid = p]
                /\ UNCHANGED proc
             \/ /\ "die" \in Faults               \* neither running nor sleeping
                /\ pc' = At(r, "failed")
                /\ proc' = [proc EXCEPT ![p] = NoProcess]
                /\ local' = KeepOnly(r, -1)
          /\ UNCHANGED <<mode, sw, session, store, waiters, sweep, due, reaperAlive>>

MutRetried(loops) == loops

Retried(loops) == loops + 1

\* One turn of the readiness loop: whoever listens on the port answers it.
Probe(r) ==
    /\ pc[r] = "probe"
    /\ \/ /\ local[r].loops = StartupTimeout
          /\ pc' = At(r, "giveup")
          /\ local' = KeepOnly(r, -1)
       \/ /\ local[r].loops < StartupTimeout
          /\ local[r].port \in Listening
          /\ pc' = At(r, "publish")
          /\ UNCHANGED local
       \/ /\ local[r].loops < StartupTimeout
          /\ local[r].port \notin Listening
          /\ local' = [local EXCEPT ![r].loops = Retried(@)]
          /\ UNCHANGED pc
    /\ UNCHANGED <<mode, sw, session, store, waiters, sweep, due, reaperAlive, proc>>

\* A start ends in an error no handler expects (OSError, a read timeout of the probe).
StartRaises(r) ==
    /\ "abort" \in Faults
    /\ pc[r] \in {"port", "probe"}
    /\ Abort(r)

\* The mapping gave no user: the start is taken back, nobody is told (ValueError).
Reject(r) ==
    /\ pc[r] = "reject"
    /\ sw' = [sw EXCEPT ![Me(r)] = "NOT RUNNING"]
    /\ NoNotifyAfter(At(r, "idle"))
    /\ EndRequest(r)
    /\ UNCHANGED <<mode, session, store, sweep, due, reaperAlive, proc>>

\* The instance did not answer in time: no session, no notify, no kill.
GiveUp(r) ==
    /\ pc[r] = "giveup"
    /\ sw' = ShiftedIf(Me(r), "STARTING", "NOT RUNNING")
    /\ SetEntry(Me(r), NoSession)
    /\ NoNotifyAfter(At(r, "idle"))
    /\ EndRequest(r)
    /\ UNCHANGED <<mode, sweep, due, reaperAlive, proc>>

\* _start_webdav_instance returned no pid: a session with pid None and port -1.
StartFailed(r) ==
    /\ pc[r] = "failed"
    /\ sw' = ShiftedIf(Me(r), "STARTING", "NOT RUNNING")
    /\ IF sw[Me(r)] = "STARTING" THEN NotifyAfter(At(r, "idle"))
                                 ELSE NoNotifyAfter(At(r, "idle"))
    /\ SetEntry(Me(r), [pid |-> NoPid, port |-> -1, active |-> 0])
    /\ due' = due \ {Me(r)}
    /\ EndRequest(r)
    /\ UNCHANGED <<mode, sweep, reaperAlive, proc>>

\* The instance answered: RUNNING, the session entry and the notify in one section.
Publish(r) ==
    /\ pc[r] = "publish"
    /\ sw' = ShiftedIf(Me(r), "STARTING", "RUNNING")
    /\ SetEntry(Me(r), [pid |-> local[r].pid, port |-> local[r].port, active |-> 0])
    /\ due' = due \ {Me(r)}
    /\ NotifyAfter(At(r, "forward"))
    /\ local' = KeepOnly(r, local[r].port)
    /\ UNCHANGED <<mode, sweep, reaperAlive, proc>>

\* root() counts the request, if there is a session to count it in, and sends it on.
Forward(r) ==
    /\ pc[r] = "forward"
    /\ pc' = At(r, "send")
    /\ IF IsPresent(Me(r))
       THEN SetEntry(Me(r), [session[Me(r)] EXCEPT !.active = @ + 1])
       ELSE UNCHANGED <<session, store>>
    /\ UNCHANGED <<mode, sw, waiters, local, sweep, due, reaperAlive, proc>>

Uncount(u) ==
    IF IsPresent(u)
    THEN SetEntry(u, [session[u] EXCEPT !.active = Decremented(@)])
    ELSE UNCHANGED <<session, store>>

\* client.send raised: the count is taken back, last_accessed is not refreshed.
SendFails(r) ==
    /\ pc[r] = "send"
    /\ pc' = At(r, "idle")
    /\ Uncount(Me(r))
    /\ EndRequest(r)
    /\ UNCHANGED <<mode, sw, waiters, sweep, due, reaperAlive, proc>>

\* Somebody listening on the port answers; the response body is passed on.
Respond(r) ==
    /\ pc[r] = "send"
    /\ local[r].port \in Listening
    /\ pc' = At(r, "stream")
    /\ UNCHANGED <<mode, sw, session, store, waiters, local, sweep, due, reaperAlive, proc>>

\* The body is through: _decrement_active_requests in the background task.
Complete(r) ==
    /\ pc[r] = "stream"
    /\ pc' = At(r, "idle")
    /\ Uncount(Me(r))
    /\ due' = due \ {Me(r)}
    /\ EndRequest(r)
    /\ UNCHANGED <<mode, sw, waiters, sweep, reaperAlive, proc>>

\* Reading the body raises: the background task never runs.
\* Bound: a count grows to at most one more than there are request slots.
Leak(r) ==
    /\ "leak" \in Faults
    /\ pc[r] = "stream"
    /\ IsPresent(Me(r)) => session[Me(r)].active <= Cardinality(Request)
    /\ pc' = At(r, "idle")
    /\ EndRequest(r)
    /\ UNCHANGED <<mode, sw, session, store, waiters, sweep, due, reaperAlive, proc>>

\* What the event loop goes on with, as opposed to what may go wrong.
RequestProgress(r) ==
    \/ Assess(r)
    \/ Lookup(r)
    \/ FindPort(r)
    \/ Locate(r)
    \/ Probe(r)
    \/ Reject(r)
    \/ GiveUp(r)
    \/ StartFailed(r)
    \/ Publish(r)
    \/ Forward(r)
    \/ SendFails(r)
    \/ Respond(r)
    \/ Complete(r)

RequestStep(r) ==
    \/ RequestProgress(r)
    \/ StartRaises(r)
    \/ Leak(r)

--------------------------------------------------------------------------------
(* The reaper (stop_expired_instances), the shutdown half of lifespan, and *)
(* _stop_webdav_instance, which both call for one user after the other.    *)

Resting(s) == sweep[s].pc = "idle" /\ sweep[s].todo = {}

\* A new pass: the users of the moment; any of them may have been idle for too long.
Wake ==
    /\ mode \in {"serving", "shutdown"} /\ reaperAlive
    /\ Resting("reaper")
    /\ sweep' = [sweep EXCEPT !["reaper"].todo = Present]
    /\ due' \in SUBSET Present
    /\ UNCHANGED <<mode, sw, session, store, waiters, pc, local, reaperAlive, proc>>

Expired(u) == u \in due /\ session[u].active = 0

\* One user of the pass; the decision is taken here, and acted upon later.
Scan(u) ==
    /\ sweep["reaper"].pc = "idle" /\ u \in sweep["reaper"].todo
    /\ \/ /\ IsPresent(u) /\ Expired(u)
          /\ sweep' = [sweep EXCEPT !["reaper"] =
                          [pc |-> "stop", user |-> u, todo |-> @.todo \ {u}]]
       \/ /\ ~(IsPresent(u) /\ Expired(u))
          /\ sweep' = [sweep EXCEPT !["reaper"].todo = @ \ {u}]
    /\ due' = due \ {u}
    /\ UNCHANGED <<mode, sw, session, store, waiters, pc, local, reaperAlive, proc>>

\* uvicorn has drained the requests and runs the code after lifespan's yield.
BeginShutdown ==
    /\ mode = "serving" /\ \A r \in Request : pc[r] = "idle"
    /\ mode' = "shutdown"
    /\ sweep' = [sweep EXCEPT !["shutdown"].todo = Present]
    /\ UNCHANGED <<sw, session, store, waiters, pc, local, due, reaperAlive, proc>>

ShutdownNext(u) ==
    /\ sweep["shutdown"].pc = "idle" /\ u \in sweep["shutdown"].todo
    /\ sweep' = [sweep EXCEPT !["shutdown"] =
                    [pc |-> "stop", user |-> u, todo |-> @.todo \ {u}]]
    /\ UNCHANGED <<mode, sw, session, store, waiters, pc, local, due, reaperAlive, proc>>

\* What is gone with the Teapot process; the instances are not its children.
ForgetAll ==
    /\ sw' = [u \in User |-> "ABSENT"]
    /\ session' = NoEntries
    /\ waiters' = <<>>
    /\ pc' = [r \in Request |-> "idle"]
    /\ local' = [r \in Request |-> NoLocals]
    /\ sweep' = [s \in Sweeper |-> NoSweep]
    /\ due' = {}
    /\ reaperAlive' = FALSE
    /\ UNCHANGED proc

\* state[username] raises KeyError: the reaper task dies, or the shutdown is cut short.
StopRaises(s) ==
    /\ sweep[s].pc = "stop" /\ sw[sweep[s].user] = "ABSENT"
    /\ \/ /\ s = "reaper"
          /\ reaperAlive' = FALSE
          /\ sweep' = [sweep EXCEPT ![s] = NoSweep]
          /\ UNCHANGED <<mode, sw, session, store, waiters, pc, local, due, proc>>
       \/ /\ s = "shutdown"
          /\ mode' = "down"
          /\ ForgetAll
          /\ UNCHANGED store

\* SIGTERM: the process closes its port and takes its time to go.
Terminating(process) == [process EXCEPT !.st = "dying", !.port = -1]

MutStateKept(u) == sw

StateWhileStopping(u) == ShiftedIf(u, "RUNNING", "STOPPING")

\* Under both locks RUNNING becomes STOPPING and the session goes; then sudo kill.
Stop(s) ==
    LET u    == sweep[s].user
        live == IsPresent(u) /\ session[u].pid \in Pid
                             /\ proc[session[u].pid].st # "none"
    IN
    /\ sweep[s].pc = "stop" /\ sw[u] # "ABSENT"
    /\ sw' = StateWhileStopping(u)
    /\ IF sw[u] = "RUNNING" THEN NotifyAfter(pc) ELSE NoNotifyAfter(pc)
    /\ IF IsPresent(u) THEN SetEntry(u, NoSession) ELSE UNCHANGED <<session, store>>
    /\ \/ /\ live                                  \* kill exits with 0
          /\ proc' = [proc EXCEPT ![session[u].pid] = Terminating(@)]
          /\ sweep' = [sweep EXCEPT ![s].pc = "killed"]
       \/ /\ ~live                                 \* -1, or kill: no such process
          /\ sweep' = [sweep EXCEPT ![s].pc = "idle", ![s].user = NoUser]
          /\ UNCHANGED proc
    /\ UNCHANGED <<mode, local, due, reaperAlive>>

\* Back under sw_condition after a successful kill.
StopDone(s) ==
    LET u == sweep[s].user IN
    /\ sweep[s].pc = "killed"
    /\ sw' = ShiftedIf(u, "STOPPING", "NOT RUNNING")
    /\ IF sw[u] = "STOPPING" THEN NotifyAfter(pc) ELSE NoNotifyAfter(pc)
    /\ sweep' = [sweep EXCEPT ![s].pc = "idle", ![s].user = NoUser]
    /\ UNCHANGED <<mode, session, store, local, due, reaperAlive, proc>>

\* All sessions handled: the store is unlinked and the process exits.
EndShutdown ==
    /\ mode = "shutdown" /\ Resting("shutdown")
    /\ mode' = "down"
    /\ store' = [kind |-> "missing", data |-> NoEntries]
    /\ ForgetAll

SweepStep(s) ==
    \/ StopRaises(s)
    \/ Stop(s)
    \/ StopDone(s)

ReaperStep == SweepStep("reaper") \/ \E u \in User : Scan(u)

ShutdownStep == SweepStep("shutdown") \/ EndShutdown \/ \E u \in User : ShutdownNext(u)

--------------------------------------------------------------------------------
(* The Teapot process and the instances' processes.                        *)

\* load_session_state: a missing file is written, an unreadable one stops the start.
Start ==
    /\ mode \in {"down", "crashed"}
    /\ IF store.kind = "torn"
       THEN /\ mode' = "broken"
            /\ UNCHANGED <<session, store>>
       ELSE /\ mode' = "serving"
            /\ session' = IF store.kind = "file" THEN store.data ELSE NoEntries
            /\ store' = IF store.kind = "file" THEN store ELSE FileStore(NoEntries)
    /\ reaperAlive' = TRUE
    /\ UNCHANGED <<sw, waiters, pc, local, sweep, due, proc>>

Crash ==
    /\ "crash" \in Faults
    /\ mode \in {"serving", "shutdown"}
    /\ mode' = "crashed"
    /\ \/ UNCHANGED store
       \/ "torn" \in Faults /\ store' = [kind |-> "torn", data |-> NoEntries]
    /\ ForgetAll

\* The instance binds its port, or exits because somebody else has it.
Boot(p) ==
    /\ proc[p].st = "booting"
    /\ proc' = [proc EXCEPT ![p] = IF @.port \in Listening THEN NoProcess
                                                          ELSE [@ EXCEPT !.st = "up"]]
    /\ UNCHANGED <<mode, sw, session, store, waiters, pc, local, sweep, due, reaperAlive>>

\* A process told to terminate has done so; with "die", any process may.
Exit(p) ==
    /\ \/ proc[p].st = "dying"
       \/ "die" \in Faults /\ proc[p].st \in {"booting", "up"}
    /\ proc' = [proc EXCEPT ![p] = NoProcess]
    /\ UNCHANGED <<mode, sw, session, store, waiters, pc, local, sweep, due, reaperAlive>>

--------------------------------------------------------------------------------
Init ==
    /\ mode = "down"
    /\ sw = [u \in User |-> "ABSENT"]
    /\ session = NoEntries
    /\ store = [kind |-> "missing", data |-> NoEntries]
    /\ waiters = <<>>
    /\ pc = [r \in Request |-> "idle"]
    /\ local = [r \in Request |-> NoLocals]
    /\ sweep = [s \in Sweeper |-> NoSweep]
    /\ due = {}
    /\ reaperAlive = FALSE
    /\ proc = [p \in Pid |-> NoProcess]

Next ==
    \/ \E r \in Request : \/ \E u \in User : Arrive(r, u)
                          \/ RequestStep(r)
    \/ Wake
    \/ ReaperStep
    \/ BeginShutdown
    \/ ShutdownStep
    \/ Start
    \/ Crash
    \/ \E p \in Pid : Boot(p) \/ Exit(p)

Spec == Init /\ [][Next]_vars

(* Fairness.  The event loop runs every task that can go on, both locks    *)
(* are first come first served, every await in a start is bounded, and a   *)
(* client or an instance eventually ends its side of a response.  Nothing  *)
(* says that a notify ever reaches a waiting request.  Wall-clock time     *)
(* passes: a pass of the reaper that finds every session too old that no   *)
(* request touches happens again and again.                                *)
WakeLate == Wake /\ due' = Present

Fairness ==
    /\ \A r \in Request : WF_vars(RequestProgress(r))
    /\ WF_vars(ReaperStep)
    /\ SF_vars(WakeLate)

FairSpec == Spec /\ Fairness

--------------------------------------------------------------------------------
(* Properties                                                              *)

\* storm_webdav_state starts one instance per user at a time: as long as a request
\* owns a start, sw_state says STARTING and no other request owns one.
OneStarter ==
    \A r \in Request : pc[r] \in StarterPc =>
        /\ sw[Me(r)] = "STARTING"
        /\ \A q \in Request : pc[q] \in StarterPc /\ Me(q) = Me(r) => q = r

\* The two tables guarded by two locks agree: a RUNNING instance has a session with a
\* pid and a port to forward to, one in STOPPING has none (Publish, Stop).
SessionMatchesState ==
    \A u \in User :
        /\ sw[u] = "RUNNING" => IsPresent(u) /\ session[u].pid # NoPid /\ session[u].port > 0
        /\ sw[u] = "STOPPING" => ~IsPresent(u)

\* No handler forgets save_session_state: what a restart would load is what the
\* program holds, at every point where another task may run or Teapot may be killed.
StoreIsCurrent ==
    mode \in {"serving", "shutdown"} => store = FileStore(session)

\* active_requests never counts a request that is over, so it cannot keep the reaper
\* from an idle instance (root, _decrement_active_requests), as long as no response
\* breaks and Teapot is not killed.
CountsOnlyRequestsInFlight ==
    \A u \in User : IsPresent(u) =>
        session[u].active <= Cardinality({r \in Request : pc[r] \in {"send", "stream"}
                                                          /\ Me(r) = u})

\* The pid that _stop_webdav_instance will kill is, while it lives, a process of the
\* session's own user, although _get_proc found it by searching the process table.
SessionPidIsOwn ==
    \A u \in User : \A p \in Pid :
        IsPresent(u) /\ session[u].pid = p /\ proc[p].st # "none" => proc[p].user = u

\* Each user's instance goes through the phases in order, each start with one owner.
StarterOf(u) ==
    IF \E r \in Request : pc[r] \in StarterPc /\ Me(r) = u
    THEN CHOOSE r \in Request : pc[r] \in StarterPc /\ Me(r) = u
    ELSE NoRequest

Lifecycle == INSTANCE InstanceLifecycle WITH
    phase <- [u \in User |-> StateOf(u)],
    starter <- [u \in User |-> StarterOf(u)],
    advertised <- [u \in User |-> IsPresent(u) /\ session[u].pid # NoPid]

\* The four states storm_webdav_state and _stop_webdav_instance move a user through
\* follow one cycle, and only the owner of a start ends it (InstanceLifecycle).
ImplementsLifecycle == Lifecycle!LifecycleSpec

\* Every start comes to an end, in RUNNING, in a failure or in an exception: the
\* readiness loop of storm_webdav_state is bounded by STORM_WEBDAV_STARTUP_TIMEOUT.
EveryStartEnds ==
    \A r \in Request : pc[r] \in StarterPc ~> pc[r] \notin StarterPc

\* stop_expired_instances: when requests for a user stop coming, the user's session is
\* eventually removed, unless the reaper itself has died.
AbandonedInstanceReaped ==
    \A u \in User :
        <>[](mode = "serving" /\ reaperAlive /\ \A r \in Request : pc[r] = "idle" \/ Me(r) # u)
            => []<>(~IsPresent(u))

\* "Stops all active webdav instances associated with session handles. Deletes the
\* session store file if it exists." (docstring of lifespan, on shutdown)
ShutdownLeavesNothing ==
    [][mode = "shutdown" /\ mode' = "down" => store'.kind = "missing"]_vars

\* root "proxies the request to the user's Storm-WebDAV instance": whoever answers a
\* forwarded request is a process of the request's user.
ProxiesToOwnInstance ==
    [][\A r \in Request : pc[r] = "send" /\ pc'[r] = "stream" =>
          \A p \in Pid : proc[p].st = "up" /\ proc[p].port = local[r].port
              => proc[p].user = Me(r)]_vars

\* ... and it is proxied at some time, or refused: no request waits for ever for an
\* instance that has been running, or has failed, all along.
EveryWaiterIsWoken ==
    \A r \in Request : pc[r] = "waiting" ~> pc[r] # "waiting"
=============================================================================
