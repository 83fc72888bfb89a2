----------------------------- MODULE TeapotProofs -----------------------------
(* Proofs about Teapot, for any number of users, requests and processes,   *)
(* any ports and timeout, and any combination of faults.                   *)
EXTENDS Teapot, TLAPS

--------------------------------------------------------------------------------
(* The inductive invariant: type correctness, and what links the two       *)
(* tables, the requests and the lifespan of the Teapot process.            *)

\* A request under way, and a sweep that is stopping an instance, have a user.
UsersKnown ==
    /\ \A r \in Request : pc[r] # "idle" => Me(r) \in User
    /\ \A s \in Sweeper : sweep[s].pc # "idle" => sweep[s].user \in User

\* The queue of sw_condition holds requests that wait, each of them once.
QueueOfWaiting ==
    /\ \A i \in 1 .. Len(waiters) : pc[waiters[i]] = "waiting"
    /\ \A i, j \in 1 .. Len(waiters) : waiters[i] = waiters[j] => i = j

\* Outside the serving and shutdown phases there are no tasks and no states.
NothingWhileDown ==
    mode \notin {"serving", "shutdown"} =>
        /\ \A u \in User : sw[u] = "ABSENT"
        /\ \A r \in Request : pc[r] = "idle"
        /\ \A s \in Sweeper : sweep[s].pc = "idle" /\ sweep[s].todo = {}

\* The starter that will publish an instance has located it, and it has a real port.
StarterHasInstance ==
    /\ \A r \in Request :
          /\ pc[r] \in {"probe", "publish"} => local[r].pid # NoPid
          /\ pc[r] = "publish" => local[r].port > 0
    /\ \A p \in Pid : proc[p].st \in {"booting", "up"} => proc[p].port >= 0

IInv ==
    /\ TypeOK
    /\ UsersKnown
    /\ QueueOfWaiting
    /\ NothingWhileDown
    /\ StarterHasInstance
    /\ OneStarter
    /\ SessionMatchesState
    /\ StoreIsCurrent

--------------------------------------------------------------------------------
(* Operators the actions are built from.                                   *)

\* What the tables hold, one level down.
LEMMA TypesLemma ==
    ASSUME TypeOK
    PROVE  /\ \A r \in Request : pc[r] \in RequestPc /\ local[r] \in Locals
           /\ \A u \in User : IsPresent(u) => session[u] \in SessionEntry
           /\ store.data \in SessionTable
  BY DEF TypeOK, PcTable, LocalTable, SessionTable, Store, IsPresent

\* Setting one program counter to a label keeps the table well typed.
LEMMA AtLemma ==
    ASSUME pc \in PcTable, NEW r, NEW label \in RequestPc
    PROVE  At(r, label) \in PcTable
  BY DEF At, PcTable

\* A notify leaves the program counters and the wait queue well typed, and changes
\* the counter of at most one request besides what its argument says, to "assess".
LEMMA NotifyLemma ==
    ASSUME waiters \in Seq(Request), NEW f \in PcTable, NotifyAfter(f)
    PROVE  /\ pc' \in PcTable
           /\ waiters' \in Seq(Request)
           /\ \A r \in Request : pc'[r] = f[r] \/ pc'[r] = "assess"
  <1>1. CASE waiters = <<>>
    BY <1>1 DEF NotifyAfter
  <1>2. CASE waiters # <<>>
    BY <1>2 DEF NotifyAfter, RequestPc, PcTable
  <1>3. QED
    BY <1>1, <1>2

\* The locals of a request after it ended, and after it kept only its port.
LEMMA LocalLemma ==
    ASSUME local \in LocalTable, NEW r \in Request
    PROVE  /\ NoLocals \in Locals
           /\ EndRequest(r) => local' \in LocalTable
           /\ \A q \in PortValue : KeepOnly(r, q) \in LocalTable
           /\ \A q : KeepOnly(r, q)[r].user = local[r].user
  <1>1. NoLocals \in Locals
    BY PortAssumption, TimeoutAssumption DEF NoLocals, Locals, PortValue
  <1>2. ASSUME NEW q \in PortValue
        PROVE  [NoLocals EXCEPT !.user = local[r].user, !.port = q] \in Locals
    BY <1>1 DEF NoLocals, Locals, LocalTable
  <1>3. ASSUME NEW q
        PROVE  [NoLocals EXCEPT !.user = local[r].user, !.port = q].user = local[r].user
    BY DEF NoLocals
  <1>4. QED
    BY <1>1, <1>2, <1>3 DEF EndRequest, KeepOnly, LocalTable

\* Moving one user from one state to another keeps sw_state well typed.
LEMMA ShiftLemma ==
    ASSUME sw \in SwTable, NEW u, NEW from, NEW to \in SwState
    PROVE  ShiftedIf(u, from, to) \in SwTable
  BY DEF ShiftedIf, SwTable

\* Writing an entry keeps the session table and its file well typed and equal.
LEMMA SetEntryLemma ==
    ASSUME session \in SessionTable,
           NEW u, NEW entry \in SessionEntry \cup {NoSession},
           SetEntry(u, entry)
    PROVE  /\ session' \in SessionTable
           /\ store' \in Store
           /\ store' = FileStore(session')
           /\ \A v \in User : v # u => session'[v] = session[v]
           /\ u \in User => session'[u] = entry
  BY DEF SetEntry, save_session_state, SessionTable, Store, FileStore

\* Counting a request in or out changes only the count in an entry.
LEMMA CountLemma ==
    ASSUME TypeOK, NEW u \in User, IsPresent(u), NEW n \in Nat,
           SetEntry(u, [session[u] EXCEPT !.active = n])
    PROVE  /\ session' \in SessionTable
           /\ store' \in Store
           /\ store' = FileStore(session')
           /\ \A v \in User : v # u => session'[v] = session[v]
           /\ session'[u] # NoSession
           /\ session'[u].pid = session[u].pid
           /\ session'[u].port = session[u].port
  <1>1. session[u] \in SessionEntry
    BY TypesLemma
  <1>2. [session[u] EXCEPT !.active = n] \in SessionEntry
    BY <1>1 DEF SessionEntry
  <1>3. /\ session' \in SessionTable
        /\ store' \in Store
        /\ store' = FileStore(session')
        /\ \A v \in User : v # u => session'[v] = session[v]
        /\ session'[u] = [session[u] EXCEPT !.active = n]
    BY <1>2, SetEntryLemma DEF TypeOK
  <1>4. session'[u] # NoSession
    BY <1>2, <1>3, NamesAssumption
  <1>5. QED
    BY <1>1, <1>3, <1>4 DEF SessionEntry

\* The same, for a request that is over and whose session may be gone.
LEMMA UncountLemma ==
    ASSUME TypeOK, NEW u \in User, Uncount(u)
    PROVE  /\ session' \in SessionTable
           /\ store' \in Store
           /\ store' = FileStore(session') \/ (session' = session /\ store' = store)
           /\ \A v \in User : /\ session'[v] # NoSession <=> session[v] # NoSession
                              /\ session[v] # NoSession =>
                                    /\ session'[v].pid = session[v].pid
                                    /\ session'[v].port = session[v].port
  <1>1. CASE ~IsPresent(u)
    BY <1>1 DEF Uncount, TypeOK
  <1>2. CASE IsPresent(u)
    <2>1. Decremented(session[u].active) \in Nat
      BY <1>2, TypesLemma DEF SessionEntry, Decremented
    <2>2. SetEntry(u, [session[u] EXCEPT !.active = Decremented(session[u].active)])
      BY <1>2 DEF Uncount
    <2>3. QED
      BY <1>2, <2>1, <2>2, CountLemma DEF IsPresent
  <1>3. QED
    BY <1>1, <1>2

\* What the walks and the processes become is well typed.
LEMMA SweepLemma ==
    ASSUME TypeOK, NEW s \in Sweeper
    PROVE  /\ NoSweep \in Sweep
           /\ \A w \in Sweep : [sweep EXCEPT ![s] = w] \in SweepTable
           /\ \A todo \in SUBSET User : [sweep[s] EXCEPT !.todo = todo] \in Sweep
           /\ \A u \in User \cup {NoUser}, l \in {"idle", "stop", "killed"} :
                 /\ [sweep[s] EXCEPT !.pc = l] \in Sweep
                 /\ [sweep[s] EXCEPT !.pc = l, !.user = u] \in Sweep
                 /\ \A todo \in SUBSET User : [pc |-> l, user |-> u, todo |-> todo] \in Sweep
           /\ sweep[s].todo \in SUBSET User
           /\ sweep[s].user \in User \cup {NoUser}
  <1>1. sweep[s] \in Sweep
    BY DEF TypeOK, SweepTable
  <1>2. \A w \in Sweep : [sweep EXCEPT ![s] = w] \in SweepTable
    BY DEF TypeOK, SweepTable
  <1>3. QED
    BY <1>1, <1>2 DEF Sweep, NoSweep

\* What a process becomes by dying, by SIGTERM and by binding its port is well typed.
LEMMA ProcessLemma ==
    ASSUME TypeOK, NEW p \in Pid
    PROVE  /\ \A x \in Process : [proc EXCEPT ![p] = x] \in ProcessTable
           /\ NoProcess \in Process
           /\ Terminating(proc[p]) \in Process
           /\ [proc[p] EXCEPT !.st = "up"] \in Process
  <1>1. proc[p] \in Process
    BY DEF TypeOK, ProcessTable
  <1>2. \A x \in Process : [proc EXCEPT ![p] = x] \in ProcessTable
    BY DEF TypeOK, ProcessTable
  <1>3. -1 \in PortValue
    BY PortAssumption DEF PortValue
  <1>4. QED
    BY <1>1, <1>2, <1>3 DEF Process, NoProcess, Terminating

--------------------------------------------------------------------------------
(* Type correctness.                                                       *)

\* Every step of the system keeps every variable to its type.
LEMMA TypeInductive ==
    ASSUME TypeOK, UsersKnown, [Next]_vars
    PROVE  TypeOK'
  <1>1. ASSUME NEW r \in Request, NEW u \in User, Arrive(r, u)  PROVE TypeOK'
    <2>1. [local EXCEPT ![r].user = u] \in LocalTable
      BY DEF TypeOK, LocalTable, Locals
    <2>2. QED
      BY <1>1, <2>1, AtLemma DEF Arrive, TypeOK, RequestPc
  <1>2. ASSUME NEW r \in Request, Assess(r)  PROVE TypeOK'
    <2>1. \A st \in SwState : [sw EXCEPT ![Me(r)] = st] \in SwTable
      BY DEF TypeOK, SwTable
    <2>2. Append(waiters, r) \in Seq(Request)
      BY DEF TypeOK
    <2>3. At(r, "lookup") \in PcTable /\ At(r, "port") \in PcTable /\ At(r, "waiting") \in PcTable
      BY AtLemma DEF TypeOK, RequestPc, StarterPc
    <2>4. QED
      BY <1>2, <2>1, <2>2, <2>3, NotifyLemma DEF Assess, NoNotifyAfter, TypeOK, SwState
  <1>3. ASSUME NEW r \in Request, Lookup(r)  PROVE TypeOK'
    <2>1. CASE pc' = At(r, "idle") /\ EndRequest(r)
      BY <1>3, <2>1, AtLemma, LocalLemma DEF Lookup, TypeOK, RequestPc
    <2>2. CASE /\ IsPresent(Me(r)) /\ session[Me(r)].port > 0
               /\ pc' = At(r, "forward")
               /\ local' = [local EXCEPT ![r].port = session[Me(r)].port]
      <3>1. Me(r) \in User
        BY <1>3 DEF Lookup, UsersKnown
      <3>2. session[Me(r)].port \in PortValue
        BY <2>2, <3>1, TypesLemma DEF SessionEntry
      <3>3. local' \in LocalTable
        BY <2>2, <3>2 DEF TypeOK, LocalTable, Locals
      <3>4. QED
        BY <1>3, <2>2, <3>3, AtLemma DEF Lookup, TypeOK, RequestPc
    <2>3. QED
      BY <1>3, <2>1, <2>2 DEF Lookup
  <1>abort. ASSUME NEW r \in Request, Abort(r)  PROVE TypeOK'
    BY <1>abort, AtLemma, LocalLemma DEF Abort, TypeOK, RequestPc
  <1>4. ASSUME NEW r \in Request, FindPort(r)  PROVE TypeOK'
    <2>1. CASE Abort(r)
      BY <1>abort, <2>1
    <2>2. CASE /\ pc' = At(r, "reject") \/ pc' = At(r, "failed")
               /\ UNCHANGED <<mode, sw, session, store, waiters, local, sweep, due,
                              reaperAlive, proc>>
      BY <2>2, AtLemma DEF TypeOK, RequestPc, StarterPc
    <2>3. CASE /\ pc' = At(r, "spawned")
               /\ \E p \in FreshPid, q \in UsablePort :
                     /\ proc' = [proc EXCEPT ![p] =
                                    [st |-> "booting", user |-> Me(r), port |-> q]]
                     /\ local' = [local EXCEPT ![r].port = q]
               /\ UNCHANGED <<mode, sw, session, store, waiters, sweep, due, reaperAlive>>
      <3>1. PICK p \in FreshPid, q \in UsablePort :
                     /\ proc' = [proc EXCEPT ![p] =
                                    [st |-> "booting", user |-> Me(r), port |-> q]]
                     /\ local' = [local EXCEPT ![r].port = q]
        BY <2>3
      <3>2. q \in PortValue
        BY PortAssumption DEF UsablePort, PortValue
      <3>3. Me(r) \in User \cup {NoUser}
        BY TypesLemma DEF Locals, Me
      <3>4. proc' \in ProcessTable
        <4>1. [st |-> "booting", user |-> Me(r), port |-> q] \in Process
          BY <3>2, <3>3 DEF Process
        <4>2. QED
          BY <3>1, <4>1, ProcessLemma DEF FreshPid
      <3>5. local' \in LocalTable
        BY <3>1, <3>2 DEF TypeOK, LocalTable, Locals
      <3>6. QED
        BY <2>3, <3>4, <3>5, AtLemma DEF TypeOK, RequestPc, StarterPc
    <2>4. QED
      BY <1>4, <2>1, <2>2, <2>3 DEF FindPort
  <1>5. ASSUME NEW r \in Request, Locate(r)  PROVE TypeOK'
    <2>1. CASE Abort(r)
      BY <1>abort, <2>1
    <2>2. CASE /\ \E p \in Pid : local' = [local EXCEPT ![r].pid = p]
               /\ pc' = At(r, "probe")
               /\ UNCHANGED <<mode, sw, session, store, waiters, sweep, due, reaperAlive, proc>>
      <3>1. local' \in LocalTable
        BY <2>2 DEF TypeOK, LocalTable, Locals
      <3>2. QED
        BY <2>2, <3>1, AtLemma DEF TypeOK, RequestPc, StarterPc
    <2>3. CASE /\ \E p \in Pid : proc' = [proc EXCEPT ![p] = NoProcess]
               /\ pc' = At(r, "failed")
               /\ local' = KeepOnly(r, -1)
               /\ UNCHANGED <<mode, sw, session, store, waiters, sweep, due, reaperAlive>>
      <3>1. proc' \in ProcessTable
        BY <2>3, ProcessLemma
      <3>2. local' \in LocalTable
        BY <2>3, LocalLemma, PortAssumption DEF TypeOK, PortValue
      <3>3. QED
        BY <2>3, <3>1, <3>2, AtLemma DEF TypeOK, RequestPc, StarterPc
    <2>4. QED
      BY <1>5, <2>1, <2>2, <2>3 DEF Locate, ProcessesOf
  <1>6. ASSUME NEW r \in Request, Probe(r)  PROVE TypeOK'
    <2>1. CASE local' = KeepOnly(r, -1) /\ pc' = At(r, "giveup")
      <3>1. local' \in LocalTable
        BY <2>1, LocalLemma, PortAssumption DEF TypeOK, PortValue
      <3>2. QED
        BY <1>6, <2>1, <3>1, AtLemma DEF Probe, TypeOK, RequestPc, StarterPc
    <2>2. CASE pc' = At(r, "publish") /\ UNCHANGED local
      BY <1>6, <2>2, AtLemma DEF Probe, TypeOK, RequestPc, StarterPc
    <2>3. CASE /\ local[r].loops < StartupTimeout
               /\ local' = [local EXCEPT ![r].loops = Retried(@)]
               /\ UNCHANGED pc
      <3>1. Retried(local[r].loops) \in 0 .. StartupTimeout
        BY <2>3, TypesLemma, TimeoutAssumption DEF Locals, Retried
      <3>2. local' \in LocalTable
        BY <2>3, <3>1 DEF TypeOK, LocalTable, Locals
      <3>3. QED
        BY <1>6, <2>3, <3>2 DEF Probe, TypeOK
    <2>4. QED
      BY <1>6, <2>1, <2>2, <2>3 DEF Probe
  <1>7. ASSUME NEW r \in Request, StartRaises(r)  PROVE TypeOK'
    BY <1>7, <1>abort
       DEF StartRaises, TypeOK
  <1>8. ASSUME NEW r \in Request, Reject(r)  PROVE TypeOK'
    <2>1. sw' \in SwTable
      BY <1>8 DEF Reject, TypeOK, SwTable, SwState
    <2>2. QED
      BY <1>8, <2>1, AtLemma, LocalLemma DEF Reject, NoNotifyAfter, TypeOK, RequestPc
  <1>9. ASSUME NEW r \in Request, GiveUp(r)  PROVE TypeOK'
    BY <1>9, AtLemma, LocalLemma, ShiftLemma, SetEntryLemma
       DEF GiveUp, NoNotifyAfter, RequestPc, SwState, TypeOK
  <1>10. ASSUME NEW r \in Request, StartFailed(r)  PROVE TypeOK'
    <2>1. [pid |-> NoPid, port |-> -1, active |-> 0] \in SessionEntry
      BY PortAssumption DEF SessionEntry, PortValue
    <2>2. session' \in SessionTable /\ store' \in Store
      BY <1>10, <2>1, SetEntryLemma DEF StartFailed, TypeOK
    <2>3. At(r, "idle") \in PcTable
      BY AtLemma DEF TypeOK, RequestPc
    <2>4. pc' \in PcTable /\ waiters' \in Seq(Request)
      BY <1>10, <2>3, NotifyLemma DEF StartFailed, NoNotifyAfter, TypeOK
    <2>5. QED
      BY <1>10, <2>2, <2>4, LocalLemma, ShiftLemma DEF StartFailed, TypeOK, SwState
  <1>11. ASSUME NEW r \in Request, Publish(r)  PROVE TypeOK'
    <2>1. [pid |-> local[r].pid, port |-> local[r].port, active |-> 0] \in SessionEntry
      BY TypesLemma DEF SessionEntry, Locals
    <2>2. session' \in SessionTable /\ store' \in Store
      BY <1>11, <2>1, SetEntryLemma DEF Publish, TypeOK
    <2>3. At(r, "forward") \in PcTable
      BY AtLemma DEF TypeOK, RequestPc
    <2>4. pc' \in PcTable /\ waiters' \in Seq(Request)
      BY <1>11, <2>3, NotifyLemma DEF Publish, TypeOK
    <2>5. local' \in LocalTable
      BY <1>11, TypesLemma, LocalLemma DEF Publish, TypeOK, Locals
    <2>6. QED
      BY <1>11, <2>2, <2>4, <2>5, ShiftLemma DEF Publish, TypeOK, SwState
  <1>12. ASSUME NEW r \in Request, Forward(r)  PROVE TypeOK'
    <2>1. Me(r) \in User
      BY <1>12 DEF Forward, UsersKnown
    <2>2. session' \in SessionTable /\ store' \in Store
      <3>1. CASE IsPresent(Me(r))
        <4>1. session[Me(r)].active + 1 \in Nat
          BY <2>1, <3>1, TypesLemma DEF SessionEntry
        <4>2. SetEntry(Me(r), [session[Me(r)] EXCEPT !.active = session[Me(r)].active + 1])
          BY <1>12, <3>1 DEF Forward
        <4>3. QED
          BY <2>1, <3>1, <4>1, <4>2, CountLemma
      <3>2. CASE ~IsPresent(Me(r))
        BY <1>12, <3>2 DEF Forward, TypeOK
      <3>3. QED
        BY <3>1, <3>2
    <2>3. QED
      BY <1>12, <2>2, AtLemma DEF Forward, TypeOK, RequestPc
  <1>13. ASSUME NEW r \in Request, SendFails(r)  PROVE TypeOK'
    <2>1. Me(r) \in User
      BY <1>13 DEF SendFails, UsersKnown
    <2>2. session' \in SessionTable /\ store' \in Store
      BY <1>13, <2>1, UncountLemma DEF SendFails
    <2>3. QED
      BY <1>13, <2>2, AtLemma, LocalLemma DEF SendFails, TypeOK, RequestPc
  <1>14. ASSUME NEW r \in Request, Complete(r)  PROVE TypeOK'
    <2>1. Me(r) \in User
      BY <1>14 DEF Complete, UsersKnown
    <2>2. session' \in SessionTable /\ store' \in Store
      BY <1>14, <2>1, UncountLemma DEF Complete
    <2>3. QED
      BY <1>14, <2>2, AtLemma, LocalLemma DEF Complete, TypeOK, RequestPc
  <1>15. ASSUME NEW r \in Request, Respond(r)  PROVE TypeOK'
    BY <1>15, AtLemma
       DEF Respond, RequestPc, TypeOK
  <1>16. ASSUME NEW r \in Request, Leak(r)  PROVE TypeOK'
    BY <1>16, AtLemma, LocalLemma
       DEF Leak, RequestPc, TypeOK
  <1>17. ASSUME Wake  PROVE TypeOK'
    <2>1. sweep' \in SweepTable
      BY <1>17 DEF Wake, TypeOK, SweepTable, Sweep, Sweeper, Present
    <2>2. QED
      BY <1>17, <2>1 DEF Wake, TypeOK, Present
  <1>18. ASSUME NEW u \in User, Scan(u)  PROVE TypeOK'
    <2>1. sweep' \in SweepTable
      <3>1. "reaper" \in Sweeper /\ sweep["reaper"].todo \ {u} \in SUBSET User
        BY SweepLemma DEF Sweeper
      <3>2. CASE sweep' = [sweep EXCEPT !["reaper"] =
                      [pc |-> "stop", user |-> u, todo |-> sweep["reaper"].todo \ {u}]]
        BY <3>1, <3>2, SweepLemma
      <3>3. CASE sweep' = [sweep EXCEPT !["reaper"].todo = sweep["reaper"].todo \ {u}]
        BY <3>3 DEF TypeOK, SweepTable, Sweep
      <3>4. QED
        BY <1>18, <3>2, <3>3 DEF Scan
    <2>2. QED
      BY <1>18, <2>1 DEF Scan, TypeOK
  <1>19. ASSUME BeginShutdown  PROVE TypeOK'
    <2>1. sweep' \in SweepTable
      BY <1>19 DEF BeginShutdown, TypeOK, SweepTable, Sweep, Sweeper, Present
    <2>2. QED
      BY <1>19, <2>1 DEF BeginShutdown, TypeOK
  <1>20. ASSUME NEW u \in User, ShutdownNext(u)  PROVE TypeOK'
    <2>1. sweep' \in SweepTable
      <3>1. "shutdown" \in Sweeper /\ sweep["shutdown"].todo \ {u} \in SUBSET User
        BY SweepLemma DEF Sweeper
      <3>2. QED
        BY <1>20, <3>1, SweepLemma DEF ShutdownNext
    <2>2. QED
      BY <1>20, <2>1 DEF ShutdownNext, TypeOK
  <1>forget. ASSUME ForgetAll
             PROVE  /\ sw' \in SwTable /\ session' \in SessionTable
                    /\ waiters' \in Seq(Request) /\ pc' \in PcTable
                    /\ local' \in LocalTable /\ sweep' \in SweepTable
                    /\ due' \in SUBSET User /\ reaperAlive' \in BOOLEAN
                    /\ proc' \in ProcessTable
    <2>1. NoLocals \in Locals
      BY PortAssumption, TimeoutAssumption DEF NoLocals, Locals, PortValue
    <2>2. QED
      <3>1. sw' \in SwTable
        BY <1>forget DEF ForgetAll, SwTable, SwState
      <3>2. session' \in SessionTable
        BY <1>forget DEF ForgetAll, SessionTable, NoEntries
      <3>3. pc' \in PcTable
        BY <1>forget DEF ForgetAll, PcTable, RequestPc
      <3>4. local' \in LocalTable
        BY <1>forget, <2>1 DEF ForgetAll, LocalTable
      <3>5. sweep' \in SweepTable
        <4>1. NoSweep \in Sweep
          BY DEF Sweep, NoSweep
        <4>2. QED
          BY <1>forget, <4>1 DEF ForgetAll, SweepTable
      <3>6. waiters' \in Seq(Request)
        <4>1. <<>> \in Seq(Request)
          OBVIOUS
        <4>2. QED
          BY <1>forget, <4>1 DEF ForgetAll
      <3>7. due' \in SUBSET User /\ reaperAlive' \in BOOLEAN /\ proc' \in ProcessTable
        BY <1>forget, Zenon DEF ForgetAll, TypeOK
      <3>8. QED
        BY <3>1, <3>2, <3>3, <3>4, <3>5, <3>6, <3>7
  <1>21. ASSUME NEW s \in Sweeper, StopRaises(s)  PROVE TypeOK'
    <2>1. CASE ForgetAll /\ mode' = "down" /\ UNCHANGED store
      BY <1>forget, <2>1 DEF TypeOK
    <2>2. CASE /\ reaperAlive' = FALSE
               /\ sweep' = [sweep EXCEPT ![s] = NoSweep]
               /\ UNCHANGED <<mode, sw, session, store, waiters, pc, local, due, proc>>
      <3>1. sweep' \in SweepTable
        BY <2>2, SweepLemma
      <3>2. QED
        BY <2>2, <3>1 DEF TypeOK
    <2>3. QED
      BY <1>21, <2>1, <2>2 DEF StopRaises
  <1>22. ASSUME NEW s \in Sweeper, Stop(s)  PROVE TypeOK'
    <2> DEFINE u == sweep[s].user
    <2>1. sw' \in SwTable
      BY <1>22, ShiftLemma DEF Stop, StateWhileStopping, TypeOK, SwState
    <2>2. pc' \in PcTable /\ waiters' \in Seq(Request)
      BY <1>22, NotifyLemma DEF Stop, NoNotifyAfter, TypeOK
    <2>3. session' \in SessionTable /\ store' \in Store
      BY <1>22, SetEntryLemma DEF Stop, TypeOK
    <2>4. sweep' \in SweepTable
      <3>1. CASE sweep' = [sweep EXCEPT ![s].pc = "killed"]
        <4>1. sweep' = [sweep EXCEPT ![s] = [sweep[s] EXCEPT !.pc = "killed"]]
          BY <3>1
        <4>2. QED
          BY <4>1, SweepLemma
      <3>2. CASE sweep' = [sweep EXCEPT ![s].pc = "idle", ![s].user = NoUser]
        BY <3>2 DEF TypeOK, SweepTable, Sweep
      <3>3. QED
        BY <1>22, <3>1, <3>2 DEF Stop
    <2>5. \A p \in Pid : [proc EXCEPT ![p] = Terminating(proc[p])] \in ProcessTable
      BY ProcessLemma
    <2>6. proc' \in ProcessTable
      BY <1>22, <2>5 DEF Stop, TypeOK
    <2>7. QED
      BY <1>22, <2>1, <2>2, <2>3, <2>4, <2>6 DEF Stop, TypeOK
  <1>23. ASSUME NEW s \in Sweeper, StopDone(s)  PROVE TypeOK'
    <2>1. pc' \in PcTable /\ waiters' \in Seq(Request)
      BY <1>23, NotifyLemma DEF StopDone, NoNotifyAfter, TypeOK
    <2>2. sweep' \in SweepTable
      BY <1>23 DEF StopDone, TypeOK, SweepTable, Sweep
    <2>3. QED
      BY <1>23, <2>1, <2>2, ShiftLemma DEF StopDone, TypeOK, SwState
  <1>24. ASSUME EndShutdown  PROVE TypeOK'
    <2>1. [kind |-> "missing", data |-> NoEntries] \in Store
      BY DEF Store, SessionTable, NoEntries
    <2>2. QED
      BY <1>24, <1>forget, <2>1 DEF EndShutdown, TypeOK
  <1>25. ASSUME Start  PROVE TypeOK'
    <2>1. FileStore(NoEntries) \in Store /\ NoEntries \in SessionTable
      BY DEF FileStore, Store, SessionTable, NoEntries
    <2>2. QED
      BY <1>25, <2>1, TypesLemma DEF Start, TypeOK
  <1>26. ASSUME Crash  PROVE TypeOK'
    <2>1. [kind |-> "torn", data |-> NoEntries] \in Store
      BY DEF Store, SessionTable, NoEntries
    <2>2. QED
      BY <1>26, <1>forget, <2>1 DEF Crash, TypeOK
  <1>27. ASSUME NEW p \in Pid, Boot(p)  PROVE TypeOK'
    <2>1. proc' \in ProcessTable
      BY <1>27, ProcessLemma DEF Boot
    <2>2. QED
      BY <1>27, <2>1 DEF Boot, TypeOK
  <1>28. ASSUME NEW p \in Pid, Exit(p)  PROVE TypeOK'
    <2>1. proc' \in ProcessTable
      BY <1>28, ProcessLemma DEF Exit
    <2>2. QED
      BY <1>28, <2>1 DEF Exit, TypeOK
  <1>29. CASE UNCHANGED vars
    BY <1>29 DEF vars, TypeOK
  <1>30. QED
    BY <1>1, <1>2, <1>3, <1>4, <1>5, <1>6, <1>7, <1>8, <1>9, <1>10, <1>11, <1>12, <1>13,
       <1>14, <1>15, <1>16, <1>17, <1>18, <1>19, <1>20, <1>21, <1>22, <1>23, <1>24, <1>25,
       <1>26, <1>27, <1>28, <1>29
       DEF Next, RequestStep, RequestProgress, ReaperStep, ShutdownStep, SweepStep, Sweeper

--------------------------------------------------------------------------------
(* The requests: whose step it is, and what it does to the others.         *)

\* A notify moves the request it wakes, and no other, away from the queue.
LEMMA WakeLemma ==
    ASSUME TypeOK, QueueOfWaiting, NEW f \in PcTable,
           \A q \in Request : pc[q] = "waiting" => f[q] = "waiting",
           NotifyAfter(f)
    PROVE  /\ QueueOfWaiting'
           /\ \A q \in Request : \/ pc'[q] = f[q]
                                 \/ pc[q] = "waiting" /\ pc'[q] = "assess"
  <1>1. CASE waiters = <<>>
    BY <1>1 DEF NotifyAfter, QueueOfWaiting, TypeOK
  <1>2. CASE waiters # <<>>
    <2>1. /\ Len(waiters) \in Nat \ {0}
          /\ \A i \in 1 .. Len(waiters) : waiters[i] \in Request
          /\ Head(waiters) = waiters[1]
          /\ Len(Tail(waiters)) = Len(waiters) - 1
          /\ \A i \in 1 .. Len(waiters) - 1 : Tail(waiters)[i] = waiters[i + 1]
      BY <1>2 DEF TypeOK
    <2>2. pc' = [f EXCEPT ![waiters[1]] = "assess"] /\ waiters' = Tail(waiters)
      BY <1>2, <2>1 DEF NotifyAfter
    <2>3. ASSUME NEW i \in 1 .. Len(waiters')
          PROVE  /\ waiters'[i] = waiters[i + 1] /\ i + 1 \in 1 .. Len(waiters)
                 /\ pc'[waiters'[i]] = "waiting"
      <3>1. waiters'[i] = waiters[i + 1] /\ i + 1 \in 1 .. Len(waiters)
        BY <2>1, <2>2
      <3>2. waiters[i + 1] # waiters[1] /\ waiters[i + 1] \in Request
        BY <2>1, <3>1 DEF QueueOfWaiting
      <3>3. pc[waiters[i + 1]] = "waiting"
        BY <3>1 DEF QueueOfWaiting
      <3>4. QED
        BY <2>2, <3>1, <3>2, <3>3 DEF PcTable
    <2>4. ASSUME NEW i \in 1 .. Len(waiters'), NEW j \in 1 .. Len(waiters'),
                 waiters'[i] = waiters'[j]
          PROVE  i = j
      <3>1. i + 1 = j + 1
        BY <2>3, <2>4 DEF QueueOfWaiting
      <3>2. QED
        BY <2>1, <2>2, <3>1
    <2>5. pc[waiters[1]] = "waiting"
      BY <2>1 DEF QueueOfWaiting
    <2>6. QED
      BY <2>1, <2>2, <2>3, <2>4, <2>5 DEF QueueOfWaiting, PcTable
  <1>3. QED
    BY <1>1, <1>2

\* ... and so does an action that ends with a notify or without one.
LEMMA MoveLemma ==
    ASSUME TypeOK, QueueOfWaiting, NEW r \in Request, pc[r] # "waiting",
           NEW label \in RequestPc \ {"waiting"},
           NotifyAfter(At(r, label)) \/ NoNotifyAfter(At(r, label))
    PROVE  /\ QueueOfWaiting'
           /\ pc'[r] = label
           /\ \A q \in Request : q # r => \/ pc'[q] = pc[q]
                                          \/ pc[q] = "waiting" /\ pc'[q] = "assess"
  <1>1. /\ At(r, label) \in PcTable
        /\ At(r, label)[r] = label
        /\ \A q \in Request : q # r => At(r, label)[q] = pc[q]
    BY AtLemma DEF At, TypeOK, PcTable
  <1>2. CASE NotifyAfter(At(r, label))
    BY <1>1, <1>2, WakeLemma
  <1>3. CASE NoNotifyAfter(At(r, label))
    BY <1>1, <1>3 DEF NoNotifyAfter, QueueOfWaiting, TypeOK
  <1>4. QED
    BY <1>2, <1>3

\* What a step of request r leaves alone, whatever the step: the other requests, but
\* for the one it wakes; the user of r, until r ends; the states of the other users,
\* and of its own unless it owns the start or becomes the owner.
OthersUndisturbed(r) ==
    /\ pc[r] # "idle" /\ pc[r] # "waiting"
    /\ \A q \in Request : q # r =>
          /\ local'[q] = local[q]
          /\ pc'[q] = pc[q] \/ (pc[q] = "waiting" /\ pc'[q] = "assess")
    /\ pc'[r] # "idle" => local'[r].user = local[r].user
    /\ \A v \in User : v # Me(r) => sw'[v] = sw[v]
    /\ pc'[r] \in StarterPc => \/ pc[r] \in StarterPc /\ sw' = sw
                               \/ StateOf(Me(r)) = "NOT RUNNING" /\ sw'[Me(r)] = "STARTING"
    /\ pc[r] \notin StarterPc /\ pc'[r] \notin StarterPc => sw' = sw
    /\ UNCHANGED <<mode, sweep>>

\* Every step of a request in root() or storm_webdav_state leaves the rest alone, and
\* the queue keeps its shape.
LEMMA RequestStepLemma ==
    ASSUME TypeOK, UsersKnown, QueueOfWaiting, NEW r \in Request, RequestStep(r)
    PROVE  QueueOfWaiting' /\ OthersUndisturbed(r)
  <1> DEFINE Goal == QueueOfWaiting' /\ OthersUndisturbed(r)
  <1>types. pc \in PcTable /\ local \in LocalTable /\ sw \in SwTable
    BY DEF TypeOK
  <1>end. ASSUME EndRequest(r)  PROVE \A q \in Request : q # r => local'[q] = local[q]
    BY <1>end, <1>types DEF EndRequest, LocalTable
  <1>keep. ASSUME NEW port, local' = KeepOnly(r, port)
           PROVE  /\ \A q \in Request : q # r => local'[q] = local[q]
                  /\ local'[r].user = local[r].user
    BY <1>keep, <1>types, LocalLemma DEF KeepOnly, LocalTable
  <1>field. ASSUME NEW v, \/ local' = [local EXCEPT ![r].port = v]
                          \/ local' = [local EXCEPT ![r].pid = v]
                          \/ local' = [local EXCEPT ![r].loops = v]
            PROVE  /\ \A q \in Request : q # r => local'[q] = local[q]
                   /\ local'[r].user = local[r].user
    BY <1>field, <1>types DEF LocalTable, Locals
  <1>shift. ASSUME NEW from, NEW to, sw' = ShiftedIf(Me(r), from, to)
            PROVE  \A v \in User : v # Me(r) => sw'[v] = sw[v]
    BY <1>shift, <1>types DEF ShiftedIf, SwTable
  <1>labels. /\ StarterPc \subseteq RequestPc \ {"waiting", "idle"}
             /\ {"idle", "assess", "lookup", "forward", "send", "stream"}
                    \subseteq RequestPc \ {"waiting"}
             /\ {"idle", "assess", "lookup", "forward", "send", "stream"} \cap StarterPc = {}
    BY DEF StarterPc, RequestPc
  <1>abort. ASSUME Abort(r), pc[r] \in StarterPc  PROVE Goal
    <2>1. NoNotifyAfter(At(r, "idle")) /\ EndRequest(r) /\ UNCHANGED <<mode, sw, sweep>>
      BY <1>abort DEF Abort, NoNotifyAfter
    <2>2. QED
      BY <1>abort, <1>end, <1>labels, <2>1, MoveLemma DEF OthersUndisturbed
  <1>Assess. ASSUME Assess(r)  PROVE Goal
    <2>1. pc[r] = "assess" /\ UNCHANGED <<mode, local, sweep>>
      BY <1>Assess DEF Assess
    <2>2. CASE NoNotifyAfter(At(r, "lookup")) /\ UNCHANGED sw
      BY <1>labels, <2>1, <2>2, MoveLemma DEF OthersUndisturbed
    <2>3. CASE /\ StateOf(Me(r)) = "NOT RUNNING"
               /\ sw' = [sw EXCEPT ![Me(r)] = "STARTING"] /\ NotifyAfter(At(r, "port"))
      <3>1. Me(r) \in User
        BY <2>1 DEF UsersKnown
      <3>2. sw'[Me(r)] = "STARTING" /\ \A v \in User : v # Me(r) => sw'[v] = sw[v]
        BY <1>types, <2>3, <3>1 DEF SwTable
      <3>3. pc[r] \notin StarterPc /\ "port" \in StarterPc
        BY <2>1 DEF StarterPc
      <3>4. QED
        BY <1>labels, <2>1, <2>3, <3>2, <3>3, MoveLemma DEF OthersUndisturbed
    <2>4. CASE pc' = At(r, "waiting") /\ waiters' = Append(waiters, r) /\ UNCHANGED sw
      <3>1. /\ Len(waiters') = Len(waiters) + 1
            /\ Len(waiters) \in Nat
            /\ waiters'[Len(waiters) + 1] = r
            /\ \A i \in 1 .. Len(waiters) : waiters'[i] = waiters[i]
            /\ \A i \in 1 .. Len(waiters) : waiters[i] \in Request
        BY <2>4 DEF TypeOK
      <3>2. pc'[r] = "waiting" /\ \A q \in Request : q # r => pc'[q] = pc[q]
        BY <1>types, <2>4 DEF At, PcTable
      <3>3. \A i \in 1 .. Len(waiters) : waiters[i] # r /\ pc[waiters[i]] = "waiting"
        BY <2>1 DEF QueueOfWaiting
      <3>4. QueueOfWaiting'
        <4>1. ASSUME NEW i \in 1 .. Len(waiters')  PROVE pc'[waiters'[i]] = "waiting"
          BY <3>1, <3>2, <3>3
        <4>2. ASSUME NEW i \in 1 .. Len(waiters'), NEW j \in 1 .. Len(waiters'),
                     waiters'[i] = waiters'[j]
              PROVE  i = j
          BY <3>1, <3>3, <4>2 DEF QueueOfWaiting
        <4>3. QED
          BY <4>1, <4>2 DEF QueueOfWaiting
      <3>5. QED
        BY <2>1, <2>4, <3>2, <3>4 DEF OthersUndisturbed, StarterPc
    <2>5. QED
      <3>1. StateOf(Me(r)) \in {"NOT RUNNING", "STARTING", "RUNNING", "STOPPING"}
        BY <1>types, <2>1 DEF UsersKnown, StateOf, SwTable, SwState
      <3>2. QED
        BY <1>Assess, <2>2, <2>3, <2>4, <3>1 DEF Assess, MustWait
  <1>Lookup. ASSUME Lookup(r)  PROVE Goal
    <2>1. pc[r] = "lookup" /\ UNCHANGED <<mode, sw, sweep>>
      BY <1>Lookup DEF Lookup
    <2>2. CASE NoNotifyAfter(At(r, "idle")) /\ EndRequest(r)
      BY <1>end, <1>labels, <2>1, <2>2, MoveLemma DEF OthersUndisturbed
    <2>3. CASE /\ NoNotifyAfter(At(r, "forward"))
               /\ local' = [local EXCEPT ![r].port = session[Me(r)].port]
      BY <1>field, <1>labels, <2>1, <2>3, MoveLemma DEF OthersUndisturbed
    <2>4. QED
      BY <1>Lookup, <2>2, <2>3 DEF Lookup, NoNotifyAfter
  <1>FindPort. ASSUME FindPort(r)  PROVE Goal
    <2>1. pc[r] = "port" /\ pc[r] \in StarterPc
      BY <1>FindPort DEF FindPort, StarterPc
    <2>2. CASE Abort(r)
      BY <1>abort, <2>1, <2>2
    <2>3. ASSUME NEW label \in {"reject", "failed"}, NoNotifyAfter(At(r, label)),
                 UNCHANGED <<mode, sw, sweep, local>>
          PROVE  Goal
      <3>1. label \in StarterPc
        BY DEF StarterPc
      <3>2. QED
        BY <1>labels, <2>1, <2>3, <3>1, MoveLemma DEF OthersUndisturbed
    <2>4. CASE /\ NoNotifyAfter(At(r, "spawned")) /\ UNCHANGED <<mode, sw, sweep>>
               /\ \E q : local' = [local EXCEPT ![r].port = q]
      <3>1. "spawned" \in StarterPc
        BY DEF StarterPc
      <3>2. QED
        BY <1>field, <1>labels, <2>1, <2>4, <3>1, MoveLemma DEF OthersUndisturbed
    <2>5. QED
      BY <1>FindPort, <2>2, <2>3, <2>4 DEF FindPort, NoNotifyAfter
  <1>Locate. ASSUME Locate(r)  PROVE Goal
    <2>1. pc[r] = "spawned" /\ {pc[r], "probe", "failed"} \subseteq StarterPc
      BY <1>Locate DEF Locate, StarterPc
    <2>2. CASE Abort(r)
      BY <1>abort, <2>1, <2>2
    <2>3. CASE /\ NoNotifyAfter(At(r, "probe")) /\ UNCHANGED <<mode, sw, sweep>>
               /\ \E p : local' = [local EXCEPT ![r].pid = p]
      BY <1>field, <1>labels, <2>1, <2>3, MoveLemma DEF OthersUndisturbed
    <2>4. CASE /\ NoNotifyAfter(At(r, "failed")) /\ UNCHANGED <<mode, sw, sweep>>
               /\ local' = KeepOnly(r, -1)
      BY <1>keep, <1>labels, <2>1, <2>4, MoveLemma DEF OthersUndisturbed
    <2>5. QED
      BY <1>Locate, <2>2, <2>3, <2>4 DEF Locate, NoNotifyAfter
  <1>Probe. ASSUME Probe(r)  PROVE Goal
    <2>1. pc[r] = "probe" /\ {pc[r], "giveup", "publish"} \subseteq StarterPc
      BY <1>Probe DEF Probe, StarterPc
    <2>2. UNCHANGED <<mode, sw, sweep, waiters>>
      BY <1>Probe DEF Probe
    <2>3. CASE NoNotifyAfter(At(r, "giveup")) /\ local' = KeepOnly(r, -1)
      BY <1>keep, <1>labels, <2>1, <2>2, <2>3, MoveLemma DEF OthersUndisturbed
    <2>4. CASE NoNotifyAfter(At(r, "publish")) /\ UNCHANGED local
      BY <1>labels, <2>1, <2>2, <2>4, MoveLemma DEF OthersUndisturbed
    <2>5. CASE UNCHANGED pc /\ \E n : local' = [local EXCEPT ![r].loops = n]
      BY <1>field, <1>labels, <2>1, <2>2, <2>5 DEF OthersUndisturbed, QueueOfWaiting
    <2>6. QED
      BY <1>Probe, <2>2, <2>3, <2>4, <2>5 DEF Probe, NoNotifyAfter
  <1>StartRaises. ASSUME StartRaises(r)  PROVE Goal
    BY <1>StartRaises, <1>abort DEF StartRaises, StarterPc
  <1>Reject. ASSUME Reject(r)  PROVE Goal
    <2>1. /\ pc[r] = "reject" /\ NoNotifyAfter(At(r, "idle")) /\ EndRequest(r)
          /\ UNCHANGED <<mode, sweep>>
      BY <1>Reject DEF Reject
    <2>2. \A v \in User : v # Me(r) => sw'[v] = sw[v]
      BY <1>Reject, <1>types DEF Reject, SwTable
    <2>3. QED
      BY <1>end, <1>labels, <2>1, <2>2, MoveLemma DEF OthersUndisturbed, StarterPc
  <1>GiveUp. ASSUME GiveUp(r)  PROVE Goal
    <2>1. /\ pc[r] = "giveup" /\ EndRequest(r)
          /\ NotifyAfter(At(r, "idle")) \/ NoNotifyAfter(At(r, "idle"))
          /\ \E to : sw' = ShiftedIf(Me(r), "STARTING", to)
          /\ UNCHANGED <<mode, sweep>>
      BY <1>GiveUp DEF GiveUp
    <2>2. QED
      BY <1>end, <1>shift, <1>labels, <2>1, MoveLemma DEF OthersUndisturbed, StarterPc
  <1>StartFailed. ASSUME StartFailed(r)  PROVE Goal
    <2>1. /\ pc[r] = "failed" /\ EndRequest(r)
          /\ NotifyAfter(At(r, "idle")) \/ NoNotifyAfter(At(r, "idle"))
          /\ \E to : sw' = ShiftedIf(Me(r), "STARTING", to)
          /\ UNCHANGED <<mode, sweep>>
      BY <1>StartFailed DEF StartFailed
    <2>2. QED
      BY <1>end, <1>shift, <1>labels, <2>1, MoveLemma DEF OthersUndisturbed, StarterPc
  <1>Publish. ASSUME Publish(r)  PROVE Goal
    <2>1. /\ pc[r] = "publish" /\ (\E port : local' = KeepOnly(r, port))
          /\ NotifyAfter(At(r, "forward")) \/ NoNotifyAfter(At(r, "forward"))
          /\ \E to : sw' = ShiftedIf(Me(r), "STARTING", to)
          /\ UNCHANGED <<mode, sweep>>
      BY <1>Publish DEF Publish
    <2>2. QED
      BY <1>keep, <1>shift, <1>labels, <2>1, MoveLemma, ZenonT(60) DEF OthersUndisturbed, StarterPc
  <1>Forward. ASSUME Forward(r)  PROVE Goal
    <2>1. /\ pc[r] = "forward" /\ NoNotifyAfter(At(r, "send")) /\ UNCHANGED local
          /\ UNCHANGED <<mode, sw, sweep>>
      BY <1>Forward DEF Forward, NoNotifyAfter
    <2>2. QED
      BY <1>labels, <2>1, MoveLemma DEF OthersUndisturbed
  <1>Respond. ASSUME Respond(r)  PROVE Goal
    <2>1. /\ pc[r] = "send" /\ NoNotifyAfter(At(r, "stream")) /\ UNCHANGED local
          /\ UNCHANGED <<mode, sw, sweep>>
      BY <1>Respond DEF Respond, NoNotifyAfter
    <2>2. QED
      BY <1>labels, <2>1, MoveLemma DEF OthersUndisturbed
  <1>SendFails. ASSUME SendFails(r)  PROVE Goal
    <2>1. /\ pc[r] = "send" /\ NoNotifyAfter(At(r, "idle")) /\ EndRequest(r)
          /\ UNCHANGED <<mode, sw, sweep>>
      BY <1>SendFails DEF SendFails, NoNotifyAfter
    <2>2. QED
      BY <1>end, <1>labels, <2>1, MoveLemma DEF OthersUndisturbed
  <1>Complete. ASSUME Complete(r)  PROVE Goal
    <2>1. /\ pc[r] = "stream" /\ NoNotifyAfter(At(r, "idle")) /\ EndRequest(r)
          /\ UNCHANGED <<mode, sw, sweep>>
      BY <1>Complete DEF Complete, NoNotifyAfter
    <2>2. QED
      BY <1>end, <1>labels, <2>1, MoveLemma DEF OthersUndisturbed
  <1>Leak. ASSUME Leak(r)  PROVE Goal
    <2>1. /\ pc[r] = "stream" /\ NoNotifyAfter(At(r, "idle")) /\ EndRequest(r)
          /\ UNCHANGED <<mode, sw, sweep>>
      BY <1>Leak DEF Leak, NoNotifyAfter
    <2>2. QED
      BY <1>end, <1>labels, <2>1, MoveLemma DEF OthersUndisturbed
  <1>. QED
    BY <1>Assess, <1>Lookup, <1>FindPort, <1>Locate, <1>Probe, <1>StartRaises, <1>Reject,
       <1>GiveUp, <1>StartFailed, <1>Publish, <1>Forward, <1>Respond, <1>SendFails,
       <1>Complete, <1>Leak DEF RequestStep, RequestProgress

\* A step of the reaper or the shutdown on the tables: it may wake one request, and it
\* moves one user from RUNNING to STOPPING or from STOPPING to NOT RUNNING.
LEMMA StopStepLemma ==
    ASSUME TypeOK, UsersKnown, QueueOfWaiting, NEW s \in Sweeper, Stop(s) \/ StopDone(s)
    PROVE  /\ QueueOfWaiting'
           /\ UNCHANGED <<mode, local>>
           /\ \A q \in Request : \/ pc'[q] = pc[q]
                                 \/ pc[q] = "waiting" /\ pc'[q] = "assess"
           /\ \A v \in User : \/ sw'[v] = sw[v]
                              \/ sw[v] = "RUNNING" /\ sw'[v] = "STOPPING"
                              \/ sw[v] = "STOPPING" /\ sw'[v] = "NOT RUNNING"
           /\ \A w \in Sweeper : w # s => sweep'[w] = sweep[w]
           /\ sweep[s].pc # "idle"
           /\ sweep'[s].pc # "idle" => sweep'[s].user = sweep[s].user
           /\ sweep'[s].todo = sweep[s].todo
  <1>types. pc \in PcTable /\ sw \in SwTable /\ sweep \in SweepTable
    BY DEF TypeOK
  <1>1. ASSUME NotifyAfter(pc) \/ NoNotifyAfter(pc)
        PROVE  /\ QueueOfWaiting'
               /\ \A q \in Request : \/ pc'[q] = pc[q]
                                     \/ pc[q] = "waiting" /\ pc'[q] = "assess"
    <2>1. CASE NotifyAfter(pc)
      BY <1>types, <2>1, WakeLemma
    <2>2. CASE NoNotifyAfter(pc)
      BY <2>2 DEF NoNotifyAfter, QueueOfWaiting
    <2>3. QED
      BY <1>1, <2>1, <2>2
  <1>2. ASSUME NEW l \in {"idle", "killed"},
               \/ sweep' = [sweep EXCEPT ![s].pc = l]
               \/ l = "idle" /\ sweep' = [sweep EXCEPT ![s].pc = l, ![s].user = NoUser]
        PROVE  /\ \A w \in Sweeper : w # s => sweep'[w] = sweep[w]
               /\ sweep'[s].pc # "idle" => sweep'[s].user = sweep[s].user
               /\ sweep'[s].todo = sweep[s].todo
    BY <1>types, <1>2 DEF SweepTable, Sweep
  <1>3. CASE Stop(s)
    <2>1. NotifyAfter(pc) \/ NoNotifyAfter(pc)
      BY <1>3 DEF Stop
    <2>2. sw' = ShiftedIf(sweep[s].user, "RUNNING", "STOPPING")
      BY <1>3 DEF Stop, StateWhileStopping
    <2>3. UNCHANGED <<mode, local>> /\ sweep[s].pc # "idle"
      BY <1>3 DEF Stop
    <2>4. \/ sweep' = [sweep EXCEPT ![s].pc = "killed"]
          \/ sweep' = [sweep EXCEPT ![s].pc = "idle", ![s].user = NoUser]
      BY <1>3 DEF Stop
    <2>5. \A v \in User : \/ sw'[v] = sw[v]
                          \/ sw[v] = "RUNNING" /\ sw'[v] = "STOPPING"
      BY <1>types, <2>2 DEF ShiftedIf, SwTable
    <2>6. QED
      BY <1>1, <1>2, <2>1, <2>3, <2>4, <2>5
  <1>4. CASE StopDone(s)
    <2>1. NotifyAfter(pc) \/ NoNotifyAfter(pc)
      BY <1>4 DEF StopDone
    <2>2. sw' = ShiftedIf(sweep[s].user, "STOPPING", "NOT RUNNING")
      BY <1>4 DEF StopDone
    <2>3. UNCHANGED <<mode, local>> /\ sweep[s].pc # "idle"
      BY <1>4 DEF StopDone
    <2>4. sweep' = [sweep EXCEPT ![s].pc = "idle", ![s].user = NoUser]
      BY <1>4 DEF StopDone
    <2>5. \A v \in User : \/ sw'[v] = sw[v]
                          \/ sw[v] = "STOPPING" /\ sw'[v] = "NOT RUNNING"
      BY <1>types, <2>2 DEF ShiftedIf, SwTable
    <2>6. QED
      BY <1>1, <1>2, <2>1, <2>3, <2>4, <2>5
  <1>5. QED
    BY <1>3, <1>4

\* A step that only chooses whose instance to stop next, and when.
Choosing ==
    Wake \/ BeginShutdown \/ \E u \in User : Scan(u) \/ ShutdownNext(u)

\* A step that takes the whole Teapot process away.
Leaving == EndShutdown \/ Crash \/ (ForgetAll /\ mode' = "down" /\ UNCHANGED store)

\* The reaper dies of a user that is not in sw_state.
ReaperDies ==
    /\ sweep' = [sweep EXCEPT !["reaper"] = NoSweep]
    /\ UNCHANGED <<mode, sw, session, store, waiters, pc, local, due, proc>>

\* Every step is one of these: the case split of the proofs below.
LEMMA NextLemma ==
    ASSUME [Next]_vars
    PROVE  \/ \E r \in Request, u \in User : Arrive(r, u)
           \/ \E r \in Request : RequestStep(r)
           \/ \E s \in Sweeper : Stop(s) \/ StopDone(s)
           \/ Choosing
           \/ Leaving
           \/ ReaperDies
           \/ Start
           \/ \E p \in Pid : Boot(p) \/ Exit(p)
           \/ UNCHANGED vars
  <1>1. ASSUME NEW s \in Sweeper, StopRaises(s)  PROVE Leaving \/ ReaperDies
    BY <1>1 DEF StopRaises, Leaving, ReaperDies
  <1>2. ASSUME NEW s \in Sweeper, SweepStep(s)
        PROVE  Stop(s) \/ StopDone(s) \/ Leaving \/ ReaperDies
    BY <1>1, <1>2 DEF SweepStep
  <1>3. CASE ReaperStep
    BY <1>2, <1>3 DEF ReaperStep, Sweeper, Choosing
  <1>4. CASE ShutdownStep
    BY <1>2, <1>4 DEF ShutdownStep, Sweeper, Choosing, Leaving
  <1>5. QED
    BY <1>3, <1>4 DEF Next, Choosing, Leaving

\* Choosing whom to stop next touches neither the tables nor the requests, and a walk
\* only ever goes on to a user.
LEMMA ChoosingLemma ==
    ASSUME TypeOK, Choosing
    PROVE  /\ UNCHANGED <<sw, session, store, waiters, pc, local, proc>>
           /\ mode \in {"serving", "shutdown"} \/ \E s \in Sweeper : sweep[s].todo # {}
           /\ mode' = mode \/ (mode = "serving" /\ mode' = "shutdown")
           /\ \A s \in Sweeper : sweep'[s].pc # "idle" /\ sweep[s].pc = "idle"
                                   => sweep'[s].user \in User
           /\ \A s \in Sweeper : sweep'[s].pc # "idle" /\ sweep[s].pc # "idle"
                                   => sweep'[s].user = sweep[s].user
  <1>types. sweep \in SweepTable /\ Sweeper = {"reaper", "shutdown"}
    BY DEF TypeOK, Sweeper
  <1>1. CASE Wake
    BY <1>1, <1>types DEF Wake, SweepTable, Sweep
  <1>2. CASE BeginShutdown
    BY <1>2, <1>types DEF BeginShutdown, SweepTable, Sweep
  <1>3. ASSUME NEW u \in User, Scan(u)
        PROVE  /\ UNCHANGED <<sw, session, store, waiters, pc, local, proc, mode>>
               /\ sweep["reaper"].pc = "idle" /\ sweep["reaper"].todo # {}
               /\ sweep'["shutdown"] = sweep["shutdown"]
               /\ sweep'["reaper"].pc # "idle" => sweep'["reaper"].user = u
    BY <1>3, <1>types DEF Scan, SweepTable, Sweep
  <1>4. ASSUME NEW u \in User, ShutdownNext(u)
        PROVE  /\ UNCHANGED <<sw, session, store, waiters, pc, local, proc, mode>>
               /\ sweep["shutdown"].pc = "idle" /\ sweep["shutdown"].todo # {}
               /\ sweep'["reaper"] = sweep["reaper"]
               /\ sweep'["shutdown"].pc # "idle" => sweep'["shutdown"].user = u
    BY <1>4, <1>types DEF ShutdownNext, SweepTable, Sweep
  <1>5. QED
    BY <1>1, <1>2, <1>3, <1>4, <1>types DEF Choosing

\* Every end of the Teapot process, a kill or a shutdown, forgets its whole memory.
LEMMA LeavingLemma ==
    ASSUME Leaving
    PROVE  /\ ForgetAll
           /\ mode' \notin {"serving", "shutdown"}
  BY DEF Leaving, EndShutdown, Crash

--------------------------------------------------------------------------------
(* The parts of the invariant that concern who is at work.                 *)

\* A task under way keeps the user it was given.
LEMMA UsersInductive ==
    ASSUME TypeOK, UsersKnown, QueueOfWaiting, [Next]_vars
    PROVE  UsersKnown'
  <1>types. local \in LocalTable /\ pc \in PcTable
    BY DEF TypeOK
  <1>1. ASSUME NEW r \in Request, NEW u \in User, Arrive(r, u)  PROVE UsersKnown'
    BY <1>1, <1>types DEF Arrive, UsersKnown, Me, At, PcTable, LocalTable, Locals
  <1>2. ASSUME NEW r \in Request, RequestStep(r)  PROVE UsersKnown'
    BY <1>2, RequestStepLemma DEF OthersUndisturbed, UsersKnown, Me
  <1>3. ASSUME NEW s \in Sweeper, Stop(s) \/ StopDone(s)  PROVE UsersKnown'
    BY <1>3, StopStepLemma DEF UsersKnown, Me
  <1>4. CASE Choosing
    BY <1>4, ChoosingLemma DEF UsersKnown, Me
  <1>5. CASE Leaving
    BY <1>5, LeavingLemma DEF ForgetAll, UsersKnown, NoSweep
  <1>6. CASE ReaperDies
    BY <1>6 DEF ReaperDies, UsersKnown, Me, NoSweep, TypeOK, SweepTable
  <1>7. CASE \/ Start \/ UNCHANGED vars
             \/ \E p \in Pid : Boot(p) \/ Exit(p)
    BY <1>7 DEF Start, Boot, Exit, vars, UsersKnown, Me
  <1>8. QED
    BY <1>1, <1>2, <1>3, <1>4, <1>5, <1>6, <1>7, NextLemma

\* The queue of sw_condition gains and loses only requests that wait.
LEMMA QueueInductive ==
    ASSUME TypeOK, UsersKnown, QueueOfWaiting, [Next]_vars
    PROVE  QueueOfWaiting'
  <1>1. ASSUME NEW r \in Request, NEW u \in User, Arrive(r, u)  PROVE QueueOfWaiting'
    <2>1. NoNotifyAfter(At(r, "assess")) /\ pc[r] # "waiting"
      BY <1>1 DEF Arrive, NoNotifyAfter
    <2>2. QED
      BY <2>1, MoveLemma DEF RequestPc
  <1>2. ASSUME NEW r \in Request, RequestStep(r)  PROVE QueueOfWaiting'
    BY <1>2, RequestStepLemma
  <1>3. ASSUME NEW s \in Sweeper, Stop(s) \/ StopDone(s)  PROVE QueueOfWaiting'
    BY <1>3, StopStepLemma
  <1>4. CASE Leaving
    BY <1>4, LeavingLemma DEF ForgetAll, QueueOfWaiting
  <1>5. CASE UNCHANGED <<pc, waiters>>
    BY <1>5 DEF QueueOfWaiting
  <1>6. QED
    BY <1>1, <1>2, <1>3, <1>4, <1>5, NextLemma, ChoosingLemma
       DEF ReaperDies, Start, Boot, Exit, vars

\* A process that has ended leaves no task behind.
LEMMA QuietInductive ==
    ASSUME TypeOK, UsersKnown, QueueOfWaiting, NothingWhileDown, [Next]_vars
    PROVE  NothingWhileDown'
  <1>1. ASSUME NEW r \in Request, NEW u \in User, Arrive(r, u)  PROVE NothingWhileDown'
    BY <1>1 DEF Arrive, NothingWhileDown
  <1>2. ASSUME NEW r \in Request, RequestStep(r)  PROVE NothingWhileDown'
    BY <1>2, RequestStepLemma DEF OthersUndisturbed, NothingWhileDown
  <1>3. ASSUME NEW s \in Sweeper, Stop(s) \/ StopDone(s)  PROVE NothingWhileDown'
    BY <1>3, StopStepLemma DEF NothingWhileDown
  <1>4. CASE Choosing
    BY <1>4, ChoosingLemma DEF NothingWhileDown
  <1>5. CASE Leaving
    BY <1>5, LeavingLemma DEF ForgetAll, NothingWhileDown, NoSweep
  <1>6. CASE ReaperDies
    BY <1>6 DEF ReaperDies, NothingWhileDown, NoSweep, TypeOK, SweepTable
  <1>7. CASE Start
    BY <1>7 DEF Start, NothingWhileDown
  <1>8. CASE UNCHANGED <<mode, sw, pc, sweep>>
    BY <1>8 DEF NothingWhileDown
  <1>9. QED
    BY <1>1, <1>2, <1>3, <1>4, <1>5, <1>6, <1>7, <1>8, NextLemma DEF Boot, Exit, vars

--------------------------------------------------------------------------------
(* One start at a time.                                                    *)

\* Nobody becomes a starter of a user that has one, and nobody but the starter takes
\* STARTING back.
LEMMA OneStarterInductive ==
    ASSUME TypeOK, UsersKnown, QueueOfWaiting, OneStarter, [Next]_vars
    PROVE  OneStarter'
  <1>waiting. "waiting" \notin StarterPc /\ "assess" \notin StarterPc /\ "idle" \notin StarterPc
    BY DEF StarterPc
  <1>users. \A r \in Request : pc[r] \in StarterPc => local[r].user \in User
    BY <1>waiting DEF UsersKnown, Me
  <1>one. \A q \in Request : pc[q] \in StarterPc =>
              /\ sw[local[q].user] = "STARTING"
              /\ \A k \in Request : pc[k] \in StarterPc /\ local[k].user = local[q].user
                                        => k = q
    BY DEF OneStarter, Me
  <1>1. ASSUME NEW r \in Request, NEW u \in User, Arrive(r, u)  PROVE OneStarter'
    BY <1>1, <1>waiting, <1>one DEF Arrive, At, TypeOK, PcTable, LocalTable, OneStarter, Me
  <1>2. ASSUME NEW r \in Request, RequestStep(r)  PROVE OneStarter'
    <2>1. OthersUndisturbed(r) /\ local[r].user \in User
      BY <1>2, RequestStepLemma DEF OthersUndisturbed, UsersKnown, Me
    <2>2. \A q \in Request : q # r /\ pc'[q] \in StarterPc =>
              pc[q] \in StarterPc /\ local'[q].user = local[q].user
      BY <2>1, <1>waiting DEF OthersUndisturbed
    <2>3. CASE pc'[r] \in StarterPc /\ pc[r] \in StarterPc
      <3>1. local'[r].user = local[r].user
        BY <2>1, <2>3, <1>waiting DEF OthersUndisturbed
      <3>2. StateOf(local[r].user) # "NOT RUNNING"
        BY <2>3, <1>one DEF StateOf
      <3>3. sw' = sw
        BY <2>1, <2>3, <3>2 DEF OthersUndisturbed, Me
      <3>4. QED
        BY <2>2, <2>3, <3>1, <3>3, <1>one DEF OneStarter, Me
    <2>4. CASE pc'[r] \in StarterPc /\ pc[r] \notin StarterPc
      <3>1. /\ sw[local[r].user] # "STARTING" /\ sw'[local[r].user] = "STARTING"
            /\ local'[r].user = local[r].user
        BY <2>1, <2>4, <1>waiting DEF OthersUndisturbed, StateOf, Me
      <3>2. \A q \in Request : q # r /\ pc'[q] \in StarterPc =>
                /\ local'[q].user # local[r].user
                /\ sw'[local'[q].user] = "STARTING"
        <4>1. \A q \in Request : q # r /\ pc'[q] \in StarterPc =>
                  /\ local[q].user # local[r].user /\ local[q].user \in User
                  /\ sw[local[q].user] = "STARTING"
          BY <2>2, <3>1, <1>users, <1>one
        <4>2. \A v \in User : v # local[r].user => sw'[v] = sw[v]
          BY <2>1 DEF OthersUndisturbed, Me
        <4>3. QED
          BY <2>2, <4>1, <4>2
      <3>3. \A q, k \in Request : (/\ q # r /\ pc'[q] \in StarterPc
                                   /\ k # r /\ pc'[k] \in StarterPc
                                   /\ local'[k].user = local'[q].user) => k = q
        BY <2>2, <1>one
      <3>4. QED
        BY <3>1, <3>2, <3>3 DEF OneStarter, Me
    <2>5. CASE pc'[r] \notin StarterPc
      <3>1. \A q \in Request : q # r /\ pc'[q] \in StarterPc =>
                sw'[local[q].user] = sw[local[q].user]
        BY <2>1, <2>2, <2>5, <1>users, <1>one DEF OthersUndisturbed, Me
      <3>2. QED
        BY <2>2, <2>5, <3>1, <1>one DEF OneStarter, Me
    <2>6. QED
      BY <2>3, <2>4, <2>5
  <1>3. ASSUME NEW s \in Sweeper, Stop(s) \/ StopDone(s)  PROVE OneStarter'
    <2>1. \A q \in Request : pc'[q] \in StarterPc =>
              /\ pc[q] \in StarterPc /\ local'[q].user = local[q].user
              /\ sw'[local[q].user] = sw[local[q].user]
      BY <1>3, <1>waiting, <1>users, <1>one, StopStepLemma
    <2>2. QED
      BY <2>1, <1>one DEF OneStarter, Me
  <1>4. CASE Leaving
    BY <1>4, <1>waiting, LeavingLemma DEF ForgetAll, OneStarter
  <1>5. CASE UNCHANGED <<sw, pc, local>>
    BY <1>5 DEF OneStarter, Me
  <1>6. QED
    BY <1>1, <1>2, <1>3, <1>4, <1>5, NextLemma, ChoosingLemma
       DEF ReaperDies, Start, Boot, Exit, vars

--------------------------------------------------------------------------------
(* What a start leaves behind: its locals, the tables, the file.           *)

\* A request gets to the readiness loop only with a pid, and out of it only with a port
\* that somebody listens on.
LEMMA StarterHasInstanceInductive ==
    ASSUME TypeOK, UsersKnown, QueueOfWaiting, StarterHasInstance, [Next]_vars
    PROVE  StarterHasInstance'
  <1> DEFINE LocalsFit(q) == /\ pc'[q] \in {"probe", "publish"} => local'[q].pid # NoPid
                             /\ pc'[q] = "publish" => local'[q].port > 0
             PortsFit == \A p \in Pid : proc'[p].st \in {"booting", "up"} => proc'[p].port >= 0
  <1>types. pc \in PcTable /\ local \in LocalTable /\ proc \in ProcessTable
    BY DEF TypeOK
  <1>keep. UNCHANGED proc => PortsFit
    BY DEF StarterHasInstance
  <1>gone. ASSUME NEW p \in Pid, proc' = [proc EXCEPT ![p] = NoProcess]  PROVE PortsFit
    BY <1>gone, <1>types DEF ProcessTable, NoProcess, StarterHasInstance
  <1>same. ASSUME NEW q \in Request, pc'[q] = pc[q] \/ pc'[q] \notin {"probe", "publish"},
                  local'[q] = local[q] \/ pc'[q] \notin {"probe", "publish"}
           PROVE  LocalsFit(q)
    BY <1>same DEF StarterHasInstance
  <1>1. ASSUME NEW r \in Request, NEW u \in User, Arrive(r, u)  PROVE StarterHasInstance'
    BY <1>1, <1>keep, <1>same, <1>types
       DEF Arrive, At, PcTable, LocalTable, StarterHasInstance
  <1>2. ASSUME NEW r \in Request, RequestStep(r)  PROVE StarterHasInstance'
    <2>1. \A q \in Request : q # r => LocalsFit(q)
      BY <1>2, <1>same, RequestStepLemma DEF OthersUndisturbed
    <2>2. CASE FindPort(r)
      <3>1. pc'[r] \notin {"probe", "publish"}
        BY <1>types, <2>2 DEF FindPort, Abort, At, PcTable
      <3>2. PortsFit
        <4>1. CASE UNCHANGED proc
          BY <1>keep, <4>1
        <4>2. ASSUME NEW p \in Pid, NEW q \in UsablePort,
                     proc' = [proc EXCEPT ![p] =
                                 [st |-> "booting", user |-> Me(r), port |-> q]]
              PROVE  PortsFit
          <5>1. q >= 0
            BY PortAssumption DEF UsablePort
          <5>2. QED
            BY <1>types, <4>2, <5>1 DEF ProcessTable, StarterHasInstance
        <4>3. QED
          BY <2>2, <4>1, <4>2 DEF FindPort, Abort, FreshPid
      <3>3. QED
        BY <2>1, <3>1, <3>2 DEF StarterHasInstance
    <2>3. CASE Locate(r)
      <3>1. PortsFit
        BY <2>3, <1>keep, <1>gone DEF Locate, Abort, ProcessesOf
      <3>2. LocalsFit(r)
        <4>1. CASE \E p \in Pid : local' = [local EXCEPT ![r].pid = p] /\ pc' = At(r, "probe")
          BY <1>types, <4>1, NamesAssumption DEF At, PcTable, LocalTable, Locals
        <4>2. CASE pc' = At(r, "failed") \/ pc' = At(r, "idle")
          BY <1>types, <4>2 DEF At, PcTable
        <4>3. QED
          BY <2>3, <4>1, <4>2 DEF Locate, Abort, ProcessesOf
      <3>3. QED
        BY <2>1, <3>1, <3>2 DEF StarterHasInstance
    <2>4. CASE Probe(r)
      <3>1. PortsFit /\ pc[r] = "probe" /\ local[r].pid # NoPid
        BY <2>4, <1>keep DEF Probe, StarterHasInstance
      <3>2. LocalsFit(r)
        <4>1. CASE pc' = At(r, "giveup")
          BY <1>types, <4>1 DEF At, PcTable
        <4>2. CASE local[r].port \in Listening /\ pc' = At(r, "publish") /\ UNCHANGED local
          <5>1. PICK p \in Pid : proc[p].st = "up" /\ proc[p].port = local[r].port
            BY <4>2 DEF Listening
          <5>2. local[r].port >= 0 /\ local[r].port # 0 /\ local[r].port \in PortValue
            BY <4>2, <5>1, TypesLemma DEF StarterHasInstance, Listening, Locals
          <5>3. local[r].port > 0
            BY <5>2, PortAssumption DEF PortValue
          <5>4. QED
            BY <3>1, <4>2, <5>3
        <4>3. CASE UNCHANGED pc /\ \E n : local' = [local EXCEPT ![r].loops = n]
          BY <1>types, <3>1, <4>3 DEF LocalTable, Locals
        <4>4. QED
          BY <2>4, <4>1, <4>2, <4>3 DEF Probe
      <3>3. QED
        BY <2>1, <3>1, <3>2 DEF StarterHasInstance
    <2>5. CASE ~FindPort(r) /\ ~Locate(r) /\ ~Probe(r)
      <3>1. UNCHANGED proc /\ pc'[r] \notin {"probe", "publish"}
        <4>1. CASE Assess(r)
          <5>1. PICK label \in {"lookup", "port"} :
                        \/ NoNotifyAfter(At(r, label)) \/ NotifyAfter(At(r, label))
                        \/ pc' = At(r, "waiting")
            BY <4>1 DEF Assess
          <5>2. UNCHANGED proc /\ pc[r] # "waiting"
            BY <4>1 DEF Assess
          <5>3. CASE pc' = At(r, "waiting")
            BY <1>types, <5>2, <5>3 DEF At, PcTable
          <5>4. CASE NoNotifyAfter(At(r, label)) \/ NotifyAfter(At(r, label))
            <6>1. label \in RequestPc \ {"waiting"}
              BY DEF RequestPc, StarterPc
            <6>2. QED
              BY <5>2, <5>4, <6>1, MoveLemma
          <5>5. QED
            BY <5>1, <5>3, <5>4
        <4>2. CASE Publish(r) \/ StartFailed(r)
          <5>1. PICK label \in {"idle", "forward"} :
                        NoNotifyAfter(At(r, label)) \/ NotifyAfter(At(r, label))
            BY <4>2 DEF Publish, StartFailed
          <5>2. UNCHANGED proc /\ pc[r] # "waiting"
            BY <4>2 DEF Publish, StartFailed
          <5>3. label \in RequestPc \ {"waiting"}
            BY DEF RequestPc
          <5>4. QED
            BY <5>1, <5>2, <5>3, MoveLemma
        <4>3. CASE \/ Lookup(r) \/ StartRaises(r) \/ Reject(r) \/ GiveUp(r) \/ Forward(r)
                   \/ SendFails(r) \/ Respond(r) \/ Complete(r) \/ Leak(r)
          BY <1>types, <4>3 DEF Lookup, StartRaises, Abort, Reject, GiveUp, Forward, SendFails,
             Respond, Complete, Leak, NoNotifyAfter, At, PcTable
        <4>4. QED
          BY <1>2, <2>5, <4>1, <4>2, <4>3 DEF RequestStep, RequestProgress
      <3>2. QED
        BY <2>1, <3>1, <1>keep, <1>same DEF StarterHasInstance
    <2>6. QED
      BY <2>2, <2>3, <2>4, <2>5
  <1>3. ASSUME NEW s \in Sweeper, Stop(s) \/ StopDone(s)  PROVE StarterHasInstance'
    <2>1. \A q \in Request : LocalsFit(q)
      BY <1>3, <1>same, StopStepLemma
    <2>2. PortsFit
      <3>1. CASE UNCHANGED proc
        BY <3>1, <1>keep
      <3>2. ASSUME NEW p \in Pid, proc' = [proc EXCEPT ![p] = Terminating(proc[p])]
            PROVE  PortsFit
        <4>1. Terminating(proc[p]).st = "dying"
          BY <1>types DEF ProcessTable, Process, Terminating
        <4>2. QED
          BY <1>types, <3>2, <4>1 DEF ProcessTable, StarterHasInstance
      <3>3. QED
        BY <1>3, <3>1, <3>2 DEF Stop, StopDone
    <2>3. QED
      BY <2>1, <2>2 DEF StarterHasInstance
  <1>4. CASE Leaving
    BY <1>4, LeavingLemma, <1>keep DEF ForgetAll, StarterHasInstance
  <1>5. ASSUME NEW p \in Pid, Boot(p) \/ Exit(p)  PROVE StarterHasInstance'
    <2>1. PortsFit
      <3>1. CASE proc' = [proc EXCEPT ![p] = NoProcess]
        BY <3>1, <1>gone
      <3>2. CASE proc[p].st = "booting" /\ proc' = [proc EXCEPT ![p] = [proc[p] EXCEPT !.st = "up"]]
        <4>1. [proc[p] EXCEPT !.st = "up"].port = proc[p].port
          BY <1>types DEF ProcessTable, Process
        <4>2. QED
          BY <1>types, <3>2, <4>1 DEF ProcessTable, StarterHasInstance
      <3>3. QED
        BY <1>5, <3>1, <3>2 DEF Boot, Exit
    <2>2. UNCHANGED <<pc, local>>
      BY <1>5 DEF Boot, Exit
    <2>3. QED
      BY <2>1, <2>2, <1>same DEF StarterHasInstance
  <1>6. CASE UNCHANGED <<pc, local, proc>>
    BY <1>6 DEF StarterHasInstance
  <1>7. QED
    BY <1>1, <1>2, <1>3, <1>4, <1>5, <1>6, NextLemma, ChoosingLemma
       DEF ReaperDies, Start, vars

\* sw_state and session_state are changed together, or by a change the other allows.
LEMMA SessionInductive ==
    ASSUME TypeOK, UsersKnown, NothingWhileDown, StarterHasInstance, OneStarter,
           SessionMatchesState, [Next]_vars
    PROVE  SessionMatchesState'
  <1> DEFINE Fits(u) ==
                 /\ sw'[u] = "RUNNING" => /\ session'[u] # NoSession
                                          /\ session'[u].pid # NoPid
                                          /\ session'[u].port > 0
                 /\ sw'[u] = "STOPPING" => session'[u] = NoSession
  <1>types. sw \in SwTable /\ session \in SessionTable
    BY DEF TypeOK
  <1>fit. (\A u \in User : Fits(u)) => SessionMatchesState'
    BY DEF SessionMatchesState, IsPresent
  <1>keep. ASSUME NEW u \in User, session'[u] = session[u],
                  sw'[u] = sw[u] \/ sw'[u] \notin {"RUNNING", "STOPPING"}
           PROVE  Fits(u)
    BY <1>keep DEF SessionMatchesState, IsPresent
  <1>count. ASSUME NEW u \in User, Uncount(u), sw' = sw  PROVE SessionMatchesState'
    BY <1>count, UncountLemma DEF SessionMatchesState, IsPresent
  <1>1. ASSUME NEW r \in Request, RequestStep(r)  PROVE SessionMatchesState'
    <2>user. pc[r] # "idle" => Me(r) \in User
      BY DEF UsersKnown
    <2>1. CASE Assess(r) \/ Reject(r)
      <3>1. Me(r) \in User /\ UNCHANGED session
        BY <2>1, <2>user DEF Assess, Reject
      <3>2. \/ sw' = sw
            \/ \E st \in {"STARTING", "NOT RUNNING"} : sw' = [sw EXCEPT ![Me(r)] = st]
        BY <2>1 DEF Assess, Reject
      <3>3. \A u \in User : sw'[u] = sw[u] \/ sw'[u] \notin {"RUNNING", "STOPPING"}
        BY <1>types, <3>1, <3>2 DEF SwTable
      <3>4. QED
        BY <1>fit, <1>keep, <3>1, <3>3
    <2>2. CASE GiveUp(r) \/ StartFailed(r)
      <3>1. Me(r) \in User /\ sw[Me(r)] = "STARTING"
        BY <2>2, <2>user DEF GiveUp, StartFailed, OneStarter, StarterPc
      <3>2. sw' = ShiftedIf(Me(r), "STARTING", "NOT RUNNING")
        BY <2>2 DEF GiveUp, StartFailed
      <3>3. /\ sw'[Me(r)] = "NOT RUNNING"
            /\ \A u \in User : u # Me(r) => sw'[u] = sw[u]
        BY <1>types, <3>1, <3>2 DEF ShiftedIf, SwTable
      <3>4. \A u \in User : u # Me(r) => session'[u] = session[u]
        BY <1>types, <2>2 DEF GiveUp, StartFailed, SetEntry, SessionTable
      <3>5. QED
        BY <1>fit, <1>keep, <3>3, <3>4
    <2>3. CASE Publish(r)
      <3> DEFINE entry == [pid |-> local[r].pid, port |-> local[r].port, active |-> 0]
      <3>1. Me(r) \in User /\ sw[Me(r)] = "STARTING"
        BY <2>3, <2>user DEF Publish, OneStarter, StarterPc
      <3>2. local[r].pid # NoPid /\ local[r].port > 0
        BY <2>3 DEF Publish, StarterHasInstance
      <3>3. entry \in SessionEntry /\ entry # NoSession
        BY TypesLemma, NamesAssumption DEF SessionEntry, Locals
      <3>4. /\ sw'[Me(r)] = "RUNNING"
            /\ \A u \in User : u # Me(r) => sw'[u] = sw[u]
        BY <1>types, <2>3, <3>1 DEF Publish, ShiftedIf, SwTable
      <3>5. /\ session'[Me(r)] = entry
            /\ \A u \in User : u # Me(r) => session'[u] = session[u]
        BY <1>types, <2>3, <3>1 DEF Publish, SetEntry, SessionTable
      <3>6. Fits(Me(r))
        BY <3>2, <3>3, <3>4, <3>5
      <3>7. QED
        BY <1>fit, <1>keep, <3>4, <3>5, <3>6
    <2>4. CASE Forward(r)
      <3>1. Me(r) \in User /\ sw' = sw
        BY <2>4, <2>user DEF Forward
      <3>2. CASE ~IsPresent(Me(r))
        BY <1>fit, <1>keep, <2>4, <3>1, <3>2 DEF Forward
      <3>3. CASE IsPresent(Me(r))
        <4>1. session[Me(r)].active + 1 \in Nat
          BY <3>1, <3>3, TypesLemma DEF SessionEntry
        <4>2. SetEntry(Me(r), [session[Me(r)] EXCEPT !.active = session[Me(r)].active + 1])
          BY <2>4, <3>3 DEF Forward
        <4>3. /\ \A u \in User : u # Me(r) => session'[u] = session[u]
              /\ session'[Me(r)] # NoSession
              /\ session'[Me(r)].pid = session[Me(r)].pid
              /\ session'[Me(r)].port = session[Me(r)].port
          BY <3>1, <3>3, <4>1, <4>2, CountLemma
        <4>4. Fits(Me(r))
          BY <3>1, <3>3, <4>3 DEF SessionMatchesState, IsPresent
        <4>5. QED
          BY <1>fit, <1>keep, <3>1, <4>3, <4>4
      <3>4. QED
        BY <3>2, <3>3
    <2>5. CASE SendFails(r) \/ Complete(r)
      BY <1>count, <2>5, <2>user DEF SendFails, Complete
    <2>6. CASE UNCHANGED <<sw, session>>
      BY <2>6 DEF SessionMatchesState, IsPresent
    <2>7. QED
      BY <1>1, <2>1, <2>2, <2>3, <2>4, <2>5, <2>6
         DEF RequestStep, RequestProgress, Lookup, FindPort, Locate, Probe, StartRaises,
             Abort, Respond, Leak
  <1>2. ASSUME NEW s \in Sweeper, Stop(s)  PROVE SessionMatchesState'
    <2> DEFINE u == sweep[s].user
    <2>1. u \in User
      BY <1>2 DEF Stop, UsersKnown
    <2>2. /\ sw'[u] = IF sw[u] = "RUNNING" THEN "STOPPING" ELSE sw[u]
          /\ \A v \in User : v # u => sw'[v] = sw[v]
      BY <1>2, <1>types, <2>1 DEF Stop, StateWhileStopping, ShiftedIf, SwTable
    <2>3. /\ session'[u] = NoSession
          /\ \A v \in User : v # u => session'[v] = session[v]
      BY <1>2, <1>types, <2>1 DEF Stop, SetEntry, SessionTable, IsPresent
    <2>4. QED
      BY <1>fit, <1>keep, <2>2, <2>3
  <1>3. ASSUME NEW s \in Sweeper, StopDone(s)  PROVE SessionMatchesState'
    <2>1. UNCHANGED session /\ sw' = ShiftedIf(sweep[s].user, "STOPPING", "NOT RUNNING")
      BY <1>3 DEF StopDone
    <2>2. \A u \in User : sw'[u] = sw[u] \/ sw'[u] = "NOT RUNNING"
      BY <1>types, <2>1 DEF ShiftedIf, SwTable
    <2>3. QED
      BY <1>fit, <1>keep, <2>1, <2>2
  <1>4. CASE Leaving
    BY <1>4, <1>fit, LeavingLemma DEF ForgetAll
  <1>5. CASE Start
    BY <1>5, <1>fit DEF Start, NothingWhileDown
  <1>6. CASE UNCHANGED <<sw, session>>
    BY <1>6 DEF SessionMatchesState, IsPresent
  <1>7. QED
    BY <1>1, <1>2, <1>3, <1>4, <1>5, <1>6, NextLemma, ChoosingLemma
       DEF Arrive, ReaperDies, Boot, Exit, vars

\* Every change of session_state is saved in the same section.
LEMMA StoreInductive ==
    ASSUME TypeOK, StoreIsCurrent, [Next]_vars
    PROVE  StoreIsCurrent'
  <1>1. ASSUME NEW u, NEW entry, SetEntry(u, entry)  PROVE StoreIsCurrent'
    BY <1>1 DEF SetEntry, save_session_state, FileStore, StoreIsCurrent
  <1>2. CASE UNCHANGED <<session, store, mode>>
    BY <1>2 DEF StoreIsCurrent, FileStore
  <1>3. ASSUME NEW r \in Request, RequestStep(r)  PROVE StoreIsCurrent'
    BY <1>1, <1>2, <1>3
       DEF RequestStep, RequestProgress, Assess, Lookup, FindPort, Locate, Probe, StartRaises,
           Abort, Reject, GiveUp, StartFailed, Publish, Forward, SendFails, Respond, Complete, Leak, Uncount
  <1>4. ASSUME NEW s \in Sweeper, Stop(s) \/ StopDone(s)  PROVE StoreIsCurrent'
    BY <1>1, <1>2, <1>4 DEF Stop, StopDone
  <1>5. CASE Choosing
    BY <1>5, ChoosingLemma DEF StoreIsCurrent, FileStore, Choosing, Wake, BeginShutdown, Scan,
       ShutdownNext
  <1>6. CASE Leaving
    BY <1>6, LeavingLemma DEF StoreIsCurrent
  <1>7. CASE Start
    <2>1. CASE store.kind = "torn"
      BY <1>7, <2>1 DEF Start, StoreIsCurrent
    <2>2. CASE store.kind = "file"
      BY <1>7, <2>2 DEF Start, StoreIsCurrent, FileStore, TypeOK, Store
    <2>3. CASE store.kind = "missing"
      BY <1>7, <2>3 DEF Start, StoreIsCurrent
    <2>4. QED
      BY <2>1, <2>2, <2>3 DEF TypeOK, Store
  <1>8. QED
    BY <1>2, <1>3, <1>4, <1>5, <1>6, <1>7, NextLemma DEF Arrive, ReaperDies, Boot, Exit, vars

--------------------------------------------------------------------------------
(* The invariant, and what follows from it.                                *)

\* The invariant holds before Teapot is started for the first time.
LEMMA InitInvariant == Init => IInv
  <1> SUFFICES ASSUME Init  PROVE IInv
    OBVIOUS
  <1>1. TypeOK
    <2>1. NoLocals \in Locals /\ NoProcess \in Process /\ NoSweep \in Sweep
      BY PortAssumption, TimeoutAssumption
         DEF NoLocals, Locals, NoProcess, Process, NoSweep, Sweep, PortValue
    <2>2. NoEntries \in SessionTable
      BY DEF NoEntries, SessionTable
    <2>3. sw \in SwTable /\ pc \in PcTable
      BY DEF Init, SwTable, SwState, PcTable, RequestPc
    <2>4. local \in LocalTable /\ proc \in ProcessTable /\ sweep \in SweepTable
      BY <2>1 DEF Init, LocalTable, ProcessTable, SweepTable
    <2>5. session \in SessionTable /\ store \in Store
      BY <2>2 DEF Init, Store
    <2>6. waiters \in Seq(Request) /\ mode = "down" /\ due \in SUBSET User
      BY DEF Init
    <2>7. reaperAlive \in BOOLEAN
      BY Zenon DEF Init
    <2>8. QED
      BY <2>3, <2>4, <2>5, <2>6, <2>7 DEF TypeOK
  <1>2. UsersKnown /\ QueueOfWaiting /\ NothingWhileDown
    BY DEF Init, UsersKnown, QueueOfWaiting, NothingWhileDown, NoSweep
  <1>3. StarterHasInstance /\ OneStarter
    BY DEF Init, StarterHasInstance, OneStarter, NoProcess, StarterPc
  <1>4. SessionMatchesState /\ StoreIsCurrent
    BY DEF Init, SessionMatchesState, StoreIsCurrent
  <1>5. QED
    BY <1>1, <1>2, <1>3, <1>4 DEF IInv

\* The invariant is inductive.
LEMMA NextInvariant == IInv /\ [Next]_vars => IInv'
  BY TypeInductive, UsersInductive, QueueInductive, QuietInductive, OneStarterInductive,
     StarterHasInstanceInductive, SessionInductive, StoreInductive DEF IInv

\* The invariant holds throughout.
LEMMA Invariant == Spec => []IInv
  BY InitInvariant, NextInvariant, PTL DEF Spec

\* Every variable keeps to its type: in particular no count of active requests ever
\* becomes negative (_decrement_active_requests), and no request waits on sw_condition
\* that is not a request.
THEOREM TeapotTypeCorrect == Spec => []TypeOK
  BY Invariant, PTL DEF IInv

\* storm_webdav_state has at most one starter per user, and only while sw_state says
\* STARTING, whatever fails, is killed or restarted meanwhile.
THEOREM TeapotOneStarter == Spec => []OneStarter
  BY Invariant, PTL DEF IInv

\* sw_state and session_state agree at every point where another task may run.
THEOREM TeapotSessionMatchesState == Spec => []SessionMatchesState
  BY Invariant, PTL DEF IInv

\* The session store is never behind session_state (save_session_state).
THEOREM TeapotStoreIsCurrent == Spec => []StoreIsCurrent
  BY Invariant, PTL DEF IInv
=============================================================================
