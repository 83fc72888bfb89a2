------------------------- MODULE TeapotInstanceProofs -------------------------
(* More proofs about Teapot: whose process a session names, which requests *)
(* it counts, and that Teapot implements InstanceLifecycle.  They rest on  *)
(* the inductive invariant IInv of TeapotProofs.                           *)
EXTENDS TeapotProofs, FiniteSetTheorems

--------------------------------------------------------------------------------
(* Process ids.                                                            *)

\* A session, the store or a start that has located an instance names p as u's process.
Names(p, u) ==
    \/ u \in User /\ \E entries \in {session, store.data} :
                         entries[u] # NoSession /\ entries[u].pid = p
    \/ \E r \in Request : Me(r) = u /\ local[r].pid = p

\* Whoever is named as a user's process is that, or is no process any more.
OwnPids ==
    \A p \in Pid, u \in User \cup {NoUser} :
        Names(p, u) /\ proc[p].st # "none" => proc[p].user = u

\* Where no process is new or changes its user, and no name is new, all stays well.
LEMMA NothingNewLemma ==
    ASSUME OwnPids,
           \A p \in Pid : proc'[p].st # "none" =>
               proc[p].st # "none" /\ proc'[p].user = proc[p].user,
           \A p \in Pid, u \in User \cup {NoUser} : Names(p, u)' => Names(p, u)
    PROVE  OwnPids'
  BY DEF OwnPids

\* An entry that is written names nothing new if it has no process id, keeps the one of
\* the entry before, or takes over that of a request of the user.
LEMMA EntryNamesLemma ==
    ASSUME TypeOK, NEW u \in User, NEW entry \in SessionEntry \cup {NoSession},
           SetEntry(u, entry),
           \A r \in Request : local'[r].pid \in Pid =>
               local'[r].pid = local[r].pid /\ local'[r].user = local[r].user,
           \/ entry = NoSession
           \/ entry.pid = NoPid
           \/ IsPresent(u) /\ entry.pid = session[u].pid
           \/ \E r \in Request : Me(r) = u /\ entry.pid = local[r].pid
    PROVE  \A p \in Pid, v \in User \cup {NoUser} : Names(p, v)' => Names(p, v)
  <1>1. /\ session' = [session EXCEPT ![u] = entry]
        /\ store'.data = session'
    BY DEF SetEntry, save_session_state, FileStore
  <1>2. ASSUME NEW p \in Pid, NEW v \in User, session'[v] # NoSession, session'[v].pid = p
        PROVE  Names(p, v)
    <2>1. CASE v # u
      BY <1>1, <1>2, <2>1 DEF Names, TypeOK, SessionTable
    <2>2. CASE v = u
      <3>1. entry # NoSession /\ entry.pid = p
        BY <1>1, <1>2, <2>2 DEF TypeOK, SessionTable
      <3>2. QED
        BY <2>2, <3>1, NamesAssumption DEF Names, IsPresent
    <2>3. QED
      BY <2>1, <2>2
  <1>3. QED
    BY <1>1, <1>2 DEF Names, Me

\* A request that is over leaves nothing in its local variables.
IdleForgets == \A r \in Request : pc[r] = "idle" => local[r] = NoLocals

\* No step ends a request without ending its local variables.
LEMMA IdleForgetsInductive ==
    ASSUME IInv, IdleForgets, [Next]_vars
    PROVE  IdleForgets'
  <1>types. /\ TypeOK /\ UsersKnown /\ QueueOfWaiting
            /\ pc \in PcTable /\ local \in LocalTable
    BY DEF IInv, TypeOK
  <1>1. ASSUME NEW r \in Request, NEW u \in User, Arrive(r, u)  PROVE IdleForgets'
    BY <1>1, <1>types DEF Arrive, At, IdleForgets, PcTable, LocalTable
  <1>2. ASSUME NEW r \in Request, RequestStep(r)  PROVE IdleForgets'
    <2>1. OthersUndisturbed(r)
      BY <1>2, <1>types, RequestStepLemma
    <2>2. EndRequest(r) => local'[r] = NoLocals
      BY <1>types DEF EndRequest, LocalTable
    <2>3. pc'[r] = "idle" => EndRequest(r)
      <3>move. ASSUME NEW label \in RequestPc \ {"waiting", "idle"}, pc[r] # "waiting",
                      NotifyAfter(At(r, label)) \/ NoNotifyAfter(At(r, label))
               PROVE  pc'[r] # "idle"
        BY <3>move, <1>types, MoveLemma
      <3>1. CASE Assess(r)
        <4>1. CASE pc' = At(r, "waiting")
          BY <4>1, <1>types DEF At, PcTable
        <4>2. CASE \E label \in {"lookup", "port"} :
                      NotifyAfter(At(r, label)) \/ NoNotifyAfter(At(r, label))
          BY <3>1, <3>move, <4>2 DEF Assess, RequestPc, StarterPc
        <4>3. QED
          BY <3>1, <4>1, <4>2 DEF Assess
      <3>2. CASE Publish(r)
        BY <3>2, <3>move DEF Publish, RequestPc
      <3>3. CASE Probe(r) \/ Forward(r) \/ Respond(r) \/ Lookup(r) \/ FindPort(r) \/ Locate(r)
        BY <3>3, <1>types DEF Probe, Forward, Respond, Lookup, FindPort, Locate, Abort, At, PcTable
      <3>4. CASE \/ StartRaises(r) \/ Reject(r) \/ GiveUp(r) \/ StartFailed(r)
                 \/ SendFails(r) \/ Complete(r) \/ Leak(r)
        BY <3>4 DEF StartRaises, Abort, Reject, GiveUp, StartFailed, SendFails, Complete, Leak
      <3>5. QED
        BY <1>2, <3>1, <3>2, <3>3, <3>4 DEF RequestStep, RequestProgress
    <2>4. QED
      BY <2>1, <2>2, <2>3 DEF OthersUndisturbed, IdleForgets
  <1>3. ASSUME NEW s \in Sweeper, Stop(s) \/ StopDone(s)  PROVE IdleForgets'
    BY <1>3, <1>types, StopStepLemma DEF IdleForgets
  <1>4. CASE Leaving
    BY <1>4, LeavingLemma DEF ForgetAll, IdleForgets
  <1>5. CASE UNCHANGED <<pc, local>>
    BY <1>5 DEF IdleForgets
  <1>6. QED
    BY <1>1, <1>2, <1>3, <1>4, <1>5, <1>types, NextLemma, ChoosingLemma
       DEF ReaperDies, Start, Boot, Exit, vars

\* No session, stored session or located instance ever comes to name the process of another
\* user: a start looks among the user's processes only, and the kernel gives out no pid that
\* is remembered (FreshPid).
LEMMA OwnPidsInductive ==
    ASSUME IInv, IdleForgets, OwnPids, [Next]_vars
    PROVE  OwnPids'
  <1>types. /\ TypeOK /\ UsersKnown /\ NothingWhileDown /\ StoreIsCurrent
            /\ local \in LocalTable /\ session \in SessionTable /\ proc \in ProcessTable
    BY DEF IInv, TypeOK
  <1>same. UNCHANGED <<session, store, local>> =>
               \A p \in Pid, u \in User \cup {NoUser} : Names(p, u)' => Names(p, u)
    BY DEF Names, Me
  <1>end. ASSUME NEW r \in Request, EndRequest(r)
          PROVE  \A q \in Request : local'[q].pid \in Pid =>
                     local'[q].pid = local[q].pid /\ local'[q].user = local[q].user
    BY <1>end, <1>types, NamesAssumption DEF EndRequest, NoLocals, LocalTable
  <1>only. ASSUME NEW r \in Request, NEW port, local' = KeepOnly(r, port)
           PROVE  \A q \in Request : local'[q].pid \in Pid =>
                      local'[q].pid = local[q].pid /\ local'[q].user = local[q].user
    <2>1. \A q \in Request : q # r => local'[q] = local[q]
      BY <1>only, <1>types DEF KeepOnly, LocalTable
    <2>2. local'[r].pid = NoPid
      BY <1>only, <1>types DEF KeepOnly, NoLocals, LocalTable
    <2>3. QED
      BY <2>1, <2>2, NamesAssumption
  <1>quiet. ASSUME UNCHANGED <<session, store, proc>>,
                   \A q \in Request : local'[q].pid \in Pid =>
                       local'[q].pid = local[q].pid /\ local'[q].user = local[q].user
            PROVE  OwnPids'
    BY <1>quiet, NothingNewLemma DEF Names, Me
  <1>1. ASSUME NEW r \in Request, NEW u \in User, Arrive(r, u)  PROVE OwnPids'
    <2>1. pc[r] = "idle" /\ local' = [local EXCEPT ![r].user = u]
      BY <1>1 DEF Arrive
    <2>2. local[r].pid \notin Pid
      BY <2>1, NamesAssumption DEF IdleForgets, NoLocals
    <2>3. QED
      BY <1>1, <1>quiet, <1>types, <2>1, <2>2 DEF Arrive, LocalTable, Locals
  <1>2. ASSUME NEW r \in Request, RequestStep(r)  PROVE OwnPids'
    <2>user. pc[r] # "idle" => Me(r) \in User
      BY <1>types DEF UsersKnown
    <2>abort. ASSUME Abort(r)  PROVE OwnPids'
      BY <2>abort, <1>end, <1>quiet DEF Abort
    <2>1. CASE Assess(r) \/ Lookup(r) \/ Probe(r) \/ StartRaises(r) \/ Reject(r)
               \/ Respond(r) \/ Leak(r)
      <3>1. UNCHANGED <<session, store, proc>>
        BY <2>1 DEF Assess, Lookup, Probe, StartRaises, Abort, Reject, Respond, Leak
      <3>2. \/ EndRequest(r) \/ local' = KeepOnly(r, -1)
            \/ \E v : \/ local' = [local EXCEPT ![r].port = v]
                      \/ local' = [local EXCEPT ![r].loops = v]
            \/ local' = local
        BY <2>1 DEF Assess, Lookup, Probe, StartRaises, Abort, Reject, Respond, Leak
      <3>3. QED
        BY <1>end, <1>only, <1>quiet, <1>types, <3>1, <3>2 DEF LocalTable, Locals
    <2>2. CASE FindPort(r)
      <3>1. CASE Abort(r)
        BY <2>abort, <3>1
      <3>2. CASE UNCHANGED <<session, store, local, proc>>
        BY <1>quiet, <3>2
      <3>3. CASE UNCHANGED <<session, store>> /\
                 \E p \in FreshPid, q \in UsablePort :
                    /\ proc' = [proc EXCEPT ![p] =
                                   [st |-> "booting", user |-> Me(r), port |-> q]]
                    /\ local' = [local EXCEPT ![r].port = q]
        <4>1. PICK p \in FreshPid, q \in UsablePort :
                     /\ proc' = [proc EXCEPT ![p] =
                                    [st |-> "booting", user |-> Me(r), port |-> q]]
                     /\ local' = [local EXCEPT ![r].port = q]
          BY <3>3
        <4>2. \A x \in Request : local'[x].pid = local[x].pid /\ local'[x].user = local[x].user
          BY <1>types, <4>1 DEF LocalTable, Locals
        <4>3. \A x \in Pid, v \in User \cup {NoUser} : Names(x, v)' => Names(x, v)
          BY <3>3, <4>2 DEF Names, Me
        <4>4. mode \in {"serving", "shutdown"}
          BY <2>2, <1>types DEF FindPort, NothingWhileDown
        <4>5. store.data = session
          BY <4>4, <1>types DEF StoreIsCurrent, FileStore
        <4>6. \A v \in User \cup {NoUser} : ~Names(p, v)
          BY <4>5 DEF Names, FreshPid, IsPresent
        <4>7. \A x \in Pid : x # p => proc'[x] = proc[x]
          BY <1>types, <4>1 DEF ProcessTable
        <4>8. QED
          BY <4>3, <4>6, <4>7 DEF OwnPids
      <3>4. QED
        BY <2>2, <3>1, <3>2, <3>3 DEF FindPort
    <2>3. CASE Locate(r)
      <3>1. CASE Abort(r)
        BY <2>abort, <3>1
      <3>2. CASE UNCHANGED <<session, store, proc>> /\
                 \E p \in ProcessesOf(Me(r)) : local' = [local EXCEPT ![r].pid = p]
        <4>1. PICK p \in ProcessesOf(Me(r)) : local' = [local EXCEPT ![r].pid = p]
          BY <3>2
        <4>2. /\ \A x \in Request : x # r => local'[x] = local[x]
              /\ local'[r].user = local[r].user /\ local'[r].pid = p
          BY <1>types, <4>1 DEF LocalTable, Locals
        <4>3. \A x \in Pid, v \in User \cup {NoUser} :
                 Names(x, v)' => Names(x, v) \/ (x = p /\ v = Me(r))
          BY <3>2, <4>2 DEF Names, Me
        <4>4. proc[p].user = Me(r)
          BY DEF ProcessesOf
        <4>5. QED
          BY <3>2, <4>3, <4>4 DEF OwnPids
      <3>3. CASE UNCHANGED <<session, store>> /\ local' = KeepOnly(r, -1) /\
                 \E p \in Pid : proc' = [proc EXCEPT ![p] = NoProcess]
        <4>1. \A x \in Pid, v \in User \cup {NoUser} : Names(x, v)' => Names(x, v)
          BY <1>only, <3>3 DEF Names, Me
        <4>2. \A x \in Pid : proc'[x].st # "none" => proc'[x] = proc[x]
          BY <1>types, <3>3 DEF ProcessTable, NoProcess
        <4>3. QED
          BY <4>1, <4>2, NothingNewLemma
      <3>4. QED
        BY <2>3, <3>1, <3>2, <3>3 DEF Locate, ProcessesOf
    <2>4. CASE GiveUp(r)
      <3>1. SetEntry(Me(r), NoSession) /\ EndRequest(r) /\ UNCHANGED proc
        BY <2>4 DEF GiveUp
      <3>2. Me(r) \in User
        BY <2>4, <2>user DEF GiveUp
      <3>3. QED
        BY <1>types, <1>end, <3>1, <3>2, EntryNamesLemma, NothingNewLemma
    <2>5. CASE StartFailed(r)
      <3> DEFINE entry == [pid |-> NoPid, port |-> -1, active |-> 0]
      <3>1. SetEntry(Me(r), entry) /\ EndRequest(r) /\ UNCHANGED proc
        BY <2>5 DEF StartFailed
      <3>2. Me(r) \in User
        BY <2>5, <2>user DEF StartFailed
      <3>3. entry \in SessionEntry /\ entry.pid = NoPid
        BY PortAssumption DEF SessionEntry, PortValue
      <3>. HIDE DEF entry
      <3>4. QED
        BY <1>types, <1>end, <3>1, <3>2, <3>3, EntryNamesLemma, NothingNewLemma
    <2>6. CASE Publish(r)
      <3> DEFINE entry == [pid |-> local[r].pid, port |-> local[r].port, active |-> 0]
      <3>1. SetEntry(Me(r), entry) /\ UNCHANGED proc
        BY <2>6 DEF Publish
      <3>2. Me(r) \in User
        BY <2>6, <2>user DEF Publish
      <3>3. entry \in SessionEntry /\ entry.pid = local[r].pid
        BY <1>types, TypesLemma DEF SessionEntry, Locals
      <3>4. \A q \in Request : local'[q].pid \in Pid =>
                local'[q].pid = local[q].pid /\ local'[q].user = local[q].user
        BY <2>6, <1>only DEF Publish
      <3>. HIDE DEF entry
      <3>5. QED
        BY <1>types, <3>1, <3>2, <3>3, <3>4, EntryNamesLemma, NothingNewLemma
    <2>7. CASE Forward(r)
      <3>1. CASE ~IsPresent(Me(r))
        BY <2>7, <3>1, <1>quiet DEF Forward
      <3>2. CASE IsPresent(Me(r))
        <4> DEFINE entry == [session[Me(r)] EXCEPT !.active = session[Me(r)].active + 1]
        <4>1. SetEntry(Me(r), entry) /\ UNCHANGED <<local, proc>>
          BY <2>7, <3>2 DEF Forward
        <4>2. Me(r) \in User
          BY <2>7, <2>user DEF Forward
        <4>3. entry \in SessionEntry /\ entry.pid = session[Me(r)].pid
          BY <1>types, <3>2, <4>2, TypesLemma DEF SessionEntry
        <4>. HIDE DEF entry
        <4>4. QED
          BY <1>types, <3>2, <4>1, <4>2, <4>3, EntryNamesLemma, NothingNewLemma
      <3>3. QED
        BY <3>1, <3>2
    <2>8. CASE SendFails(r) \/ Complete(r)
      <3>1. Uncount(Me(r)) /\ EndRequest(r) /\ UNCHANGED proc
        BY <2>8 DEF SendFails, Complete
      <3>2. Me(r) \in User
        BY <2>8, <2>user DEF SendFails, Complete
      <3>3. CASE ~IsPresent(Me(r))
        BY <3>1, <3>3, <1>end, <1>quiet DEF Uncount
      <3>4. CASE IsPresent(Me(r))
        <4> DEFINE entry == [session[Me(r)] EXCEPT !.active = Decremented(session[Me(r)].active)]
        <4>1. SetEntry(Me(r), entry)
          BY <3>1, <3>4 DEF Uncount
        <4>2. entry \in SessionEntry /\ entry.pid = session[Me(r)].pid
          BY <1>types, <3>2, <3>4, TypesLemma DEF SessionEntry, Decremented
        <4>. HIDE DEF entry
        <4>3. QED
          BY <1>types, <1>end, <3>1, <3>2, <3>4, <4>1, <4>2, EntryNamesLemma, NothingNewLemma
      <3>5. QED
        BY <3>3, <3>4
    <2>9. QED
      BY <1>2, <2>1, <2>2, <2>3, <2>4, <2>5, <2>6, <2>7, <2>8 DEF RequestStep, RequestProgress
  <1>3. ASSUME NEW s \in Sweeper, Stop(s) \/ StopDone(s)  PROVE OwnPids'
    <2>1. \A p \in Pid : proc'[p].st # "none" =>
              proc[p].st # "none" /\ proc'[p].user = proc[p].user
      <3>1. CASE UNCHANGED proc
        BY <3>1
      <3>2. ASSUME NEW p \in Pid, proc[p].st # "none",
                   proc' = [proc EXCEPT ![p] = Terminating(proc[p])]
            PROVE  \A q \in Pid : proc'[q].st # "none" =>
                       proc[q].st # "none" /\ proc'[q].user = proc[q].user
        <4>1. Terminating(proc[p]).user = proc[p].user
          BY <1>types DEF Terminating, ProcessTable, Process
        <4>2. QED
          BY <1>types, <3>2, <4>1 DEF ProcessTable
      <3>3. QED
        BY <1>3, <3>1, <3>2 DEF Stop, StopDone
    <2>2. CASE UNCHANGED <<session, store, local>>
      BY <2>1, <2>2, <1>same, NothingNewLemma
    <2>3. CASE Stop(s) /\ SetEntry(sweep[s].user, NoSession)
      <3>1. sweep[s].user \in User /\ UNCHANGED local
        BY <2>3, <1>types DEF Stop, UsersKnown
      <3>2. QED
        BY <1>types, <2>1, <2>3, <3>1, EntryNamesLemma, NothingNewLemma
    <2>4. QED
      BY <1>3, <2>2, <2>3 DEF Stop, StopDone
  <1>4. CASE Leaving
    <2>1. ForgetAll
      BY <1>4, LeavingLemma
    <2>2. /\ session' = NoEntries /\ UNCHANGED proc
          /\ \A r \in Request : local'[r].pid \notin Pid
      BY <2>1, NamesAssumption DEF ForgetAll, NoLocals
    <2>3. store'.data = NoEntries \/ store' = store
      BY <1>4 DEF Leaving, EndShutdown, Crash
    <2>4. QED
      BY <2>2, <2>3, NothingNewLemma DEF Names, NoEntries
  <1>5. CASE Start
    <2>1. UNCHANGED <<local, proc>>
      BY <1>5 DEF Start
    <2>2. \A entries \in {session', store'.data} : entries \in {session, store.data, NoEntries}
      BY <1>5 DEF Start, FileStore
    <2>3. QED
      BY <2>1, <2>2, NothingNewLemma DEF Names, Me, NoEntries
  <1>6. ASSUME NEW p \in Pid, Boot(p) \/ Exit(p)  PROVE OwnPids'
    <2>1. \A q \in Pid : proc'[q].st # "none" =>
              proc[q].st # "none" /\ proc'[q].user = proc[q].user
      BY <1>6, <1>types DEF Boot, Exit, NoProcess, ProcessTable, Process
    <2>2. UNCHANGED <<session, store, local>>
      BY <1>6 DEF Boot, Exit
    <2>3. QED
      BY <2>1, <2>2, <1>same, NothingNewLemma
  <1>7. CASE UNCHANGED <<session, store, local, proc>>
    BY <1>7, <1>quiet
  <1>8. QED
    BY <1>1, <1>2, <1>3, <1>4, <1>5, <1>6, <1>7, <1>types, NextLemma, ChoosingLemma
       DEF ReaperDies, vars

--------------------------------------------------------------------------------
(* Counts.                                                                 *)

InFlight(u) == {r \in Request : pc[r] \in {"send", "stream"} /\ Me(r) = u}

\* No count is higher than the requests in flight, which are finitely many; a shutdown
\* waits for all of them, so what it leaves in the store counts none.
CountInv ==
    /\ \A u \in User : IsFiniteSet(InFlight(u))
    /\ \A u \in User : IsPresent(u) => session[u].active <= Cardinality(InFlight(u))
    /\ mode = "shutdown" => \A r \in Request : pc[r] = "idle"
    /\ mode = "serving" => Resting("shutdown")
    /\ mode # "crashed"
    /\ mode = "down" /\ store.kind = "file" =>
          \A u \in User : store.data[u] # NoSession => store.data[u].active = 0

\* SessionPidIsOwn holds throughout, over restarts from the session store and whatever fails:
\* what _stop_webdav_instance kills is never another user's process.
THEOREM TeapotSessionPidIsOwn == Spec => []SessionPidIsOwn
  <1> DEFINE J == IdleForgets /\ OwnPids
  <1>1. Init => J
    BY NamesAssumption DEF Init, IdleForgets, OwnPids, Names, NoEntries, NoLocals
  <1>2. IInv /\ J /\ [Next]_vars => J'
    BY IdleForgetsInductive, OwnPidsInductive
  <1>3. J => SessionPidIsOwn
    BY DEF OwnPids, Names, SessionPidIsOwn, IsPresent
  <1>4. QED
    BY <1>1, <1>2, <1>3, Invariant, PTL DEF Spec

\* Which steps change whether the process serves or shuts down.
LEMMA ModeLemma ==
    ASSUME IInv, CountInv, [Next]_vars, mode' # mode
    PROVE  \/ Start
           \/ Crash
           \/ BeginShutdown
           \/ EndShutdown
           \/ mode = "shutdown" /\ mode' = "down" /\ ForgetAll /\ UNCHANGED store
  <1>1. ASSUME NEW r \in Request, RequestStep(r)  PROVE mode' = mode
    BY <1>1, RequestStepLemma DEF IInv, OthersUndisturbed
  <1>2. ASSUME NEW s \in Sweeper, SweepStep(s), mode' # mode
        PROVE  mode = "shutdown" /\ mode' = "down" /\ ForgetAll /\ UNCHANGED store
    <2>1. StopRaises(s) /\ s = "shutdown" /\ mode' = "down" /\ ForgetAll /\ UNCHANGED store
      BY <1>2 DEF SweepStep, Stop, StopDone, StopRaises
    <2>2. sweep["shutdown"].pc # "idle"
      BY <2>1 DEF StopRaises
    <2>3. mode = "shutdown"
      BY <2>2 DEF IInv, NothingWhileDown, CountInv, Resting, Sweeper
    <2>4. QED
      BY <2>1, <2>3
  <1>3. QED
    BY <1>1, <1>2
       DEF Next, Arrive, Wake, ReaperStep, Scan, ShutdownStep, ShutdownNext, Boot, Exit, vars,
           Sweeper

\* A step that sends no request for u, and adds to no count, keeps the count of u in bounds.
LEMMA CountKeptLemma ==
    ASSUME TypeOK, TypeOK', CountInv, NEW u \in User,
           InFlight(u)' \in SUBSET InFlight(u),
           session'[u] # NoSession =>
               \/ session'[u].active = 0
               \/ /\ InFlight(u)' = InFlight(u)
                  /\ session[u] # NoSession /\ session'[u].active <= session[u].active
    PROVE  /\ IsFiniteSet(InFlight(u)')
           /\ session'[u] # NoSession => session'[u].active <= Cardinality(InFlight(u)')
  <1>1. IsFiniteSet(InFlight(u)')
    BY FS_Subset DEF CountInv
  <1>2. Cardinality(InFlight(u)') \in Nat
    BY <1>1, FS_CardinalityType
  <1>3. /\ session[u] # NoSession => session[u].active \in Nat
        /\ session'[u] # NoSession => session'[u].active \in Nat
    BY DEF TypeOK, SessionTable, SessionEntry
  <1>4. CASE session'[u] # NoSession /\ session'[u].active # 0
    <2>1. /\ InFlight(u)' = InFlight(u)
          /\ session'[u].active <= session[u].active
          /\ session[u] # NoSession
      BY <1>4
    <2>2. session[u].active <= Cardinality(InFlight(u)')
      BY <2>1 DEF CountInv, IsPresent
    <2>3. QED
      BY <1>1, <1>2, <1>3, <1>4, <2>1, <2>2
  <1>5. QED
    BY <1>1, <1>2, <1>4

\* A step of a request counts what it sends, and takes back no less than it had counted.
LEMMA CountOfRequestLemma ==
    ASSUME "leak" \notin Faults, IInv, TypeOK', CountInv, NEW r \in Request, RequestStep(r),
           NEW u \in User
    PROVE  /\ IsFiniteSet(InFlight(u)')
           /\ session'[u] # NoSession => session'[u].active <= Cardinality(InFlight(u)')
  <1> DEFINE Bounded == /\ IsFiniteSet(InFlight(u)')
                        /\ session'[u] # NoSession =>
                               session'[u].active <= Cardinality(InFlight(u)')
  <1>types. /\ TypeOK /\ UsersKnown /\ QueueOfWaiting
            /\ pc \in PcTable /\ local \in LocalTable /\ session \in SessionTable
    BY DEF IInv, TypeOK
  <1>count. session[u] # NoSession => session[u] \in SessionEntry /\ session[u].active \in Nat
    BY <1>types DEF SessionTable, SessionEntry
  <1>1. /\ pc[r] # "idle" /\ Me(r) \in User
        /\ \A q \in Request : q # r => (q \in InFlight(u)' <=> q \in InFlight(u))
        /\ pc'[r] # "idle" => local'[r].user = local[r].user
    BY <1>types, RequestStepLemma DEF OthersUndisturbed, UsersKnown, InFlight, Me
  <1>out. pc[r] \notin {"send", "stream"} /\ pc'[r] \notin {"send", "stream"}
              => InFlight(u)' = InFlight(u)
    BY <1>1 DEF InFlight
  <1>quiet. ASSUME InFlight(u)' = InFlight(u), session'[u] = session[u]  PROVE Bounded
    BY <1>quiet, <1>types, <1>count, CountKeptLemma
  <1>2. CASE GiveUp(r) \/ StartFailed(r) \/ Publish(r)
    <2>1. pc[r] \notin {"send", "stream", "waiting"} /\
              \E label \in {"idle", "forward"} :
                  NotifyAfter(At(r, label)) \/ NoNotifyAfter(At(r, label))
      BY <1>2 DEF GiveUp, StartFailed, Publish
    <2>2. pc'[r] \in {"idle", "forward"}
      BY <2>1, <1>types, MoveLemma DEF RequestPc
    <2>3. InFlight(u)' = InFlight(u)
      BY <1>out, <2>1, <2>2
    <2>4. session'[u] = session[u] \/ (session'[u] # NoSession => session'[u].active = 0)
      <3>1. \/ SetEntry(Me(r), NoSession)
            \/ \E pid, port : SetEntry(Me(r), [pid |-> pid, port |-> port, active |-> 0])
        BY <1>2 DEF GiveUp, StartFailed, Publish
      <3>2. ASSUME NEW entry, SetEntry(Me(r), entry), entry = NoSession \/ entry.active = 0
            PROVE  session'[u] = session[u] \/ (session'[u] # NoSession => session'[u].active = 0)
        BY <3>2, <1>1, <1>types DEF SetEntry, SessionTable
      <3>3. QED
        BY <3>1, <3>2
    <2>5. QED
      BY <1>quiet, <1>types, <2>3, <2>4, CountKeptLemma
  <1>3. CASE Forward(r)
    <2>1. pc[r] = "forward" /\ pc'[r] = "send" /\ UNCHANGED local
      BY <1>3, <1>types DEF Forward, At, PcTable
    <2>2. CASE u # Me(r)
      <3>1. InFlight(u)' = InFlight(u)
        BY <1>1, <2>1, <2>2 DEF InFlight, Me
      <3>2. session'[u] = session[u]
        BY <1>3, <2>2, <1>types DEF Forward, SetEntry, SessionTable
      <3>3. QED
        BY <1>quiet, <3>1, <3>2
    <2>3. CASE u = Me(r)
      <3>1. InFlight(u)' = InFlight(u) \cup {r} /\ r \notin InFlight(u)
        BY <1>1, <2>1, <2>3 DEF InFlight, Me
      <3>2. /\ IsFiniteSet(InFlight(u)')
            /\ Cardinality(InFlight(u)') = Cardinality(InFlight(u)) + 1
            /\ Cardinality(InFlight(u)) \in Nat
        BY <3>1, FS_AddElement, FS_CardinalityType DEF CountInv
      <3>3. CASE session[u] = NoSession
        BY <1>3, <2>3, <3>2, <3>3 DEF Forward, IsPresent
      <3>4. CASE session[u] # NoSession
        <4>1. session' = [session EXCEPT ![u] =
                              [session[u] EXCEPT !.active = session[u].active + 1]]
          BY <1>3, <2>3, <3>4 DEF Forward, IsPresent, SetEntry
        <4>2. session'[u].active = session[u].active + 1
          BY <4>1, <3>4, <1>count, <1>types DEF SessionTable, SessionEntry
        <4>3. session[u].active <= Cardinality(InFlight(u))
          BY <3>4 DEF CountInv, IsPresent
        <4>4. QED
          BY <1>count, <3>2, <3>4, <4>2, <4>3
      <3>5. QED
        BY <3>3, <3>4
    <2>4. QED
      BY <2>2, <2>3
  <1>4. CASE SendFails(r) \/ Complete(r)
    <2>1. pc[r] \in {"send", "stream"} /\ pc'[r] = "idle" /\ Uncount(Me(r))
      BY <1>4, <1>types DEF SendFails, Complete, At, PcTable
    <2>2. CASE u # Me(r)
      <3>1. InFlight(u)' = InFlight(u)
        BY <1>1, <2>1, <2>2 DEF InFlight, Me
      <3>2. session'[u] = session[u]
        BY <1>1, <2>1, <2>2, <1>types, SMTT(30) DEF Uncount, SetEntry, SessionTable
      <3>3. QED
        BY <1>quiet, <3>1, <3>2
    <2>3. CASE u = Me(r)
      <3>1. InFlight(u)' = InFlight(u) \ {r} /\ r \in InFlight(u)
        BY <1>1, <2>1, <2>3 DEF InFlight, Me
      <3>2. /\ IsFiniteSet(InFlight(u)')
            /\ Cardinality(InFlight(u)') = Cardinality(InFlight(u)) - 1
            /\ Cardinality(InFlight(u)') \in Nat
            /\ Cardinality(InFlight(u)) \in Nat
        BY <3>1, FS_RemoveElement, FS_CardinalityType DEF CountInv
      <3>3. CASE session[u] = NoSession
        BY <2>1, <2>3, <3>2, <3>3 DEF Uncount, IsPresent
      <3>4. CASE session[u] # NoSession
        <4>1. session' = [session EXCEPT ![u] =
                              [session[u] EXCEPT !.active = Decremented(session[u].active)]]
          BY <2>1, <2>3, <3>4 DEF Uncount, IsPresent, SetEntry
        <4>2. session'[u].active = Decremented(session[u].active)
          BY <4>1, <3>4, <1>count, <1>types DEF SessionTable, SessionEntry
        <4>3. session[u].active <= Cardinality(InFlight(u))
          BY <3>4 DEF CountInv, IsPresent
        <4>4. QED
          BY <1>count, <3>2, <3>4, <4>2, <4>3 DEF Decremented
      <3>5. QED
        BY <3>3, <3>4
    <2>4. QED
      BY <2>2, <2>3
  <1>5. CASE Respond(r)
    <2>1. InFlight(u)' = InFlight(u) /\ UNCHANGED session
      BY <1>1, <1>5, <1>types DEF Respond, At, PcTable, InFlight, Me
    <2>2. QED
      BY <1>quiet, <2>1
  <1>6. CASE Assess(r)
    <2>1. pc[r] = "assess" /\ UNCHANGED session /\
              \/ pc' = At(r, "waiting")
              \/ \E label \in {"lookup", "port"} :
                     NotifyAfter(At(r, label)) \/ NoNotifyAfter(At(r, label))
      BY <1>6 DEF Assess
    <2>2. pc'[r] \in {"waiting", "lookup", "port"}
      <3>1. CASE pc' = At(r, "waiting")
        BY <3>1, <1>types DEF At, PcTable
      <3>2. QED
        BY <2>1, <3>1, <1>types, MoveLemma DEF RequestPc, StarterPc
    <2>3. QED
      BY <1>quiet, <1>out, <2>1, <2>2
  <1>7. CASE Lookup(r) \/ FindPort(r) \/ Locate(r) \/ Probe(r) \/ StartRaises(r) \/ Reject(r)
    <2>1. /\ pc[r] \notin {"send", "stream"} /\ pc'[r] \notin {"send", "stream"}
          /\ UNCHANGED session
      BY <1>7, <1>types DEF Lookup, FindPort, Locate, Probe, StartRaises, Reject, Abort,
         NoNotifyAfter, At, PcTable
    <2>2. QED
      BY <1>quiet, <1>out, <2>1
  <1>8. QED
    BY <1>2, <1>3, <1>4, <1>5, <1>6, <1>7 DEF RequestStep, RequestProgress, Leak

\* While no response breaks and Teapot is not killed, a session never counts more requests
\* than are in flight, and a shutdown leaves a store that counts none.
LEMMA CountInductive ==
    ASSUME "leak" \notin Faults, "crash" \notin Faults, IInv, CountInv, [Next]_vars
    PROVE  CountInv'
  <1> DEFINE Bounded(u) ==
                 /\ IsFiniteSet(InFlight(u)')
                 /\ session'[u] # NoSession => session'[u].active <= Cardinality(InFlight(u)')
             Kept(u) == session'[u] # NoSession =>
                            session[u] # NoSession /\ session'[u].active <= session[u].active
  <1>types. /\ TypeOK /\ TypeOK' /\ UsersKnown /\ QueueOfWaiting /\ NothingWhileDown
            /\ pc \in PcTable /\ local \in LocalTable /\ session \in SessionTable
    BY TypeInductive DEF IInv, TypeOK
  <1>count. \A u \in User : session[u] # NoSession => session[u].active \in Nat
    BY <1>types DEF SessionTable, SessionEntry
  <1>same. (session' = session) => \A u \in User : Kept(u)
    BY <1>count
  <1>idle. mode' = "shutdown" => \A r \in Request : pc'[r] = "idle"
    <2>1. CASE mode' = mode
      <3>1. ASSUME NEW r \in Request, RequestStep(r)  PROVE mode # "shutdown"
        BY <3>1, <1>types, RequestStepLemma DEF OthersUndisturbed, CountInv
      <3>2. ASSUME NEW s \in Sweeper, Stop(s) \/ StopDone(s), mode = "shutdown"
            PROVE  \A r \in Request : pc'[r] = "idle"
        BY <3>2, <1>types, StopStepLemma DEF CountInv
      <3>3. QED
        BY <2>1, <3>1, <3>2, <1>types, NextLemma, ChoosingLemma, LeavingLemma
           DEF Arrive, ReaperDies, Start, Boot, Exit, vars, CountInv
    <2>2. CASE mode' # mode
      BY <2>2, ModeLemma DEF Start, Crash, BeginShutdown, EndShutdown, CountInv
    <2>3. QED
      BY <2>1, <2>2
  <1>rest. mode' = "serving" => Resting("shutdown")'
    <2>1. CASE Start
      BY <2>1 DEF Start, NothingWhileDown, Resting, Sweeper, IInv
    <2>2. CASE mode' # mode /\ ~Start
      BY <2>2, ModeLemma DEF Crash, BeginShutdown, EndShutdown
    <2>3. CASE mode' = mode /\ mode = "serving"
      <3>1. Resting("shutdown")
        BY <2>3 DEF CountInv
      <3>2. sweep'["shutdown"] = sweep["shutdown"]
        <4>1. ASSUME NEW r \in Request, RequestStep(r)  PROVE UNCHANGED sweep
          BY <4>1, <1>types, RequestStepLemma DEF OthersUndisturbed
        <4>2. ASSUME NEW s \in Sweeper, Stop(s) \/ StopDone(s)
              PROVE  sweep'["shutdown"] = sweep["shutdown"]
          <5>1. s = "reaper"
            BY <4>2, <3>1 DEF Stop, StopDone, Resting, Sweeper
          <5>2. QED
            BY <4>2, <5>1, <1>types DEF Stop, StopDone, TypeOK, SweepTable, Sweeper
        <4>3. CASE Choosing
          BY <2>3, <3>1, <4>3, <1>types DEF Choosing, Wake, BeginShutdown, Scan, ShutdownNext,
             Resting, TypeOK, SweepTable, Sweeper
        <4>4. CASE Leaving
          BY <2>3, <4>4, LeavingLemma
        <4>5. CASE ReaperDies
          BY <4>5, <1>types DEF ReaperDies, TypeOK, SweepTable, Sweeper
        <4>6. QED
          BY <4>1, <4>2, <4>3, <4>4, <4>5, NextLemma DEF Arrive, Start, Boot, Exit, vars
      <3>3. QED
        BY <3>1, <3>2 DEF Resting
    <2>4. QED
      BY <2>1, <2>2, <2>3
  <1>down. mode' = "down" /\ store'.kind = "file" =>
               \A u \in User : store'.data[u] # NoSession => store'.data[u].active = 0
    <2>1. CASE mode = "down" /\ mode' = "down"
      <3>1. \A r \in Request : pc[r] = "idle"
        BY <2>1, <1>types DEF NothingWhileDown
      <3>2. \A s \in Sweeper : sweep[s].pc = "idle"
        BY <2>1, <1>types DEF NothingWhileDown
      <3>3. ASSUME NEW r \in Request, RequestStep(r)  PROVE FALSE
        BY <3>1, <3>3, <1>types, RequestStepLemma DEF OthersUndisturbed
      <3>4. ASSUME NEW s \in Sweeper, Stop(s) \/ StopDone(s)  PROVE FALSE
        BY <3>2, <3>4 DEF Stop, StopDone
      <3>5. UNCHANGED store
        BY <2>1, <3>3, <3>4, <1>types, NextLemma, ChoosingLemma
           DEF Leaving, EndShutdown, Crash, Arrive, ReaperDies, Start, Boot, Exit, vars
      <3>6. QED
        BY <2>1, <3>5 DEF CountInv
    <2>2. CASE mode # "down" /\ mode' = "down" /\ EndShutdown
      BY <2>2 DEF EndShutdown
    <2>3. CASE mode = "shutdown" /\ mode' = "down" /\ UNCHANGED store
      <3>1. store.data = session
        BY <2>3 DEF IInv, StoreIsCurrent, FileStore
      <3>2. \A u \in User : InFlight(u) = {}
        BY <2>3 DEF InFlight, CountInv
      <3>3. \A u \in User : session[u] # NoSession => session[u].active = 0
        BY <3>2, <1>count, FS_EmptySet DEF CountInv, IsPresent
      <3>4. QED
        BY <2>3, <3>1, <3>3
    <2>4. QED
      BY <2>1, <2>2, <2>3, ModeLemma DEF Start, Crash, BeginShutdown
  <1>crash. mode' # "crashed"
    BY ModeLemma DEF CountInv, Start, Crash, BeginShutdown, EndShutdown
  <1>bounded. \A u \in User : Bounded(u)
    <2>keep. ASSUME NEW u \in User, InFlight(u)' = InFlight(u), Kept(u)  PROVE Bounded(u)
      BY <2>keep, <1>types, CountKeptLemma
    <2>zero. ASSUME NEW u \in User, InFlight(u)' \in SUBSET InFlight(u),
                    session'[u] # NoSession => session'[u].active = 0
             PROVE  Bounded(u)
      BY <2>zero, <1>types, CountKeptLemma
    <2>1. ASSUME NEW r \in Request, NEW u \in User, Arrive(r, u)  PROVE \A v \in User : Bounded(v)
      <3>1. \A v \in User : InFlight(v)' = InFlight(v)
        BY <2>1, <1>types DEF Arrive, At, InFlight, Me, PcTable, LocalTable, Locals
      <3>2. QED
        BY <2>1, <2>keep, <1>same, <3>1 DEF Arrive
    <2>2. ASSUME NEW r \in Request, RequestStep(r)  PROVE \A v \in User : Bounded(v)
      BY <2>2, <1>types, CountOfRequestLemma
    <2>3. ASSUME NEW s \in Sweeper, Stop(s) \/ StopDone(s)  PROVE \A v \in User : Bounded(v)
      <3>1. /\ UNCHANGED local
            /\ \A q \in Request : pc'[q] \in {"send", "stream"} <=> pc[q] \in {"send", "stream"}
        BY <2>3, <1>types, StopStepLemma
      <3>2. \A v \in User : InFlight(v)' = InFlight(v)
        BY <3>1 DEF InFlight, Me
      <3>3. \A v \in User : session'[v] = session[v] \/ session'[v] = NoSession
        BY <2>3, <1>types DEF Stop, StopDone, SetEntry, SessionTable
      <3>4. QED
        BY <2>keep, <2>zero, <1>count, <3>2, <3>3
    <2>4. CASE Leaving
      <3>1. \A v \in User : InFlight(v)' = {} /\ session'[v] = NoSession
        BY <2>4, LeavingLemma DEF ForgetAll, InFlight, NoEntries
      <3>2. QED
        BY <2>zero, <3>1
    <2>5. CASE Start
      <3>1. \A v \in User : InFlight(v)' = InFlight(v)
        BY <2>5 DEF Start, InFlight, Me
      <3>2. mode = "down"
        BY <2>5 DEF Start, CountInv
      <3>3. \A v \in User : session'[v] # NoSession =>
                session'[v] = session[v] \/ session'[v].active = 0
        BY <2>5, <3>2 DEF Start, CountInv, NoEntries
      <3>4. QED
        BY <2>keep, <2>zero, <1>count, <3>1, <3>3
    <2>6. CASE UNCHANGED <<session, pc, local>>
      BY <2>6, <2>keep, <1>same DEF InFlight, Me
    <2>7. QED
      BY <2>1, <2>2, <2>3, <2>4, <2>5, <2>6, <1>types, NextLemma, ChoosingLemma
         DEF ReaperDies, Boot, Exit, vars
  <1>last. QED
    BY <1>idle, <1>rest, <1>down, <1>crash, <1>bounded DEF CountInv, IsPresent

\* CountsOnlyRequestsInFlight holds as long as no response breaks and Teapot is not killed,
\* also where a session is removed and made anew while its requests are under way, and over
\* shutdowns that end early and leave the store behind.
THEOREM TeapotCountsOnlyRequestsInFlight ==
    ASSUME "leak" \notin Faults, "crash" \notin Faults
    PROVE  Spec => []CountsOnlyRequestsInFlight
  <1>1. Init => CountInv
    <2>1. Init => \A u \in User : InFlight(u) = {}
      BY DEF Init, InFlight
    <2>2. Init => \A u \in User : session[u] = NoSession
      BY DEF Init, NoEntries
    <2>3. Init => mode = "down" /\ store.kind = "missing"
      BY DEF Init
    <2>4. QED
      BY <2>1, <2>2, <2>3, FS_EmptySet DEF CountInv, IsPresent
  <1>2. IInv /\ CountInv /\ [Next]_vars => CountInv'
    BY CountInductive
  <1>3. CountInv => CountsOnlyRequestsInFlight
    BY DEF CountInv, InFlight, CountsOnlyRequestsInFlight
  <1>4. QED
    BY <1>1, <1>2, <1>3, Invariant, PTL DEF Spec

--------------------------------------------------------------------------------
(* The user None.                                                          *)

\* An entry for None has no process id ...
NoneIsPlain(entries) == NoUser \in User /\ entries[NoUser] # NoSession => entries[NoUser].pid = NoPid

\* ... since a start for None, and no other, is rejected before there is a process.
NoneHasNoProcess ==
    /\ \A r \in Request :
          /\ pc[r] = "reject" => Me(r) = NoUser
          /\ pc[r] \in {"spawned", "probe", "publish", "failed", "giveup"} => Me(r) # NoUser
    /\ NoneIsPlain(session)
    /\ NoneIsPlain(store.data)

\* No step gives None a process.
LEMMA NoneInductive ==
    ASSUME IInv, NoneHasNoProcess, [Next]_vars
    PROVE  NoneHasNoProcess'
  <1> DEFINE PcFits(r) ==
                 /\ pc'[r] = "reject" => local'[r].user = NoUser
                 /\ pc'[r] \in {"spawned", "probe", "publish", "failed", "giveup"}
                        => local'[r].user # NoUser
  <1>types. /\ TypeOK /\ UsersKnown /\ QueueOfWaiting
            /\ pc \in PcTable /\ local \in LocalTable /\ session \in SessionTable
    BY DEF IInv, TypeOK
  <1>fit. (\A r \in Request : PcFits(r)) /\ NoneIsPlain(session') /\ NoneIsPlain(store'.data)
              => NoneHasNoProcess'
    BY DEF NoneHasNoProcess, NoneIsPlain, Me
  <1>same. ASSUME NEW r \in Request, local'[r].user = local[r].user,
                  pc'[r] = pc[r] \/ pc'[r] = "assess"
           PROVE  PcFits(r)
    BY <1>same DEF NoneHasNoProcess, Me
  <1>set. ASSUME NEW u \in User, NEW entry, SetEntry(u, entry),
                 u # NoUser \/ entry = NoSession \/ entry.pid = NoPid
                 \/ (IsPresent(u) /\ entry.pid = session[u].pid)
          PROVE  NoneIsPlain(session') /\ NoneIsPlain(store'.data)
    BY <1>set, <1>types
       DEF NoneHasNoProcess, NoneIsPlain, SetEntry, save_session_state, FileStore,
           SessionTable, IsPresent
  <1>kept. UNCHANGED <<session, store>> => NoneIsPlain(session') /\ NoneIsPlain(store'.data)
    BY DEF NoneHasNoProcess
  <1>1. ASSUME NEW r \in Request, NEW u \in User, Arrive(r, u)  PROVE NoneHasNoProcess'
    <2>1. \A q \in Request : PcFits(q)
      BY <1>1, <1>types, <1>same DEF Arrive, At, PcTable, LocalTable
    <2>2. QED
      BY <1>1, <2>1, <1>fit, <1>kept DEF Arrive
  <1>2. ASSUME NEW r \in Request, RequestStep(r)  PROVE NoneHasNoProcess'
    <2>1. OthersUndisturbed(r) /\ Me(r) \in User
      BY <1>2, <1>types, RequestStepLemma DEF OthersUndisturbed, UsersKnown
    <2>2. \A q \in Request : q # r => PcFits(q)
      BY <2>1, <1>same DEF OthersUndisturbed
    <2>3. PcFits(r)
      <3>1. CASE pc'[r] = "idle"
        BY <3>1
      <3>2. CASE pc'[r] # "idle"
        <4>1. local'[r].user = Me(r)
          BY <2>1, <3>2 DEF OthersUndisturbed, Me
        <4>2. CASE Assess(r)
          <5>1. CASE pc' = At(r, "waiting")
            BY <5>1, <1>types DEF At, PcTable
          <5>2. CASE pc[r] # "waiting" /\ \E label \in {"lookup", "port"} :
                        NotifyAfter(At(r, label)) \/ NoNotifyAfter(At(r, label))
            BY <5>2, <1>types, MoveLemma DEF RequestPc, StarterPc
          <5>3. QED
            BY <4>2, <5>1, <5>2 DEF Assess
        <4>3. CASE Publish(r) \/ StartFailed(r)
          <5>1. pc[r] # "waiting" /\ \E label \in {"idle", "forward"} :
                        NotifyAfter(At(r, label)) \/ NoNotifyAfter(At(r, label))
            BY <4>3 DEF Publish, StartFailed
          <5>2. QED
            BY <5>1, <1>types, MoveLemma DEF RequestPc
        <4>4. CASE FindPort(r)
          BY <3>2, <4>1, <4>4, <1>types DEF FindPort, Abort, At, PcTable
        <4>5. CASE Locate(r) \/ Probe(r)
          BY <3>2, <4>1, <4>5, <1>types DEF Locate, Probe, Abort, At, PcTable, NoneHasNoProcess
        <4>6. CASE \/ Lookup(r) \/ StartRaises(r) \/ Reject(r) \/ GiveUp(r) \/ Forward(r)
                   \/ SendFails(r) \/ Respond(r) \/ Complete(r) \/ Leak(r)
          BY <4>6, <1>types DEF Lookup, StartRaises, Abort, Reject, GiveUp, Forward, SendFails,
             Respond, Complete, Leak, NoNotifyAfter, At, PcTable
        <4>7. QED
          BY <1>2, <4>2, <4>3, <4>4, <4>5, <4>6 DEF RequestStep, RequestProgress
      <3>3. QED
        BY <3>1, <3>2
    <2>4. NoneIsPlain(session') /\ NoneIsPlain(store'.data)
      <3>1. CASE GiveUp(r)
        BY <2>1, <3>1, <1>set DEF GiveUp
      <3>2. CASE StartFailed(r)
        <4>1. [pid |-> NoPid, port |-> -1, active |-> 0].pid = NoPid
          OBVIOUS
        <4>2. QED
          BY <2>1, <3>2, <4>1, <1>set DEF StartFailed
      <3>3. CASE Publish(r)
        <4>1. Me(r) # NoUser
          BY <3>3 DEF Publish, NoneHasNoProcess
        <4>2. QED
          BY <2>1, <3>3, <4>1, <1>set DEF Publish
      <3>4. CASE Forward(r)
        <4>1. CASE IsPresent(Me(r))
          <5> DEFINE entry == [session[Me(r)] EXCEPT !.active = session[Me(r)].active + 1]
          <5>1. SetEntry(Me(r), entry)
            BY <3>4, <4>1 DEF Forward
          <5>2. entry.pid = session[Me(r)].pid
            BY <2>1, <4>1, <1>types, TypesLemma DEF SessionEntry
          <5>. HIDE DEF entry
          <5>3. QED
            BY <2>1, <4>1, <5>1, <5>2, <1>set
        <4>2. QED
          BY <3>4, <4>1, <1>kept DEF Forward
      <3>5. CASE SendFails(r) \/ Complete(r)
        <4>1. CASE IsPresent(Me(r))
          <5> DEFINE entry == [session[Me(r)] EXCEPT
                                   !.active = Decremented(session[Me(r)].active)]
          <5>1. SetEntry(Me(r), entry)
            BY <3>5, <4>1 DEF SendFails, Complete, Uncount
          <5>2. entry.pid = session[Me(r)].pid
            BY <2>1, <4>1, <1>types, TypesLemma DEF SessionEntry
          <5>. HIDE DEF entry
          <5>3. QED
            BY <2>1, <4>1, <5>1, <5>2, <1>set
        <4>2. QED
          BY <3>5, <4>1, <1>kept DEF SendFails, Complete, Uncount
      <3>6. CASE UNCHANGED <<session, store>>
        BY <3>6, <1>kept
      <3>7. QED
        BY <1>2, <3>1, <3>2, <3>3, <3>4, <3>5, <3>6
           DEF RequestStep, RequestProgress, Assess, Lookup, FindPort, Locate, Probe,
               StartRaises, Abort, Reject, Respond, Leak
    <2>5. QED
      BY <2>2, <2>3, <2>4, <1>fit
  <1>3. ASSUME NEW s \in Sweeper, Stop(s) \/ StopDone(s)  PROVE NoneHasNoProcess'
    <2>1. \A q \in Request : PcFits(q)
      BY <1>3, <1>types, <1>same, StopStepLemma
    <2>2. sweep[s].user \in User
      BY <1>3, <1>types DEF Stop, StopDone, UsersKnown
    <2>3. NoneIsPlain(session') /\ NoneIsPlain(store'.data)
      BY <1>3, <2>2, <1>set, <1>kept DEF Stop, StopDone
    <2>4. QED
      BY <2>1, <2>3, <1>fit
  <1>4. CASE Leaving
    <2>1. ForgetAll
      BY <1>4, LeavingLemma
    <2>2. \A q \in Request : PcFits(q)
      BY <2>1 DEF ForgetAll
    <2>3. session' = NoEntries /\ (store'.data = NoEntries \/ store' = store)
      BY <1>4, <2>1 DEF Leaving, EndShutdown, Crash, ForgetAll
    <2>4. QED
      BY <2>2, <2>3, <1>fit DEF NoneHasNoProcess, NoneIsPlain, NoEntries
  <1>5. CASE Start
    <2>1. \A q \in Request : PcFits(q)
      BY <1>5, <1>same DEF Start
    <2>2. \A entries \in {session', store'.data} : entries \in {session, store.data, NoEntries}
      BY <1>5 DEF Start, FileStore
    <2>3. QED
      BY <2>1, <2>2, <1>fit DEF NoneHasNoProcess, NoneIsPlain, NoEntries
  <1>6. CASE UNCHANGED <<session, store, pc, local>>
    BY <1>6, <1>same, <1>kept, <1>fit
  <1>7. QED
    BY <1>1, <1>2, <1>3, <1>4, <1>5, <1>6, <1>types, NextLemma, ChoosingLemma
       DEF ReaperDies, Boot, Exit, vars

--------------------------------------------------------------------------------
(* Teapot implements InstanceLifecycle.                                    *)

Starts(r, u) == pc[r] \in StarterPc /\ Me(r) = u

Advertised(u) == IsPresent(u) /\ session[u].pid # NoPid

\* The owner of a start is the one request that is at it, before and after a step.
LEMMA StarterLemma ==
    ASSUME NEW u \in User
    PROVE  /\ OneStarter => /\ \A r \in Request : Starts(r, u) => StarterOf(u) = r
                            /\ (\A r \in Request : ~Starts(r, u)) => StarterOf(u) = NoRequest
           /\ OneStarter' => /\ \A r \in Request : Starts(r, u)' => StarterOf(u)' = r
                             /\ (\A r \in Request : ~Starts(r, u)') => StarterOf(u)' = NoRequest
  BY DEF OneStarter, StarterOf, Starts

\* What the abstract state shows of a user does not change.
Same(u) ==
    /\ StateOf(u)' = StateOf(u)
    /\ StarterOf(u)' = StarterOf(u)
    /\ Advertised(u)' = Advertised(u)

\* Who owns a start stays the same if the same requests are at it.
LEMMA StartersKeptLemma ==
    ASSUME OneStarter, OneStarter', NEW u \in User,
           \A r \in Request : Starts(r, u)' <=> Starts(r, u)
    PROVE  StarterOf(u)' = StarterOf(u)
  BY StarterLemma

\* A step no user sees is a stuttering step of the lifecycle.
LEMMA SameIsStutter ==
    ASSUME \A u \in User : Same(u)
    PROVE  UNCHANGED Lifecycle!lifecycleVars
  BY DEF Same, Advertised, Lifecycle!lifecycleVars

\* The abstract steps, from what they show of each user: one becomes the owner of a start ...
LEMMA ClaimLemma ==
    ASSUME NEW u \in User, NEW r \in Request, \A v \in User : v # u => Same(v),
           StateOf(u) = "NOT RUNNING", StateOf(u)' = "STARTING", StarterOf(u)' = r,
           Advertised(u)' = Advertised(u)
    PROVE  Lifecycle!Claim(u, r)
  BY DEF Same, Advertised, Lifecycle!Claim

\* ... publishes the instance ...
LEMMA CommitLemma ==
    ASSUME NEW u \in User, \A v \in User : v # u => Same(v),
           StateOf(u) = "STARTING", StarterOf(u) # NoRequest,
           StateOf(u)' = "RUNNING", StarterOf(u)' = NoRequest, Advertised(u)'
    PROVE  Lifecycle!Commit(u)
  BY DEF Same, Advertised, Lifecycle!Commit

\* ... gives the start up ...
LEMMA GiveUpLemma ==
    ASSUME NEW u \in User, \A v \in User : v # u => Same(v),
           StateOf(u) = "STARTING", StarterOf(u) # NoRequest,
           StateOf(u)' = "NOT RUNNING", StarterOf(u)' = NoRequest, ~Advertised(u)'
    PROVE  Lifecycle!GiveUpStart(u)
  BY DEF Same, Advertised, Lifecycle!GiveUpStart

\* ... or leaves it without an owner;
LEMMA AbandonLemma ==
    ASSUME NEW u \in User, \A v \in User : v # u => Same(v),
           StateOf(u) = "STARTING", StarterOf(u) # NoRequest,
           StateOf(u)' = StateOf(u), StarterOf(u)' = NoRequest,
           Advertised(u)' = Advertised(u)
    PROVE  Lifecycle!Abandon(u)
  BY DEF Same, Advertised, Lifecycle!Abandon

\* the session of a user is withdrawn ...
LEMMA WithdrawLemma ==
    ASSUME NEW u \in User, \A v \in User : v # u => Same(v),
           StateOf(u)' = IF StateOf(u) = "RUNNING" THEN "STOPPING" ELSE StateOf(u),
           StarterOf(u)' = StarterOf(u), ~Advertised(u)'
    PROVE  Lifecycle!Withdraw(u)
  BY DEF Same, Advertised, Lifecycle!Withdraw

\* ... and the instance stopped;
LEMMA StoppedLemma ==
    ASSUME NEW u \in User, \A v \in User : v # u => Same(v),
           StateOf(u) = "STOPPING", StateOf(u)' = "NOT RUNNING",
           StarterOf(u)' = StarterOf(u), Advertised(u)' = Advertised(u)
    PROVE  Lifecycle!Stopped(u)
  BY DEF Same, Advertised, Lifecycle!Stopped

\* Teapot goes away ...
LEMMA ResetLemma ==
    ASSUME \A u \in User : /\ StateOf(u)' = "NOT RUNNING"
                           /\ StarterOf(u)' = NoRequest
                           /\ ~Advertised(u)'
    PROVE  Lifecycle!Reset
  BY DEF Advertised, Lifecycle!Reset, Lifecycle!LifecycleInit

\* ... and comes back with whatever sessions it finds.
LEMMA ReloadLemma ==
    ASSUME \A u \in User : /\ StateOf(u) = "NOT RUNNING"
                           /\ StateOf(u)' = StateOf(u)
                           /\ StarterOf(u)' = StarterOf(u)
    PROVE  Lifecycle!Reload
  BY DEF Advertised, Lifecycle!Reload

\* A step of a request changes what is seen of no user but its own.
LEMMA OthersSameLemma ==
    ASSUME IInv, IInv', NEW r \in Request, RequestStep(r), NEW v \in User, v # Me(r)
    PROVE  Same(v)
  <1>types. TypeOK /\ UsersKnown /\ QueueOfWaiting /\ session \in SessionTable
    BY DEF IInv, TypeOK
  <1>1. OthersUndisturbed(r)
    BY <1>types, RequestStepLemma
  <1>2. StateOf(v)' = StateOf(v)
    BY <1>1 DEF OthersUndisturbed, StateOf
  <1>3. \A q \in Request : Starts(q, v)' <=> Starts(q, v)
    BY <1>1 DEF OthersUndisturbed, Starts, Me, StarterPc
  <1>4. StarterOf(v)' = StarterOf(v)
    BY <1>3, StartersKeptLemma DEF IInv
  <1>5. session'[v] = session[v]
    BY <1>types DEF RequestStep, RequestProgress, Assess, Lookup, FindPort, Locate, Probe,
       StartRaises, Abort, Reject, GiveUp, StartFailed, Publish, Forward, SendFails, Respond,
       Complete, Leak, Uncount, SetEntry, SessionTable
  <1>6. QED
    BY <1>2, <1>4, <1>5 DEF Same, Advertised, IsPresent

\* A step of a request is one of the abstract steps of its user, or none.
LEMMA RequestImplements ==
    ASSUME IInv, IInv', NoneHasNoProcess, NEW r \in Request, RequestStep(r),
           NEW u \in User, u = Me(r)
    PROVE  Lifecycle!LifecycleNext \/ UNCHANGED Lifecycle!lifecycleVars
  <1>types. /\ TypeOK /\ UsersKnown /\ QueueOfWaiting /\ OneStarter /\ OneStarter'
            /\ pc \in PcTable /\ session \in SessionTable /\ sw \in SwTable
    BY DEF IInv, TypeOK
  <1>1. OthersUndisturbed(r)
    BY <1>types, RequestStepLemma
  <1>others. \A v \in User : v # u => Same(v)
    BY OthersSameLemma
  <1>owner. pc[r] \in StarterPc =>
                StarterOf(u) = r /\ sw[u] = "STARTING" /\ StateOf(u) = "STARTING"
    BY <1>types, StarterLemma DEF OneStarter, Starts, StateOf
  <1>nobody. ASSUME pc[r] \in StarterPc, pc'[r] \notin StarterPc
             PROVE  StarterOf(u)' = NoRequest
    <2>1. ASSUME NEW q \in Request, Starts(q, u)'  PROVE FALSE
      <3>1. q # r /\ pc'[q] \in StarterPc /\ local'[q].user = u
        BY <1>nobody, <2>1 DEF Starts, Me
      <3>2. pc'[q] # "assess" /\ pc'[q] = pc[q] /\ local'[q] = local[q]
        BY <1>1, <3>1 DEF OthersUndisturbed, StarterPc
      <3>3. pc[q] \in StarterPc /\ Me(q) = Me(r)
        BY <3>1, <3>2 DEF Me
      <3>4. QED
        BY <1>nobody, <1>types, <3>1, <3>3 DEF OneStarter
    <2>2. QED
      BY <1>types, <2>1, StarterLemma
  <1>stay. ASSUME pc[r] \in StarterPc <=> pc'[r] \in StarterPc, sw' = sw,
                  Advertised(u)' = Advertised(u)
           PROVE  UNCHANGED Lifecycle!lifecycleVars
    <2>1. \A q \in Request : Starts(q, u)' <=> Starts(q, u)
      BY <1>1, <1>stay DEF OthersUndisturbed, Starts, Me, StarterPc
    <2>2. StarterOf(u)' = StarterOf(u)
      BY <1>types, <2>1, StartersKeptLemma
    <2>3. StateOf(u)' = StateOf(u)
      BY <1>stay DEF StateOf
    <2>4. QED
      BY <1>others, <1>stay, <2>2, <2>3, SameIsStutter DEF Same
  <1>entry. session' = session => Advertised(u)' = Advertised(u)
    BY <1>1 DEF Advertised, IsPresent
  <1>3. CASE Assess(r)
    <2>1. pc[r] = "assess" /\ UNCHANGED session
      BY <1>3 DEF Assess
    <2>2. CASE /\ StateOf(u) # "RUNNING" /\ ~MustWait(StateOf(u))
               /\ sw' = [sw EXCEPT ![u] = "STARTING"] /\ NotifyAfter(At(r, "port"))
      <3>1. StateOf(u) = "NOT RUNNING" /\ StateOf(u)' = "STARTING"
        BY <2>2, <1>types DEF StateOf, MustWait, SwTable, SwState
      <3>2. pc'[r] = "port"
        BY <2>1, <2>2, <1>types, MoveLemma DEF RequestPc, StarterPc
      <3>3. Starts(r, u)'
        BY <1>1, <3>2 DEF OthersUndisturbed, Starts, Me, StarterPc
      <3>4. StarterOf(u)' = r
        BY <1>types, <3>3, StarterLemma
      <3>5. Lifecycle!Claim(u, r)
        BY <1>entry, <1>others, <2>1, <3>1, <3>4, ClaimLemma
      <3>6. QED
        BY <3>5 DEF Lifecycle!LifecycleNext
    <2>3. CASE UNCHANGED sw /\ (pc' = At(r, "waiting") \/ NoNotifyAfter(At(r, "lookup")))
      <3>1. pc'[r] \in {"waiting", "lookup"}
        BY <2>3, <1>types DEF NoNotifyAfter, At, PcTable
      <3>2. QED
        BY <1>entry, <1>stay, <2>1, <2>3, <3>1 DEF StarterPc
    <2>4. QED
      BY <1>3, <2>2, <2>3 DEF Assess
  <1>4. CASE Abort(r) /\ pc[r] \in StarterPc
    <2>1. pc'[r] = "idle" /\ UNCHANGED <<sw, session>>
      BY <1>4, <1>types DEF Abort, At, PcTable
    <2>2. StateOf(u)' = StateOf(u)
      BY <2>1, <1>1 DEF StateOf
    <2>3. Lifecycle!Abandon(u)
      BY <1>4, <1>entry, <1>nobody, <1>others, <1>owner, <2>1, <2>2, NamesAssumption,
         AbandonLemma DEF StarterPc
    <2>4. QED
      BY <2>3 DEF Lifecycle!LifecycleNext
  <1>5. CASE /\ pc[r] \in StarterPc /\ pc'[r] \in StarterPc
             /\ UNCHANGED <<sw, session>>
    BY <1>5, <1>entry, <1>stay
  <1>6. CASE FindPort(r) \/ Locate(r) \/ Probe(r)
    <2>1. CASE ~Abort(r)
      BY <1>5, <1>6, <2>1, <1>types DEF FindPort, Locate, Probe, At, PcTable, StarterPc
    <2>2. QED
      BY <1>4, <1>6, <2>1 DEF FindPort, Locate, Probe, StarterPc
  <1>7. CASE StartRaises(r)
    BY <1>4, <1>7 DEF StartRaises, StarterPc
  <1>8. CASE Reject(r)
    <2>1. pc[r] = "reject" /\ pc'[r] = "idle" /\ UNCHANGED session
      BY <1>8, <1>types DEF Reject, NoNotifyAfter, At, PcTable
    <2>2. u = NoUser
      BY <2>1 DEF NoneHasNoProcess
    <2>3. ~Advertised(u)'
      BY <2>1, <2>2 DEF NoneHasNoProcess, NoneIsPlain, Advertised, IsPresent
    <2>4. StateOf(u)' = "NOT RUNNING"
      BY <1>8, <1>types DEF Reject, StateOf, SwTable
    <2>5. Lifecycle!GiveUpStart(u)
      BY <1>nobody, <1>others, <1>owner, <2>1, <2>3, <2>4, NamesAssumption, GiveUpLemma
         DEF StarterPc
    <2>6. QED
      BY <2>5 DEF Lifecycle!LifecycleNext
  <1>9. CASE GiveUp(r) \/ StartFailed(r)
    <2>1. pc[r] \in {"giveup", "failed"} /\ sw' = ShiftedIf(u, "STARTING", "NOT RUNNING")
      BY <1>9 DEF GiveUp, StartFailed
    <2>2. pc'[r] = "idle"
      BY <1>9, <2>1, <1>types, MoveLemma DEF GiveUp, StartFailed, RequestPc
    <2>3. StateOf(u)' = "NOT RUNNING"
      BY <1>owner, <2>1, <1>types DEF ShiftedIf, StateOf, SwTable, StarterPc
    <2>4. ~Advertised(u)'
      <3>1. \/ SetEntry(u, NoSession)
            \/ SetEntry(u, [pid |-> NoPid, port |-> -1, active |-> 0])
        BY <1>9 DEF GiveUp, StartFailed
      <3>2. ASSUME NEW entry, SetEntry(u, entry), entry = NoSession \/ entry.pid = NoPid
            PROVE  ~Advertised(u)'
        BY <1>1, <3>2, <1>types DEF SetEntry, SessionTable, Advertised, IsPresent
      <3>3. QED
        BY <3>1, <3>2
    <2>5. Lifecycle!GiveUpStart(u)
      BY <1>nobody, <1>others, <1>owner, <2>1, <2>2, <2>3, <2>4, NamesAssumption,
         GiveUpLemma DEF StarterPc
    <2>6. QED
      BY <2>5 DEF Lifecycle!LifecycleNext
  <1>10. CASE Publish(r)
    <2>1. pc[r] = "publish" /\ sw' = ShiftedIf(u, "STARTING", "RUNNING")
      BY <1>10 DEF Publish
    <2>2. pc'[r] = "forward"
      BY <1>10, <2>1, <1>types, MoveLemma DEF Publish, RequestPc
    <2>3. sw'[u] = "RUNNING" /\ StateOf(u)' = "RUNNING"
      BY <1>owner, <2>1, <1>types DEF ShiftedIf, StateOf, SwTable, StarterPc
    <2>4. Advertised(u)'
      BY <2>3 DEF IInv, SessionMatchesState, Advertised, IsPresent
    <2>5. Lifecycle!Commit(u)
      BY <1>nobody, <1>others, <1>owner, <2>1, <2>2, <2>3, <2>4, NamesAssumption,
         CommitLemma DEF StarterPc
    <2>6. QED
      BY <2>5 DEF Lifecycle!LifecycleNext
  <1>11. CASE Lookup(r) \/ Respond(r) \/ Leak(r)
    <2>1. /\ pc[r] \notin StarterPc /\ pc'[r] \notin StarterPc
          /\ UNCHANGED <<sw, session>>
      BY <1>11, <1>types DEF Lookup, Respond, Leak, At, PcTable, StarterPc
    <2>2. QED
      BY <1>entry, <1>stay, <2>1
  <1>12. CASE Forward(r) \/ SendFails(r) \/ Complete(r)
    <2>1. pc[r] \notin StarterPc /\ pc'[r] \notin StarterPc /\ UNCHANGED sw
      BY <1>12, <1>types DEF Forward, SendFails, Complete, At, PcTable, StarterPc
    <2>2. CASE ~IsPresent(u)
      BY <1>12, <1>entry, <1>stay, <2>1, <2>2 DEF Forward, SendFails, Complete, Uncount
    <2>3. CASE IsPresent(u)
      <3>1. PICK n \in Nat : SetEntry(u, [session[u] EXCEPT !.active = n])
        <4>1. session[u].active + 1 \in Nat /\ Decremented(session[u].active) \in Nat
          BY <2>3, <1>types, TypesLemma DEF SessionEntry, Decremented
        <4>2. \/ SetEntry(u, [session[u] EXCEPT !.active = session[u].active + 1])
              \/ SetEntry(u, [session[u] EXCEPT !.active = Decremented(session[u].active)])
          BY <1>12, <2>3 DEF Forward, SendFails, Complete, Uncount
        <4>3. QED
          BY <4>1, <4>2
      <3>2. session'[u] # NoSession /\ session'[u].pid = session[u].pid
        BY <2>3, <3>1, <1>types, CountLemma
      <3>3. Advertised(u)' = Advertised(u)
        BY <2>3, <3>2, <1>others DEF Advertised, IsPresent
      <3>4. QED
        BY <1>stay, <2>1, <3>3
    <2>4. QED
      BY <2>2, <2>3
  <1>13. QED
    BY <1>3, <1>6, <1>7, <1>8, <1>9, <1>10, <1>11, <1>12 DEF RequestStep, RequestProgress

\* A step that changes neither table, nor who owns a start, is not seen at all.
LEMMA UnseenLemma ==
    ASSUME IInv, IInv', UNCHANGED <<sw, session>>,
           \A q \in Request : pc'[q] \in StarterPc <=> pc[q] \in StarterPc,
           \A q \in Request : pc[q] \in StarterPc => local'[q].user = local[q].user
    PROVE  UNCHANGED Lifecycle!lifecycleVars
  <1> SUFFICES ASSUME NEW u \in User  PROVE Same(u)
    BY SameIsStutter
  <1>1. \A q \in Request : Starts(q, u)' <=> Starts(q, u)
    BY DEF Starts, Me
  <1>2. StarterOf(u)' = StarterOf(u)
    BY <1>1, StartersKeptLemma DEF IInv
  <1>3. StateOf(u)' = StateOf(u) /\ Advertised(u)' = Advertised(u)
    BY DEF StateOf, Advertised, IsPresent
  <1>4. QED
    BY <1>2, <1>3 DEF Same

\* A stop withdraws the session, and the end of it makes the user startable again.
LEMMA StopImplements ==
    ASSUME IInv, IInv', NEW s \in Sweeper, Stop(s) \/ StopDone(s),
           NEW u \in User, u = sweep[s].user
    PROVE  Lifecycle!LifecycleNext \/ UNCHANGED Lifecycle!lifecycleVars
  <1>types. TypeOK /\ UsersKnown /\ QueueOfWaiting /\ session \in SessionTable /\ sw \in SwTable
    BY DEF IInv, TypeOK
  <1>1. /\ UNCHANGED local
        /\ \A q \in Request : pc'[q] = pc[q] \/ (pc[q] = "waiting" /\ pc'[q] = "assess")
    BY <1>types, StopStepLemma
  <1>2. \A q \in Request : pc'[q] \in StarterPc <=> pc[q] \in StarterPc
    BY <1>1 DEF StarterPc
  <1>3. \A v \in User : StarterOf(v)' = StarterOf(v)
    <2> SUFFICES ASSUME NEW v \in User  PROVE StarterOf(v)' = StarterOf(v)
      OBVIOUS
    <2>1. \A q \in Request : Starts(q, v)' <=> Starts(q, v)
      BY <1>1, <1>2 DEF Starts, Me
    <2>2. QED
      BY <2>1, StartersKeptLemma DEF IInv
  <1>4. CASE Stop(s)
    <2>1. sw' = ShiftedIf(u, "RUNNING", "STOPPING")
      BY <1>4 DEF Stop, StateWhileStopping
    <2>2. IF IsPresent(u) THEN SetEntry(u, NoSession) ELSE UNCHANGED <<session, store>>
      BY <1>4 DEF Stop
    <2>3. ~Advertised(u)' /\ \A v \in User : v # u => Advertised(v)' = Advertised(v)
      BY <1>types, <2>2 DEF SetEntry, SessionTable, Advertised, IsPresent
    <2>4. /\ StateOf(u)' = IF StateOf(u) = "RUNNING" THEN "STOPPING" ELSE StateOf(u)
          /\ \A v \in User : v # u => StateOf(v)' = StateOf(v)
      BY <1>types, <2>1 DEF ShiftedIf, StateOf, SwTable
    <2>5. \A v \in User : v # u => Same(v)
      BY <1>3, <2>3, <2>4 DEF Same
    <2>6. Lifecycle!Withdraw(u)
      BY <1>3, <2>3, <2>4, <2>5, WithdrawLemma
    <2>7. QED
      BY <2>6 DEF Lifecycle!LifecycleNext
  <1>5. CASE StopDone(s)
    <2>1. sw' = ShiftedIf(u, "STOPPING", "NOT RUNNING") /\ UNCHANGED session
      BY <1>5 DEF StopDone
    <2>2. \A v \in User : Advertised(v)' = Advertised(v)
      BY <2>1 DEF Advertised, IsPresent
    <2>3. \A v \in User : v # u => StateOf(v)' = StateOf(v)
      BY <1>types, <2>1 DEF ShiftedIf, StateOf, SwTable
    <2>4. \A v \in User : v # u => Same(v)
      BY <1>3, <2>2, <2>3 DEF Same
    <2>5. CASE sw[u] = "STOPPING"
      <3>1. StateOf(u) = "STOPPING" /\ StateOf(u)' = "NOT RUNNING"
        BY <1>types, <2>1, <2>5 DEF ShiftedIf, StateOf, SwTable
      <3>2. Lifecycle!Stopped(u)
        BY <1>3, <2>2, <2>4, <3>1, StoppedLemma
      <3>3. QED
        BY <3>2 DEF Lifecycle!LifecycleNext
    <2>6. CASE sw[u] # "STOPPING"
      <3>1. sw' = sw
        BY <1>types, <2>1, <2>6 DEF ShiftedIf, SwTable
      <3>2. QED
        BY <1>1, <1>2, <2>1, <3>1, UnseenLemma
    <2>7. QED
      BY <2>5, <2>6
  <1>6. QED
    BY <1>4, <1>5

\* The end of the Teapot process takes everything back.
LEMMA LeavingImplements ==
    ASSUME IInv', Leaving
    PROVE  Lifecycle!Reset
  <1>1. ForgetAll
    BY LeavingLemma
  <1> SUFFICES ASSUME NEW u \in User
               PROVE  /\ StateOf(u)' = "NOT RUNNING"
                      /\ StarterOf(u)' = NoRequest
                      /\ ~Advertised(u)'
    BY ResetLemma
  <1>2. StateOf(u)' = "NOT RUNNING"
    BY <1>1 DEF ForgetAll, StateOf
  <1>3. \A q \in Request : ~Starts(q, u)'
    BY <1>1 DEF ForgetAll, Starts, StarterPc
  <1>4. StarterOf(u)' = NoRequest
    BY <1>3, StarterLemma DEF IInv
  <1>5. ~Advertised(u)'
    BY <1>1 DEF ForgetAll, NoEntries, Advertised, IsPresent
  <1>6. QED
    BY <1>2, <1>4, <1>5

\* A new Teapot process comes back with the sessions of the file, and nothing else.
LEMMA StartImplements ==
    ASSUME IInv, IInv', Start
    PROVE  Lifecycle!Reload
  <1>1. UNCHANGED <<sw, pc, local>>
    BY DEF Start
  <1> SUFFICES ASSUME NEW u \in User
               PROVE  /\ StateOf(u) = "NOT RUNNING"
                      /\ StateOf(u)' = StateOf(u)
                      /\ StarterOf(u)' = StarterOf(u)
    BY ReloadLemma
  <1>2. StateOf(u) = "NOT RUNNING" /\ StateOf(u)' = StateOf(u)
    BY <1>1 DEF Start, IInv, NothingWhileDown, StateOf
  <1>3. \A q \in Request : Starts(q, u)' <=> Starts(q, u)
    BY <1>1 DEF Starts, Me
  <1>4. StarterOf(u)' = StarterOf(u)
    BY <1>3, StartersKeptLemma DEF IInv
  <1>5. QED
    BY <1>2, <1>4

\* Every step of Teapot is a step of the lifecycle, or none of its users notices.
LEMMA NextImplements ==
    ASSUME IInv, IInv', NoneHasNoProcess, [Next]_vars
    PROVE  Lifecycle!LifecycleNext \/ UNCHANGED Lifecycle!lifecycleVars
  <1>types. TypeOK /\ UsersKnown /\ QueueOfWaiting
    BY DEF IInv
  <1>1. ASSUME NEW r \in Request, NEW u \in User, Arrive(r, u)
        PROVE  UNCHANGED Lifecycle!lifecycleVars
    <2>1. UNCHANGED <<sw, session>>
      BY <1>1 DEF Arrive
    <2>2. \A q \in Request : pc'[q] \in StarterPc <=> pc[q] \in StarterPc
      BY <1>1, <1>types DEF Arrive, At, TypeOK, PcTable, StarterPc
    <2>3. \A q \in Request : pc[q] \in StarterPc => local'[q].user = local[q].user
      BY <1>1, <1>types DEF Arrive, TypeOK, LocalTable, StarterPc
    <2>4. QED
      BY <2>1, <2>2, <2>3, UnseenLemma
  <1>2. ASSUME NEW r \in Request, RequestStep(r)
        PROVE  Lifecycle!LifecycleNext \/ UNCHANGED Lifecycle!lifecycleVars
    <2>1. Me(r) \in User
      BY <1>2, <1>types, RequestStepLemma DEF OthersUndisturbed, UsersKnown
    <2>2. QED
      BY <1>2, <2>1, RequestImplements
  <1>3. ASSUME NEW s \in Sweeper, Stop(s) \/ StopDone(s)
        PROVE  Lifecycle!LifecycleNext \/ UNCHANGED Lifecycle!lifecycleVars
    <2>1. sweep[s].user \in User
      BY <1>3, <1>types, StopStepLemma DEF UsersKnown
    <2>2. QED
      BY <1>3, <2>1, StopImplements
  <1>4. CASE Leaving
    BY <1>4, LeavingImplements DEF Lifecycle!LifecycleNext
  <1>5. CASE Start
    BY <1>5, StartImplements DEF Lifecycle!LifecycleNext
  <1>6. CASE UNCHANGED <<sw, session, pc, local>>
    BY <1>6, UnseenLemma
  <1>7. QED
    BY <1>1, <1>2, <1>3, <1>4, <1>5, <1>6, <1>types, NextLemma, ChoosingLemma
       DEF ReaperDies, Boot, Exit, vars

\* Before the first start there is nothing to see.
LEMMA InitImplements ==
    ASSUME Init, IInv
    PROVE  Lifecycle!LifecycleInit
  <1> SUFFICES ASSUME NEW u \in User
               PROVE  /\ StateOf(u) = "NOT RUNNING"
                      /\ StarterOf(u) = NoRequest
                      /\ ~Advertised(u)
    BY DEF Lifecycle!LifecycleInit, Advertised
  <1>1. StateOf(u) = "NOT RUNNING" /\ ~Advertised(u)
    BY DEF Init, StateOf, NoEntries, Advertised, IsPresent
  <1>2. \A q \in Request : ~Starts(q, u)
    BY DEF Init, Starts, StarterPc
  <1>3. StarterOf(u) = NoRequest
    BY <1>2, StarterLemma DEF IInv
  <1>4. QED
    BY <1>1, <1>3

\* Whatever requests, the reaper, the shutdown, kills and restarts do, the instance of
\* each user goes through its phases in order, and only the owner of a start ends it
\* (storm_webdav_state, _stop_webdav_instance).
THEOREM TeapotImplementsLifecycle == Spec => ImplementsLifecycle
  <1>1. Init => NoneHasNoProcess
    BY DEF Init, NoneHasNoProcess, NoneIsPlain, NoEntries
  <1>2. IInv /\ NoneHasNoProcess /\ [Next]_vars => NoneHasNoProcess'
    BY NoneInductive
  <1>3. Init /\ IInv => Lifecycle!LifecycleInit
    BY InitImplements
  <1>4. IInv /\ IInv' /\ NoneHasNoProcess /\ [Next]_vars
            => [Lifecycle!LifecycleNext]_(Lifecycle!lifecycleVars)
    BY NextImplements
  <1>5. QED
    BY <1>1, <1>2, <1>3, <1>4, Invariant, PTL
       DEF Spec, ImplementsLifecycle, Lifecycle!LifecycleSpec
=============================================================================
