--------------------------- MODULE RucioTokensProofs ---------------------------
(***************************************************************************)
(* Proofs about RucioTokens, for every set of tokens and sessions, every   *)
(* lifetime and every number of faults: the type invariant, the one live   *)
(* end of a chain of refreshes, and the end of a chain.                    *)
(***************************************************************************)
EXTENDS RucioTokens, TLAPS

--------------------------------------------------------------------------------
(* The inductive invariant                                                 *)

Live(t) == IsRow(t) /\ row[t].refresh

\* Rows are of issued tokens, and chains begin with issued tokens.
IssuedOK ==
    \A t \in Token :
        /\ IsRow(t) => ~Fresh(t)
        /\ ~Fresh(t) => /\ issued[t].exp >= Lifetime
                        /\ issued[t].origin # NoToken => ~Fresh(issued[t].origin)

\* The token o began a chain, the clock of which started while o was valid.
StartedIn(start, o) == o \in Token /\ ~Fresh(o) /\ start < issued[o].exp

\* A live row belongs to a chain; it began it, or carries the start of its first refresh.
LiveRows ==
    \A t \in Token : Live(t) =>
        /\ issued[t].origin \in Token
        /\ IF row[t].start = NoTime THEN issued[t].origin = t
           ELSE StartedIn(row[t].start, issued[t].origin)

\* A session with w has got a token from the IdP and has not saved it yet.
Unsaved(w) == w.pc \in {"save", "login", "saveExchanged"}

\* It is the first of its chain.
First(w) == w.pc \in {"login", "saveExchanged"}

\* What a session's task w may rely on.
HeldFit(w) == \A t \in w.held : IsRow(t)

RefreshFits(w) ==
    w.pc \in {"refresh", "stop", "save"} =>
        /\ w.token \in w.held
        /\ Live(w.token)
        /\ StartedIn(w.start, issued[w.token].origin)

NewFits(w) ==
    Unsaved(w) => /\ w.new \in Token
                  /\ ~Fresh(w.new)
                  /\ ~IsRow(w.new)
                  /\ w.pc = "save" => issued[w.new].origin = issued[w.token].origin

FirstFits(w) ==
    First(w) => /\ issued[w.new].origin = w.new
                /\ \A u \in Token \ {w.new} : ~Fresh(u) => issued[u].origin # w.new

ForeignFits(w) ==
    w.pc \in {"insert", "commit"} =>
        /\ w.token \in Token
        /\ ~Fresh(w.token)
        /\ \/ issued[w.token].origin = NoToken
           \/ w.pc = "insert" /\ (IsRow(w.token) \/ Over(w.token))
        /\ w.pc = "commit" => ~IsRow(w.token)

ExchangeFits(w) == w.pc = "exchange" => w.token \in w.held

Fits(w) ==
    HeldFit(w) /\ RefreshFits(w) /\ NewFits(w) /\ FirstFits(w) /\ ForeignFits(w)
        /\ ExchangeFits(w)

TasksFit == \A s \in Session : Fits(task[s])

\* The token that a session with w is going to add to the table.
Adding(w) == Unsaved(w) \/ w.pc = "commit"

Added(w) == IF w.pc = "commit" THEN w.token ELSE w.new

\* Two sessions lock different rows and add different ones.
Apart(w, v) ==
    /\ w.held \cap v.held = {}
    /\ Adding(w) /\ Adding(v) => Added(w) # Added(v)

TasksApart == \A s, r \in Session : s # r => Apart(task[s], task[r])

IInv ==
    /\ TypeOK
    /\ IssuedOK
    /\ LiveRows
    /\ OneLiveEnd
    /\ TasksFit
    /\ TasksApart
--------------------------------------------------------------------------------
(* The parts of the invariant, one level down.                             *)

\* What the variables hold.
LEMMA TypesLemma ==
    ASSUME TypeOK
    PROVE  /\ now \in Nat
           /\ \A t \in Token : IsRow(t) => row[t] \in Row
           /\ \A t \in Token : ~Fresh(t) => issued[t] \in Issue
           /\ \A s \in Session : task[s] \in Task
  BY TimeAssumption DEF TypeOK, IsRow, Fresh

\* The task of a session that is w after a step fits if w does.
LEMMA CarryLemma ==
    ASSUME NEW r, NEW w, task'[r] = w, Fits(w)'
    PROVE  Fits(task[r])'
  BY DEF Fits, HeldFit, RefreshFits, NewFits, FirstFits, ForeignFits, ExchangeFits,
         Unsaved, First

\* A task goes on fitting, provided that issued tokens stay, and that neither the rows
\* it has locked nor the one it is going to write are touched.
LEMMA FitsLemma ==
    ASSUME TypeOK, IssuedOK, NEW w \in Task, Fits(w),
           now' \in Nat, now' >= now,
           \A t \in Token : ~Fresh(t) => issued'[t] = issued[t],
           First(w) => \A t \in Token : Fresh(t) /\ ~Fresh(t)' =>
                           issued'[t].origin # w.new,
           \A t \in w.held : row'[t] = row[t],
           Adding(w) => row'[Added(w)] = row[Added(w)],
           \A t \in Token : IsRow(t) => IsRow(t)' \/ Over(t)
    PROVE  Fits(w)'
<1>1. w.held \subseteq Token
  BY DEF Task
<1>2. now \in Nat /\ \A t \in Token : ~Fresh(t) => issued[t] \in Issue
  BY TypesLemma
<1>3. \A t \in Token : ~Fresh(t) => ~Fresh(t)'
  BY DEF Fresh
<1>4. HeldFit(w)'
  BY <1>1 DEF Fits, HeldFit, IsRow
<1>5. RefreshFits(w)'
  <2> SUFFICES ASSUME w.pc \in {"refresh", "stop", "save"}
               PROVE  /\ w.token \in w.held
                      /\ Live(w.token)'
                      /\ StartedIn(w.start, issued[w.token].origin)'
    BY DEF RefreshFits
  <2>1. w.token \in w.held /\ Live(w.token) /\ StartedIn(w.start, issued[w.token].origin)
    BY DEF Fits, RefreshFits
  <2>2. w.token \in Token /\ row'[w.token] = row[w.token]
    BY <1>1, <2>1
  <2>3. Live(w.token)'
    BY <2>1, <2>2 DEF Live, IsRow
  <2>4. issued'[w.token] = issued[w.token]
    BY <2>1, <2>2 DEF IssuedOK, Live
  <2>5. StartedIn(w.start, issued[w.token].origin)'
    BY <1>3, <2>1, <2>4 DEF StartedIn
  <2> QED
    BY <2>1, <2>3, <2>5
<1>6. NewFits(w)'
  <2> SUFFICES ASSUME Unsaved(w)
               PROVE  /\ w.new \in Token
                      /\ ~Fresh(w.new)'
                      /\ ~IsRow(w.new)'
                      /\ w.pc = "save" => issued'[w.new].origin = issued'[w.token].origin
    BY DEF NewFits
  <2>1. NewFits(w)
    BY DEF Fits
  <2>2. w.pc = "save" => w.token \in Token /\ ~Fresh(w.token)
    BY <1>1 DEF Fits, RefreshFits, IssuedOK, Live
  <2> QED
    BY <1>3, <2>1, <2>2 DEF NewFits, IsRow, Adding, Added, Unsaved
<1>7. FirstFits(w)'
  <2> SUFFICES ASSUME First(w)
               PROVE  /\ issued'[w.new].origin = w.new
                      /\ \A u \in Token \ {w.new} :
                            ~Fresh(u)' => issued'[u].origin # w.new
    BY DEF FirstFits
  <2>1. FirstFits(w) /\ w.new \in Token /\ ~Fresh(w.new)
    BY DEF Fits, NewFits, First, Unsaved
  <2> QED
    BY <2>1 DEF FirstFits
<1>8. ForeignFits(w)'
  <2> SUFFICES ASSUME w.pc \in {"insert", "commit"}
               PROVE  /\ w.token \in Token
                      /\ ~Fresh(w.token)'
                      /\ \/ issued'[w.token].origin = NoToken
                         \/ w.pc = "insert" /\ (IsRow(w.token)' \/ Over(w.token)')
                      /\ w.pc = "commit" => ~IsRow(w.token)'
    BY DEF ForeignFits
  <2>1. ForeignFits(w) /\ w.token \in Token /\ ~Fresh(w.token)
    BY DEF Fits, ForeignFits
  <2>2. issued'[w.token] = issued[w.token] /\ issued[w.token] \in Issue
    BY <1>2, <2>1
  <2>3. Over(w.token) => Over(w.token)'
    BY <1>2, <2>2 DEF Over, Issue
  <2> QED
    BY <1>3, <2>1, <2>2, <2>3 DEF ForeignFits, IsRow, Adding, Added
<1>9. ExchangeFits(w)'
  BY DEF Fits, ExchangeFits
<1> QED
  BY <1>4, <1>5, <1>6, <1>7, <1>8, <1>9 DEF Fits

\* Time does not run backwards, issued tokens stay as they are, and only rows whose
\* life is over are deleted.
Monotone ==
    /\ now' \in Nat /\ now' >= now
    /\ \A t \in Token : ~Fresh(t) => issued'[t] = issued[t]
    /\ \A t \in Token : IsRow(t) => IsRow(t)' \/ Over(t)

\* A step that leaves to the session with task w what is its own.
Undisturbed(w) ==
    /\ First(w) => \A t \in Token : Fresh(t) /\ ~Fresh(t)' => issued'[t].origin # w.new
    /\ \A t \in w.held : row'[t] = row[t]
    /\ Adding(w) => row'[Added(w)] = row[Added(w)]

\* Nothing is asked of an idle session, and it is in nobody's way.
LEMMA IdleLemma ==
    /\ Idle \in Task
    /\ Fits(Idle)
    /\ \A w : Apart(Idle, w)
  BY DEF Idle, Task, TaskPc, Fits, HeldFit, RefreshFits, NewFits, FirstFits, ForeignFits,
         ExchangeFits, Unsaved, First, Apart, Adding

\* The tasks go on fitting when the session s moves on to v.
LEMMA MoveLemma ==
    ASSUME IInv, NEW s \in Session, NEW v \in Task,
           task' = [task EXCEPT ![s] = v],
           Monotone,
           \A r \in Session \ {s} : Undisturbed(task[r]) /\ Apart(v, task[r]),
           Fits(v)'
    PROVE  TasksFit' /\ TasksApart'
<1>1. task \in [Session -> Task]
  BY DEF IInv, TypeOK
<1>2. \A r \in Session : task'[r] = IF r = s THEN v ELSE task[r]
  BY <1>1
<1>3. TasksFit'
  <2> SUFFICES ASSUME NEW r \in Session PROVE Fits(task[r])'
    BY DEF TasksFit
  <2>1. CASE r = s
    BY <1>2, <2>1, CarryLemma
  <2>2. CASE r # s
    <3>1. PICK w \in Task : w = task[r]
      BY <1>1
    <3>2. Fits(w)'
      BY <2>2, <3>1, FitsLemma DEF IInv, TasksFit, Monotone, Undisturbed
    <3> QED
      BY <1>2, <2>2, <3>1, <3>2, CarryLemma
  <2> QED
    BY <2>1, <2>2
<1>4. TasksApart'
  BY <1>2 DEF IInv, TasksApart, Apart, Adding, Added, Unsaved
<1> QED
  BY <1>3, <1>4

\* A token that is going to be added is issued and has no row yet; the user brought it
\* just in case a validation is going to commit.
LEMMA AddedLemma ==
    ASSUME IInv, NEW r \in Session, Adding(task[r])
    PROVE  /\ Added(task[r]) \in Token
           /\ ~Fresh(Added(task[r])) /\ ~IsRow(Added(task[r]))
           /\ issued[Added(task[r])].origin = NoToken <=> task[r].pc = "commit"
<1>1. Fits(task[r])
  BY DEF IInv, TasksFit
<1>2. CASE task[r].pc = "commit"
  BY <1>1, <1>2 DEF Fits, ForeignFits, Added
<1>3. CASE task[r].pc # "commit" /\ Unsaved(task[r])
  <2>1. Added(task[r]) = task[r].new
    BY <1>3 DEF Added
  <2>2. First(task[r]) => issued[task[r].new].origin \in Token
    BY <1>1, <1>3 DEF Fits, FirstFits, NewFits
  <2>3. task[r].pc = "save" => issued[task[r].new].origin \in Token
    BY <1>1, <1>3 DEF Fits, NewFits, RefreshFits, StartedIn
  <2> QED
    BY <1>1, <1>3, <2>1, <2>2, <2>3, NamesAssumption DEF Fits, NewFits, Unsaved, First
<1> QED
  BY <1>2, <1>3 DEF Adding

\* They do when no session moves.
LEMMA StayLemma ==
    ASSUME IInv, task' = task, Monotone, \A r \in Session : Undisturbed(task[r])
    PROVE  TasksFit' /\ TasksApart'
<1>1. ASSUME NEW r \in Session PROVE Fits(task[r])'
  <2>1. PICK w \in Task : w = task[r]
    BY DEF IInv, TypeOK
  <2>2. Fits(w)'
    BY <2>1, FitsLemma DEF IInv, TasksFit, Monotone, Undisturbed
  <2> QED
    BY <2>1, <2>2, CarryLemma
<1>2. TasksApart'
  BY DEF IInv, TasksApart, Apart, Adding, Added, Unsaved
<1> QED
  BY <1>1, <1>2 DEF TasksFit

\* A session moves on to v, and the table and the tokens stay.
LEMMA QuietLemma ==
    ASSUME IInv, NEW s \in Session, NEW v \in Task,
           task' = [task EXCEPT ![s] = v],
           Fits(v), \A r \in Session \ {s} : Apart(v, task[r]),
           UNCHANGED <<now, issued, row>>,
           unspent' \in SUBSET Token, cached' \in SUBSET Token, faults' \in 0 .. MaxFaults
    PROVE  IInv'
<1>1. TypeOK'
  BY DEF IInv, TypeOK
<1>2. IssuedOK' /\ LiveRows' /\ OneLiveEnd'
  BY DEF IInv, IssuedOK, LiveRows, Live, IsRow, Fresh, StartedIn, OneLiveEnd
<1>3. Monotone /\ \A w : Undisturbed(w)
  BY TypesLemma DEF IInv, Monotone, Undisturbed, Fresh, IsRow
<1>4. Fits(v)'
  BY <1>3, FitsLemma DEF IInv, Monotone, Undisturbed
<1>5. TasksFit' /\ TasksApart'
  BY <1>3, <1>4, MoveLemma
<1> QED
  BY <1>1, <1>2, <1>5 DEF IInv

\* A request ends, and the table and the tokens stay.
LEMMA EndLemma ==
    ASSUME IInv, NEW s \in Session, End(s),
           UNCHANGED <<now, issued, row>>,
           unspent' \in SUBSET Token, cached' \in SUBSET Token, faults' \in 0 .. MaxFaults
    PROVE  IInv'
  BY IdleLemma, QuietLemma DEF End

\* No session moves, and the table and the tokens stay.
LEMMA StillLemma ==
    ASSUME IInv, UNCHANGED <<now, issued, row, task>>,
           unspent' \in SUBSET Token, cached' \in SUBSET Token, faults' \in 0 .. MaxFaults
    PROVE  IInv'
  BY DEF IInv, TypeOK, IssuedOK, LiveRows, Live, IsRow, Fresh, Over, StartedIn, OneLiveEnd,
         TasksFit, TasksApart, Fits, HeldFit, RefreshFits, NewFits, FirstFits, ForeignFits,
         ExchangeFits, Apart

--------------------------------------------------------------------------------
(* The steps that leave the table and the issued tokens as they are.       *)

\* Validations that insert nothing, and what the cache forgets.
LEMMA ValidationLemma ==
    ASSUME IInv, NEW t \in Token,
           \/ \E s \in Session : \/ ValidateCached(s, t)
                                 \/ ValidateKnown(s, t)
                                 \/ ValidateRefused(s, t)
           \/ Evict(t)
    PROVE  IInv'
<1>1. UNCHANGED <<now, issued, row, task, unspent, faults>> /\ cached' \in SUBSET Token
  BY DEF IInv, TypeOK, ValidateCached, ValidateKnown, ValidateRefused, Evict, vars
<1>2. unspent \in SUBSET Token /\ faults \in 0 .. MaxFaults
  BY DEF IInv, TypeOK
<1> QED
  BY <1>1, <1>2, StillLemma

\* Requests that end without a write, whatever the reason.
LEMMA ReplyLemma ==
    ASSUME IInv, NEW s \in Session,
           \/ RefreshTooLate(s)
           \/ RefreshRefused(s)
           \/ ExchangeRefused(s)
           \/ ReplyNone(s)
    PROVE  IInv'
<1>1. UNCHANGED <<now, issued, row, cached>> /\ End(s)
  BY DEF RefreshTooLate, RefreshRefused, ExchangeRefused, ReplyNone, Fails
<1>2. unspent' \in SUBSET Token /\ faults' \in 0 .. MaxFaults
  BY FaultAssumption DEF IInv, TypeOK, RefreshTooLate, RefreshRefused, ExchangeRefused,
       ReplyNone, Fails
<1>3. cached \in SUBSET Token
  BY DEF IInv, TypeOK
<1> QED
  BY <1>1, <1>2, <1>3, EndLemma

\* A commit that fails undoes everything but what is at the identity provider.
LEMMA FailsLemma ==
    ASSUME IInv, NEW s \in Session, Fails(s),
           UNCHANGED <<now, issued, row, unspent, cached>>
    PROVE  IInv'
<1>1. faults' \in 0 .. MaxFaults
  BY FaultAssumption DEF IInv, TypeOK, Fails
<1>2. unspent \in SUBSET Token /\ cached \in SUBSET Token
  BY DEF IInv, TypeOK
<1> QED
  BY <1>1, <1>2, EndLemma DEF Fails

\* A session that takes up a foreign JWT has not locked anything.
LEMMA ForeignLemma ==
    ASSUME IInv, NEW s \in Session, NEW t \in Token, ValidateForeign(s, t)
    PROVE  IInv'
<1>1. PICK v : v = [Idle EXCEPT !.pc = "insert", !.token = t]
  OBVIOUS
<1>2. /\ v \in Task
      /\ v.pc = "insert" /\ v.token = t /\ v.held = {}
  BY <1>1 DEF Idle, Task, TaskPc
<1>3. ~Fresh(t) /\ (issued[t].origin = NoToken \/ IsRow(t))
  BY DEF ValidateForeign, Presented
<1>4. Fits(v)
  BY <1>2, <1>3 DEF Fits, HeldFit, RefreshFits, NewFits, FirstFits, ForeignFits, ExchangeFits,
       Unsaved, First
<1>5. \A r \in Session \ {s} : Apart(v, task[r])
  BY <1>2 DEF Apart, Adding, Unsaved
<1>6. task' = [task EXCEPT ![s] = v]
  BY <1>1 DEF ValidateForeign, Begin
<1>7. UNCHANGED <<now, issued, row, unspent, cached, faults>>
  BY DEF ValidateForeign
<1>8. unspent \in SUBSET Token /\ cached \in SUBSET Token /\ faults \in 0 .. MaxFaults
  BY DEF IInv, TypeOK
<1> QED
  BY <1>2, <1>4, <1>5, <1>6, <1>7, <1>8, QuietLemma

\* Only a token Rucio did not get itself reaches the commit of a validation: others have
\* had a row, and it went when their life was over.
LEMMA InsertLemma ==
    ASSUME IInv, NEW s \in Session, InsertAndCache(s)
    PROVE  IInv'
<1> DEFINE t == task[s].token
<1>1. task \in [Session -> Task] /\ t \in Token /\ ~Fresh(t)
  BY DEF IInv, TypeOK, TasksFit, Fits, ForeignFits, InsertAndCache
<1>2. /\ UNCHANGED <<now, issued, row, unspent, faults>>
      /\ cached' \in SUBSET Token
      /\ unspent \in SUBSET Token /\ faults \in 0 .. MaxFaults
  BY <1>1 DEF IInv, TypeOK, InsertAndCache
<1>3. CASE End(s)
  BY <1>2, <1>3, EndLemma
<1>4. CASE ~IsRow(t) /\ ~Over(t) /\ task' = [task EXCEPT ![s].pc = "commit"]
  <2>1. PICK v : v = [task[s] EXCEPT !.pc = "commit"]
    OBVIOUS
  <2>2. /\ v \in Task
        /\ v.pc = "commit" /\ v.token = t /\ v.held = task[s].held /\ v.new = task[s].new
    BY <1>1, <2>1 DEF Task, TaskPc
  <2>3. issued[t].origin = NoToken /\ HeldFit(task[s])
    BY <1>4 DEF IInv, TasksFit, Fits, ForeignFits, InsertAndCache
  <2>4. Fits(v)
    BY <1>1, <1>4, <2>2, <2>3 DEF Fits, HeldFit, RefreshFits, NewFits, FirstFits,
         ForeignFits, ExchangeFits, Unsaved, First
  <2>5. ASSUME NEW r \in Session \ {s} PROVE Apart(v, task[r])
    <3>1. v.held \cap task[r].held = {}
      BY <2>2 DEF IInv, TasksApart, Apart
    <3>2. Adding(task[r]) => Added(task[r]) # t
      BY <2>3, AddedLemma DEF InsertAndCache, Pending, Added
    <3> QED
      BY <2>2, <3>1, <3>2 DEF Apart, Added
  <2>6. task' = [task EXCEPT ![s] = v]
    BY <1>1, <1>4, <2>1
  <2> QED
    BY <1>2, <2>2, <2>4, <2>5, <2>6, QuietLemma
<1> QED
  BY <1>3, <1>4 DEF InsertAndCache

\* SKIP LOCKED returns rows that no session has locked.
LEMMA SkipLockedLemma ==
    ASSUME NEW T, NEW t \in SkipLocked(T)
    PROVE  t \in T /\ \A r \in Session : t \notin task[r].held
  BY DEF SkipLocked, Locked

\* The start of a chain of refreshes lies in the life of the token it began with.
LEMMA FirstRefreshLemma ==
    ASSUME IInv, NEW t \in Token, Live(t), Unexpired(t)
    PROVE  /\ FirstRefresh(t) \in Nat
           /\ StartedIn(FirstRefresh(t), issued[t].origin)
<1>1. row[t] \in Row /\ now \in Nat /\ ~Fresh(t)
  BY TypesLemma DEF IInv, Live, IssuedOK
<1>2. row[t].start \in Nat \cup {NoTime}
  BY <1>1 DEF Row
<1>3. LiveRows
  BY DEF IInv
<1> QED
  BY <1>1, <1>2, <1>3 DEF FirstRefresh, LiveRows, StartedIn, Unexpired

\* A refresh locks the live row it is about.
LEMMA BeginRefreshLemma ==
    ASSUME IInv, NEW s \in Session, NEW t \in Token, BeginRefresh(s, t)
    PROVE  IInv'
<1>1. PICK v : v = [Idle EXCEPT !.pc = IF now - FirstRefresh(t) > ChainLifetime
                                       THEN "stop" ELSE "refresh",
                                !.token = t, !.start = FirstRefresh(t), !.held = {t}]
  OBVIOUS
<1>2. Live(t) /\ Unexpired(t) /\ \A r \in Session : t \notin task[r].held
  BY SkipLockedLemma DEF BeginRefresh, Live, Readable
<1>3. FirstRefresh(t) \in Nat /\ StartedIn(FirstRefresh(t), issued[t].origin)
  BY <1>2, FirstRefreshLemma
<1>4. /\ v \in Task
      /\ v.pc \in {"refresh", "stop"} /\ v.token = t /\ v.held = {t}
      /\ v.start = FirstRefresh(t)
  BY <1>1, <1>3 DEF Idle, Task, TaskPc
<1>5. Fits(v)
  BY <1>2, <1>3, <1>4 DEF Fits, HeldFit, RefreshFits, NewFits, FirstFits, ForeignFits,
       ExchangeFits, Unsaved, First, Live
<1>6. \A r \in Session \ {s} : Apart(v, task[r])
  BY <1>2, <1>4 DEF Apart, Adding, Unsaved
<1>7. task' = [task EXCEPT ![s] = v]
  BY <1>1 DEF BeginRefresh, Begin
<1>8. UNCHANGED <<now, issued, row, unspent, cached, faults>>
  BY DEF BeginRefresh
<1>9. unspent \in SUBSET Token /\ cached \in SUBSET Token /\ faults \in 0 .. MaxFaults
  BY DEF IInv, TypeOK
<1> QED
  BY <1>4, <1>5, <1>6, <1>7, <1>8, <1>9, QuietLemma

\* An exchange locks the rows it has read.
LEMMA BeginExchangeLemma ==
    ASSUME IInv, NEW s \in Session, NEW want \in Wanted, BeginExchange(s, want)
    PROVE  IInv'
<1>1. PICK t \in Subjects :
           Begin(s, [Idle EXCEPT !.pc = "exchange", !.token = t, !.want = want,
                                 !.held = Visible])
  BY DEF BeginExchange
<1>2. PICK v : v = [Idle EXCEPT !.pc = "exchange", !.token = t, !.want = want,
                                !.held = Visible]
  OBVIOUS
<1>3. \A u \in Visible : /\ u \in Token /\ IsRow(u)
                         /\ \A r \in Session : u \notin task[r].held
  BY SkipLockedLemma DEF Visible, Readable
<1>4. t \in Visible
  BY DEF Subjects
<1>5. want \subseteq Claim
  BY DEF Claim
<1>6. /\ v \in Task
      /\ v.pc = "exchange" /\ v.token = t /\ v.held = Visible
  BY <1>2, <1>3, <1>4, <1>5 DEF Idle, Task, TaskPc
<1>7. Fits(v)
  BY <1>3, <1>4, <1>6 DEF Fits, HeldFit, RefreshFits, NewFits, FirstFits, ForeignFits,
       ExchangeFits, Unsaved, First
<1>8. \A r \in Session \ {s} : Apart(v, task[r])
  BY <1>3, <1>6 DEF Apart, Adding, Unsaved
<1>9. task' = [task EXCEPT ![s] = v]
  BY <1>1, <1>2 DEF Begin
<1>10. UNCHANGED <<now, issued, row, unspent, cached, faults>>
  BY DEF BeginExchange
<1>11. unspent \in SUBSET Token /\ cached \in SUBSET Token /\ faults \in 0 .. MaxFaults
  BY DEF IInv, TypeOK
<1> QED
  BY <1>6, <1>7, <1>8, <1>9, <1>10, <1>11, QuietLemma

\* One that finds no token to begin with has locked what it has read, too.
LEMMA ImpossibleLemma ==
    ASSUME IInv, NEW s \in Session, NEW want \in Wanted, ExchangeImpossible(s, want)
    PROVE  IInv'
<1>1. PICK v : v = [Idle EXCEPT !.pc = "none", !.want = want, !.held = Visible]
  OBVIOUS
<1>2. /\ want \subseteq Claim
      /\ \A u \in Visible : /\ u \in Token /\ IsRow(u)
                            /\ \A r \in Session : u \notin task[r].held
  BY SkipLockedLemma DEF Claim, Visible, Readable
<1>3. v \in Task /\ v.pc = "none" /\ v.held = Visible
  BY <1>1, <1>2 DEF Idle, Task, TaskPc
<1>4. Fits(v) /\ \A r \in Session \ {s} : Apart(v, task[r])
  BY <1>2, <1>3 DEF Fits, HeldFit, RefreshFits, NewFits, FirstFits, ForeignFits,
       ExchangeFits, Unsaved, First, Apart, Adding
<1>5. task' = [task EXCEPT ![s] = v]
  BY <1>1 DEF ExchangeImpossible, Begin
<1>6. UNCHANGED <<now, issued, row, unspent, cached, faults>>
  BY DEF ExchangeImpossible
<1>7. unspent \in SUBSET Token /\ cached \in SUBSET Token /\ faults \in 0 .. MaxFaults
  BY DEF IInv, TypeOK
<1> QED
  BY <1>3, <1>4, <1>5, <1>6, <1>7, QuietLemma

--------------------------------------------------------------------------------
(* The steps that issue a token.                                           *)

\* A fresh token is issued with i.
Issues(new, i) ==
    /\ Fresh(new)
    /\ i \in Issue /\ i.exp >= Lifetime
    /\ i.origin \in {NoToken, new} \/ ~Fresh(i.origin)
    /\ issued' = [issued EXCEPT ![new] = i]

\* Now that it is issued, the table is as before, and so are the tokens in it.
LEMMA IssueLemma ==
    ASSUME IInv, NEW new \in Token, NEW i, Issues(new, i), UNCHANGED <<now, row>>
    PROVE  /\ issued' \in [Token -> Issue \cup {NoIssue}]
           /\ issued'[new] = i /\ ~Fresh(new)' /\ ~IsRow(new)
           /\ \A t \in Token \ {new} : issued'[t] = issued[t]
           /\ IssuedOK' /\ LiveRows' /\ OneLiveEnd' /\ Monotone
<1>1. issued \in [Token -> Issue \cup {NoIssue}] /\ now \in Nat
  BY TypesLemma DEF IInv, TypeOK
<1>2. i \in Issue /\ i # NoIssue
  BY NamesAssumption DEF Issues
<1>3. /\ issued' \in [Token -> Issue \cup {NoIssue}]
      /\ issued'[new] = i
      /\ \A t \in Token \ {new} : issued'[t] = issued[t]
  BY <1>1, <1>2 DEF Issues
<1>4. ~Fresh(new)' /\ ~IsRow(new)
  BY <1>2, <1>3 DEF IInv, IssuedOK, Issues, Fresh
<1>5. \A t \in Token : ~Fresh(t) => ~Fresh(t)' /\ issued'[t] = issued[t]
  BY <1>3, <1>4 DEF Issues, Fresh
<1>6. Monotone
  BY <1>1, <1>5 DEF Monotone, IsRow
<1>7. IssuedOK'
  <2> SUFFICES ASSUME NEW t \in Token
               PROVE  /\ IsRow(t)' => ~Fresh(t)'
                      /\ ~Fresh(t)' =>
                            /\ issued'[t].exp >= Lifetime
                            /\ issued'[t].origin # NoToken => ~Fresh(issued[t].origin)'
    BY DEF IssuedOK
  <2>1. IssuedOK
    BY DEF IInv
  <2>2. CASE t = new
    <3>1. i.origin \in Token \cup {NoToken}
      BY <1>2 DEF Issue
    <3> QED
      BY <1>3, <1>4, <1>5, <2>2, <3>1 DEF Issues
  <2>3. CASE t # new
    <3>1. issued'[t] = issued[t] /\ (Fresh(t)' <=> Fresh(t)) /\ (IsRow(t)' <=> IsRow(t))
      BY <1>3, <2>3 DEF Fresh, IsRow
    <3>2. ~Fresh(t) => issued[t].origin \in Token \cup {NoToken}
      BY <1>1 DEF Fresh, Issue
    <3> QED
      BY <1>5, <2>1, <3>1, <3>2 DEF IssuedOK
  <2> QED
    BY <2>2, <2>3
<1>8. \A t \in Token : Live(t)' => Live(t) /\ issued'[t] = issued[t]
  BY <1>3, <1>4 DEF Live, IsRow
<1>9. LiveRows'
  BY <1>5, <1>8 DEF IInv, LiveRows, StartedIn
<1>10. OneLiveEnd'
  BY <1>8 DEF IInv, OneLiveEnd, Live, IsRow
<1> QED
  BY <1>3, <1>4, <1>6, <1>7, <1>9, <1>10

\* What the IdP issues is as Issues demands.
LEMMA NewIssueLemma ==
    ASSUME IInv, NEW claims \in SUBSET Claim, NEW origin \in Token \cup {NoToken}
    PROVE  /\ NewIssue(claims, origin) \in Issue
           /\ NewIssue(claims, origin).exp >= Lifetime
           /\ NewIssue(claims, origin).origin = origin
  BY TypesLemma, TimeAssumption DEF IInv, NewIssue, Issue

\* A token is issued to the session s, which moves on to v.
LEMMA IssueToLemma ==
    ASSUME IInv, NEW s \in Session, NEW new \in Token, NEW i, NEW v \in Task,
           Issues(new, i), UNCHANGED <<now, row, cached, faults>>,
           unspent' \in SUBSET Token,
           task' = [task EXCEPT ![s] = v],
           v.pc # "commit", v.new = new, v.held \subseteq task[s].held,
           \A r \in Session : First(task[r]) => i.origin # task[r].new,
           Fits(v)'
    PROVE  IInv'
<1>1. /\ issued' \in [Token -> Issue \cup {NoIssue}]
      /\ issued'[new] = i
      /\ \A t \in Token \ {new} : issued'[t] = issued[t]
      /\ IssuedOK' /\ LiveRows' /\ OneLiveEnd' /\ Monotone
  BY IssueLemma
<1>2. TypeOK'
  BY <1>1 DEF IInv, TypeOK
<1>3. ASSUME NEW r \in Session \ {s} PROVE Undisturbed(task[r]) /\ Apart(v, task[r])
  <2>1. Undisturbed(task[r])
    BY <1>1 DEF Undisturbed, Fresh
  <2>2. v.held \cap task[r].held = {}
    BY DEF IInv, TasksApart, Apart
  <2>3. Adding(task[r]) => Added(task[r]) # new
    BY AddedLemma DEF Issues
  <2>4. Added(v) = new
    BY DEF Added
  <2> QED
    BY <2>1, <2>2, <2>3, <2>4 DEF Apart
<1>4. TasksFit' /\ TasksApart'
  BY <1>1, <1>3, MoveLemma
<1> QED
  BY <1>1, <1>2, <1>4 DEF IInv

\* No chain begins with a token that is not issued: the one a session has got.
LEMMA FreshOriginLemma ==
    ASSUME IInv, NEW new \in Token, Fresh(new), NEW r \in Session, First(task[r])
    PROVE  new # task[r].new /\ NoToken # task[r].new
  BY NamesAssumption DEF IInv, TasksFit, Fits, NewFits, First, Unsaved

\* The user's code is redeemed for a token that begins a chain.
LEMMA RedeemLemma ==
    ASSUME IInv, NEW s \in Session, NEW new \in Token, RedeemCode(s, new)
    PROVE  IInv'
<1>1. PICK granted \in BOOLEAN :
           /\ issued' = [issued EXCEPT ![new] = NewIssue(
                            Expected \cup IF granted THEN {Offline} ELSE {}, new)]
           /\ unspent' = IF granted THEN unspent \cup {new} ELSE unspent
  BY DEF RedeemCode
<1>2. PICK i : i = NewIssue(Expected \cup IF granted THEN {Offline} ELSE {}, new)
  OBVIOUS
<1>3. i \in Issue /\ i.exp >= Lifetime /\ i.origin = new
  <2>1. Expected \cup (IF granted THEN {Offline} ELSE {}) \in SUBSET Claim
    BY DEF Claim
  <2> QED
    BY <1>2, <2>1, NewIssueLemma
<1>4. Fresh(new) /\ UNCHANGED <<now, row, cached, faults>>
  BY DEF RedeemCode
<1>5. Issues(new, i)
  BY <1>1, <1>2, <1>3, <1>4 DEF Issues
<1>6. PICK v : v = [Idle EXCEPT !.pc = "login", !.new = new]
  OBVIOUS
<1>7. v \in Task /\ v.pc = "login" /\ v.new = new /\ v.held = {}
  BY <1>6 DEF Idle, Task, TaskPc
<1>8. task' = [task EXCEPT ![s] = v]
  BY <1>6 DEF RedeemCode, Begin
<1>9. unspent' \in SUBSET Token
  BY <1>1 DEF IInv, TypeOK
<1>10. /\ issued'[new] = i /\ ~Fresh(new)' /\ ~IsRow(new)
       /\ \A t \in Token \ {new} : issued'[t] = issued[t]
  BY <1>4, <1>5, IssueLemma
<1>11. \A u \in Token \ {new} : ~Fresh(u)' => issued'[u].origin # new
  BY <1>4, <1>10, NamesAssumption DEF IInv, IssuedOK, Fresh
<1>12. Fits(v)'
  BY <1>3, <1>4, <1>7, <1>10, <1>11 DEF Fits, HeldFit, RefreshFits, NewFits, FirstFits,
       ForeignFits, ExchangeFits, Unsaved, First, IsRow
<1>13. \A r \in Session : First(task[r]) => i.origin # task[r].new
  BY <1>3, <1>4, FreshOriginLemma
<1> QED
  BY <1>4, <1>5, <1>7, <1>8, <1>9, <1>12, <1>13, IssueToLemma

\* A token is refreshed: the new one goes on with its chain.
LEMMA AskRefreshLemma ==
    ASSUME IInv, NEW s \in Session, NEW new \in Token, AskRefresh(s, new)
    PROVE  IInv'
<1>1. PICK t : t = task[s].token
  OBVIOUS
<1>2. task \in [Session -> Task] /\ task[s] \in Task /\ Fits(task[s])
  BY DEF IInv, TypeOK, TasksFit
<1>3. task[s].pc = "refresh" /\ Fresh(new) /\ UNCHANGED <<now, row, cached, faults>>
  BY DEF AskRefresh
<1>4. /\ t \in task[s].held /\ t \in Token /\ Live(t)
      /\ StartedIn(task[s].start, issued[t].origin)
  BY <1>1, <1>2, <1>3 DEF Fits, RefreshFits, Task
<1>5. ~Fresh(t) /\ issued[t] \in Issue /\ t # new
  BY <1>3, <1>4, TypesLemma DEF IInv, IssuedOK, Live
<1>6. issued[t].origin \in Token /\ ~Fresh(issued[t].origin)
  BY <1>4 DEF StartedIn
<1>7. PICK i : i = NewIssue(issued[t].claims, issued[t].origin)
  OBVIOUS
<1>8. i \in Issue /\ i.exp >= Lifetime /\ i.origin = issued[t].origin
  BY <1>5, <1>6, <1>7, NewIssueLemma DEF Issue
<1>9. Issues(new, i)
  BY <1>1, <1>3, <1>6, <1>7, <1>8 DEF Issues, AskRefresh
<1>10. PICK v : v = [task[s] EXCEPT !.pc = "save", !.new = new]
  OBVIOUS
<1>11. /\ v \in Task
       /\ v.pc = "save" /\ v.new = new /\ v.token = t
       /\ v.held = task[s].held /\ v.start = task[s].start
  BY <1>1, <1>2, <1>10 DEF Task, TaskPc
<1>12. task' = [task EXCEPT ![s] = v]
  BY <1>2, <1>10 DEF AskRefresh
<1>13. unspent' \in SUBSET Token
  BY DEF IInv, TypeOK, AskRefresh
<1>14. /\ issued'[new] = i /\ ~Fresh(new)' /\ ~IsRow(new)
       /\ \A u \in Token \ {new} : issued'[u] = issued[u]
  BY <1>3, <1>9, IssueLemma
<1>15. Fits(v)'
  <2>1. HeldFit(v)'
    BY <1>2, <1>3, <1>11 DEF Fits, HeldFit, IsRow
  <2>2. RefreshFits(v)'
    <3>1. Live(t)'
      BY <1>3, <1>4 DEF Live, IsRow
    <3>2. issued'[t] = issued[t]
      BY <1>4, <1>5, <1>14
    <3>3. issued[t].origin # new
      BY <1>3, <1>6
    <3>4. StartedIn(v.start, issued[v.token].origin)'
      BY <1>4, <1>6, <1>11, <1>14, <3>2, <3>3 DEF StartedIn, Fresh
    <3> QED
      BY <1>4, <1>11, <3>1, <3>4 DEF RefreshFits
  <2>3. NewFits(v)'
    BY <1>3, <1>4, <1>5, <1>8, <1>11, <1>14 DEF NewFits, IsRow
  <2>4. FirstFits(v)' /\ ForeignFits(v)' /\ ExchangeFits(v)'
    BY <1>11 DEF FirstFits, ForeignFits, ExchangeFits, First
  <2> QED
    BY <2>1, <2>2, <2>3, <2>4 DEF Fits
<1>16. ASSUME NEW r \in Session, First(task[r]) PROVE i.origin # task[r].new
  <2>1. FirstFits(task[r]) /\ ~IsRow(task[r].new)
    BY <1>16 DEF IInv, TasksFit, Fits, NewFits, First, Unsaved
  <2> QED
    BY <1>4, <1>5, <1>8, <1>16, <2>1 DEF FirstFits, Live
<1> QED
  BY <1>3, <1>9, <1>11, <1>12, <1>13, <1>15, <1>16, IssueToLemma

\* An exchange gives a token that begins a chain, if it can be refreshed at all.
LEMMA AskExchangeLemma ==
    ASSUME IInv, NEW s \in Session, NEW new \in Token, AskExchange(s, new)
    PROVE  IInv'
<1>1. PICK granted \in BOOLEAN :
           /\ issued' = [issued EXCEPT ![new] = NewIssue(
                            task[s].want \cup IF granted THEN {Offline} ELSE {}, new)]
           /\ unspent' = IF granted THEN unspent \cup {new} ELSE unspent
  BY DEF AskExchange
<1>2. task \in [Session -> Task] /\ task[s] \in Task /\ Fits(task[s])
  BY DEF IInv, TypeOK, TasksFit
<1>3. PICK i : i = NewIssue(task[s].want \cup IF granted THEN {Offline} ELSE {}, new)
  OBVIOUS
<1>4. i \in Issue /\ i.exp >= Lifetime /\ i.origin = new
  <2>1. task[s].want \cup (IF granted THEN {Offline} ELSE {}) \in SUBSET Claim
    BY <1>2 DEF Task, Claim
  <2> QED
    BY <1>3, <2>1, NewIssueLemma
<1>5. Fresh(new) /\ UNCHANGED <<now, row, cached, faults>>
  BY DEF AskExchange
<1>6. Issues(new, i)
  BY <1>1, <1>3, <1>4, <1>5 DEF Issues
<1>7. PICK v : v = [task[s] EXCEPT !.pc = "saveExchanged", !.new = new]
  OBVIOUS
<1>8. v \in Task /\ v.pc = "saveExchanged" /\ v.new = new /\ v.held = task[s].held
  BY <1>2, <1>7 DEF Task, TaskPc
<1>9. task' = [task EXCEPT ![s] = v]
  BY <1>2, <1>7 DEF AskExchange
<1>10. unspent' \in SUBSET Token
  BY <1>1 DEF IInv, TypeOK
<1>11. /\ issued'[new] = i /\ ~Fresh(new)' /\ ~IsRow(new)
       /\ \A t \in Token \ {new} : issued'[t] = issued[t]
  BY <1>5, <1>6, IssueLemma
<1>12. \A u \in Token \ {new} : ~Fresh(u)' => issued'[u].origin # new
  BY <1>5, <1>11, NamesAssumption DEF IInv, IssuedOK, Fresh
<1>13. Fits(v)'
  BY <1>2, <1>4, <1>5, <1>8, <1>11, <1>12 DEF Fits, HeldFit, RefreshFits, NewFits,
       FirstFits, ForeignFits, ExchangeFits, Unsaved, First, IsRow
<1>14. \A r \in Session : First(task[r]) => i.origin # task[r].new
  BY <1>4, <1>5, FreshOriginLemma
<1> QED
  BY <1>5, <1>6, <1>8, <1>9, <1>10, <1>13, <1>14, IssueToLemma

\* A token the user gets elsewhere begins no chain.
LEMMA IssueElsewhereLemma ==
    ASSUME IInv, NEW new \in Token, IssueElsewhere(new)
    PROVE  IInv'
<1>1. PICK claims \in Wanted \cup {Expected, Expected \cup {Offline}} :
           issued' = [issued EXCEPT ![new] = NewIssue(claims, NoToken)]
  BY DEF IssueElsewhere
<1>2. PICK i : i = NewIssue(claims, NoToken)
  OBVIOUS
<1>3. i \in Issue /\ i.exp >= Lifetime /\ i.origin = NoToken
  <2>1. claims \in SUBSET Claim
    BY DEF Claim
  <2> QED
    BY <1>2, <2>1, NewIssueLemma
<1>4. Fresh(new) /\ UNCHANGED <<now, row, unspent, cached, task, faults>>
  BY DEF IssueElsewhere
<1>5. Issues(new, i)
  BY <1>1, <1>2, <1>3, <1>4 DEF Issues
<1>6. /\ issued' \in [Token -> Issue \cup {NoIssue}]
      /\ issued'[new] = i
      /\ \A t \in Token \ {new} : issued'[t] = issued[t]
      /\ IssuedOK' /\ LiveRows' /\ OneLiveEnd' /\ Monotone
  BY <1>4, <1>5, IssueLemma
<1>7. TypeOK'
  BY <1>4, <1>6 DEF IInv, TypeOK
<1>8. ASSUME NEW r \in Session PROVE Undisturbed(task[r])
  <2>1. First(task[r]) => NoToken # task[r].new
    BY <1>4, FreshOriginLemma
  <2> QED
    BY <1>3, <1>4, <1>6, <2>1 DEF Undisturbed, Fresh
<1>9. TasksFit' /\ TasksApart'
  BY <1>4, <1>6, <1>8, StayLemma
<1> QED
  BY <1>6, <1>7, <1>9 DEF IInv

--------------------------------------------------------------------------------
(* The steps that write the table.                                         *)

\* Nothing but a locked row or one in its life survives a deletion for sure; what is
\* left is as it was.
LEMMA DeletionLemma ==
    ASSUME IInv, NEW new \in Token, ~IsRow(new), NEW entry \in Row, NEW check \in BOOLEAN,
           InsertAndDelete(new, entry, check)
    PROVE  /\ row' \in [Token -> Row \cup {NoRow}]
           /\ row'[new] = entry /\ IsRow(new)'
           /\ \A t \in Token \ {new} : IsRow(t)' => row'[t] = row[t]
           /\ \A t \in Token : IsRow(t) => row'[t] = row[t] \/ (~IsRow(t)' /\ Over(t))
           /\ \A r \in Session : \A t \in task[r].held : row'[t] = row[t]
<1>1. row \in [Token -> Row \cup {NoRow}] /\ entry # NoRow
  BY NamesAssumption DEF IInv, TypeOK
<1>2. \A t \in Token : row'[t] = IF t = new THEN entry
                                 ELSE IF t \in SkipLocked(ExpiredRows(check)) THEN NoRow
                                 ELSE row[t]
  BY DEF InsertAndDelete
<1>3. row' \in [Token -> Row \cup {NoRow}]
  BY <1>1 DEF InsertAndDelete
<1>4. ASSUME NEW t \in Token, IsRow(t)
      PROVE  row'[t] = row[t] \/ (~IsRow(t)' /\ Over(t))
  <2>1. t # new
    BY <1>4
  <2>2. CASE t \in SkipLocked(ExpiredRows(check))
    BY <1>2, <2>1, <2>2 DEF SkipLocked, ExpiredRows, IsRow
  <2>3. CASE t \notin SkipLocked(ExpiredRows(check))
    BY <1>2, <2>1, <2>3
  <2> QED
    BY <2>2, <2>3
<1>5. ASSUME NEW r \in Session, NEW t \in task[r].held PROVE row'[t] = row[t]
  <2>1. t \in Token /\ IsRow(t)
    BY DEF IInv, TypeOK, Task, TasksFit, Fits, HeldFit
  <2>2. t # new /\ t \notin SkipLocked(ExpiredRows(check))
    BY <2>1, SkipLockedLemma
  <2> QED
    BY <1>2, <2>1, <2>2
<1> QED
  BY <1>1, <1>2, <1>3, <1>4, <1>5 DEF IsRow

\* A login by password puts no live row into the table.
LEMMA LoginPasswordLemma ==
    ASSUME IInv, NEW s \in Session, NEW new \in Token, LoginPassword(s, new)
    PROVE  IInv'
<1>1. PICK i : i = NewIssue({}, new)
  OBVIOUS
<1>2. i \in Issue /\ i.exp >= Lifetime /\ i.origin = new
  BY <1>1, NewIssueLemma
<1>3. Fresh(new) /\ UNCHANGED <<now, unspent, cached, task, faults>>
  BY DEF LoginPassword
<1>4. ~IsRow(new) /\ now \in Nat /\ row \in [Token -> Row \cup {NoRow}]
  BY <1>3, TypesLemma DEF IInv, TypeOK, IssuedOK
<1>5. issued' = [issued EXCEPT ![new] = i] /\ issued \in [Token -> Issue \cup {NoIssue}]
  BY <1>1 DEF LoginPassword, IInv, TypeOK
<1>6. /\ issued' \in [Token -> Issue \cup {NoIssue}]
      /\ issued'[new] = i /\ i # NoIssue
      /\ \A t \in Token \ {new} : issued'[t] = issued[t]
  BY <1>2, <1>5, NamesAssumption
<1>7. \A t \in Token : ~Fresh(t) => ~Fresh(t)' /\ issued'[t] = issued[t] /\ t # new
  BY <1>3, <1>6 DEF Fresh
<1>8. PICK entry \in Row : entry = PlainRow
  BY DEF PlainRow, Row
<1>9. InsertAndDelete(new, entry, FALSE)
  BY <1>8 DEF LoginPassword
<1>10. /\ row' \in [Token -> Row \cup {NoRow}]
       /\ row'[new] = entry
       /\ \A t \in Token \ {new} : IsRow(t)' => row'[t] = row[t]
       /\ \A t \in Token : IsRow(t) => row'[t] = row[t] \/ (~IsRow(t)' /\ Over(t))
       /\ \A r \in Session : \A t \in task[r].held : row'[t] = row[t]
  BY <1>4, <1>9, DeletionLemma
<1>11. \A t \in Token : Live(t)' => Live(t) /\ row'[t] = row[t] /\ issued'[t] = issued[t]
  BY <1>6, <1>8, <1>10 DEF Live, IsRow, PlainRow
<1>12. TypeOK'
  BY <1>3, <1>6, <1>10 DEF IInv, TypeOK
<1>13. IssuedOK'
  <2> SUFFICES ASSUME NEW t \in Token
               PROVE  /\ IsRow(t)' => ~Fresh(t)'
                      /\ ~Fresh(t)' =>
                            /\ issued'[t].exp >= Lifetime
                            /\ issued'[t].origin # NoToken => ~Fresh(issued[t].origin)'
    BY DEF IssuedOK
  <2>1. CASE t = new
    BY <1>2, <1>6, <2>1 DEF Fresh
  <2>2. CASE t # new
    <3>1. issued'[t] = issued[t] /\ (Fresh(t)' <=> Fresh(t)) /\ (IsRow(t)' => IsRow(t))
      BY <1>6, <1>10, <2>2 DEF Fresh, IsRow
    <3>2. ~Fresh(t) => issued[t].origin \in Token \cup {NoToken}
      BY <1>5 DEF Fresh, Issue
    <3> QED
      BY <1>7, <3>1, <3>2 DEF IInv, IssuedOK
  <2> QED
    BY <2>1, <2>2
<1>14. LiveRows'
  BY <1>7, <1>11 DEF IInv, LiveRows, StartedIn
<1>15. OneLiveEnd'
  BY <1>11 DEF IInv, OneLiveEnd, Live
<1>16. Monotone
  BY <1>3, <1>4, <1>7, <1>10 DEF Monotone, IsRow
<1>17. ASSUME NEW r \in Session PROVE Undisturbed(task[r])
  <2>1. First(task[r]) => new # task[r].new
    BY <1>3, FreshOriginLemma
  <2>2. Adding(task[r]) => row'[Added(task[r])] = row[Added(task[r])]
    BY <1>7, <1>10, AddedLemma DEF IsRow
  <2> QED
    BY <1>2, <1>6, <1>7, <1>10, <2>1, <2>2 DEF Undisturbed, Fresh
<1>18. TasksFit' /\ TasksApart'
  BY <1>3, <1>16, <1>17, StayLemma
<1> QED
  BY <1>12, <1>13, <1>14, <1>15, <1>18 DEF IInv

\* A session commits what it has written.
LEMMA WriteLemma ==
    ASSUME IInv, NEW s \in Session, End(s),
           UNCHANGED <<now, issued, unspent, cached, faults>>,
           row' \in [Token -> Row \cup {NoRow}],
           \A t \in Token : IsRow(t)' => ~Fresh(t),
           \A t \in Token : IsRow(t) => IsRow(t)' \/ Over(t),
           \A r \in Session \ {s} : Undisturbed(task[r]),
           LiveRows', OneLiveEnd'
    PROVE  IInv'
<1>1. PICK v \in Task : v = Idle
  BY IdleLemma
<1>2. Fits(v)' /\ \A w : Apart(v, w)
  BY <1>1 DEF Idle, Fits, HeldFit, RefreshFits, NewFits, FirstFits, ForeignFits,
       ExchangeFits, Unsaved, First, Apart, Adding
<1>3. task' = [task EXCEPT ![s] = v]
  BY <1>1 DEF End
<1>4. Monotone
  BY TypesLemma DEF IInv, Monotone
<1>5. TypeOK'
  BY <1>3 DEF IInv, TypeOK
<1>6. IssuedOK'
  BY DEF IInv, IssuedOK, Fresh
<1>7. TasksFit' /\ TasksApart'
  BY <1>2, <1>3, <1>4, MoveLemma
<1> QED
  BY <1>5, <1>6, <1>7 DEF IInv

\* The row a session adds is not one another session has locked or is going to add.
LEMMA OwnRowLemma ==
    ASSUME IInv, NEW s \in Session, Adding(task[s]), NEW r \in Session \ {s}
    PROVE  /\ Added(task[s]) \notin task[r].held
           /\ task[r].held \subseteq Token
           /\ Adding(task[r]) => Added(task[r]) # Added(task[s])
           /\ task[s].held \cap task[r].held = {}
<1>1. Added(task[s]) \in Token /\ ~IsRow(Added(task[s]))
  BY AddedLemma
<1>2. task[r].held \subseteq Token /\ \A t \in task[r].held : IsRow(t)
  BY DEF IInv, TypeOK, Task, TasksFit, Fits, HeldFit
<1> QED
  BY <1>1, <1>2 DEF IInv, TasksApart, Apart

\* A validated token gets a row that is not live.
LEMMA CommitValidatedLemma ==
    ASSUME IInv, NEW s \in Session, CommitValidated(s)
    PROVE  IInv'
<1>1. UNCHANGED <<now, issued, unspent, cached>> /\ task[s].pc = "commit"
  BY DEF CommitValidated
<1>2. CASE Fails(s) /\ UNCHANGED row
  BY <1>1, <1>2, FailsLemma
<1>3. CASE row' = [row EXCEPT ![task[s].token] = PlainRow] /\ End(s) /\ UNCHANGED faults
  <2>1. PICK t : t = task[s].token
    OBVIOUS
  <2>2. Adding(task[s]) /\ Added(task[s]) = t
    BY <1>1, <2>1 DEF Adding, Added
  <2>3. t \in Token /\ ~Fresh(t) /\ ~IsRow(t)
    BY <2>2, AddedLemma
  <2>4. row \in [Token -> Row \cup {NoRow}] /\ PlainRow \in Row /\ ~PlainRow.refresh
    BY DEF IInv, TypeOK, PlainRow, Row
  <2>5. /\ row' \in [Token -> Row \cup {NoRow}]
        /\ row'[t] = PlainRow
        /\ \A u \in Token \ {t} : row'[u] = row[u]
    BY <1>3, <2>1, <2>3, <2>4
  <2>6. \A u \in Token : IsRow(u)' => ~Fresh(u)
    BY <2>3, <2>5 DEF IInv, IssuedOK, IsRow
  <2>7. \A u \in Token : IsRow(u) => IsRow(u)'
    BY <2>3, <2>5 DEF IsRow
  <2>8. \A u \in Token : Live(u)' => Live(u) /\ row'[u] = row[u]
    BY <2>3, <2>4, <2>5 DEF Live, IsRow
  <2>9. LiveRows' /\ OneLiveEnd'
    BY <1>1, <2>8 DEF IInv, LiveRows, OneLiveEnd, Live, StartedIn, Fresh
  <2>10. ASSUME NEW r \in Session \ {s} PROVE Undisturbed(task[r])
    BY <1>1, <2>2, <2>5, OwnRowLemma, AddedLemma DEF Undisturbed, Fresh
  <2> QED
    BY <1>1, <1>3, <2>5, <2>6, <2>7, <2>9, <2>10, WriteLemma
<1> QED
  BY <1>2, <1>3 DEF CommitValidated

\* The row of a token that begins a chain: no other row is in that chain.
LEMMA FirstRowLemma ==
    ASSUME IInv, NEW s \in Session, First(task[s]), UNCHANGED issued,
           row'[task[s].new] = RowOf(task[s].new),
           \A u \in Token \ {task[s].new} : IsRow(u)' => row'[u] = row[u]
    PROVE  LiveRows' /\ OneLiveEnd'
<1>1. PICK t : t = task[s].new
  OBVIOUS
<1>2. /\ t \in Token /\ ~Fresh(t)
      /\ issued[t].origin = t
      /\ \A u \in Token \ {t} : ~Fresh(u) => issued[u].origin # t
  BY <1>1 DEF IInv, TasksFit, Fits, NewFits, FirstFits, First, Unsaved
<1>3. row'[t].start = NoTime
  BY <1>1 DEF RowOf, PlainRow, RefreshableRow
<1>4. \A u \in Token \ {t} : Live(u)' => Live(u) /\ row'[u] = row[u]
  BY <1>1 DEF Live, IsRow
<1>5. LiveRows'
  BY <1>2, <1>3, <1>4 DEF IInv, LiveRows, StartedIn, Fresh
<1>6. \A u \in Token \ {t} : Live(u)' => issued[u].origin # t
  BY <1>2, <1>4 DEF IInv, IssuedOK, Live
<1>7. OneLiveEnd'
  <2> SUFFICES ASSUME NEW u \in Token, NEW w \in Token, Live(u)', Live(w)',
                      issued'[u].origin = issued'[w].origin
               PROVE  u = w
    BY DEF OneLiveEnd, Live
  <2>1. CASE u = t \/ w = t
    BY <1>2, <1>6, <2>1
  <2>2. CASE u # t /\ w # t
    BY <1>4, <2>2 DEF IInv, OneLiveEnd, Live
  <2> QED
    BY <2>1, <2>2
<1> QED
  BY <1>5, <1>7

\* A row of the table can be what RowOf says.
LEMMA RowOfLemma ==
    ASSUME IInv, NEW t \in Token, ~Fresh(t), NEW start \in Nat \cup {NoTime}
    PROVE  RefreshableRow(t, start) \in Row /\ RowOf(t) \in Row
<1>1. RefreshEnd(t) \in Nat /\ now \in Nat
  BY TypesLemma, TimeAssumption DEF IInv, IssuedOK, RefreshEnd, Issue
<1> QED
  BY <1>1 DEF RowOf, RefreshableRow, PlainRow, Row

\* An exchanged token is added to the table.
LEMMA SaveExchangedLemma ==
    ASSUME IInv, NEW s \in Session, SaveExchanged(s)
    PROVE  IInv'
<1>1. UNCHANGED <<now, issued, unspent, cached>> /\ task[s].pc = "saveExchanged"
  BY DEF SaveExchanged
<1>2. CASE Fails(s) /\ UNCHANGED row
  BY <1>1, <1>2, FailsLemma
<1>3. CASE row' = [row EXCEPT ![task[s].new] = RowOf(task[s].new)] /\ End(s) /\ UNCHANGED faults
  <2>1. PICK t : t = task[s].new
    OBVIOUS
  <2>2. Adding(task[s]) /\ Added(task[s]) = t /\ First(task[s])
    BY <1>1, <2>1 DEF Adding, Added, Unsaved, First
  <2>3. t \in Token /\ ~Fresh(t) /\ ~IsRow(t)
    BY <2>2, AddedLemma
  <2>4. row \in [Token -> Row \cup {NoRow}] /\ RowOf(t) \in Row
    BY <2>3, RowOfLemma DEF IInv, TypeOK
  <2>5. /\ row' \in [Token -> Row \cup {NoRow}]
        /\ row'[t] = RowOf(t)
        /\ \A u \in Token \ {t} : row'[u] = row[u]
    BY <1>3, <2>1, <2>3, <2>4
  <2>6. \A u \in Token : IsRow(u)' => ~Fresh(u)
    BY <2>3, <2>5 DEF IInv, IssuedOK, IsRow
  <2>7. \A u \in Token : IsRow(u) => IsRow(u)'
    BY <2>3, <2>5 DEF IsRow
  <2>8. LiveRows' /\ OneLiveEnd'
    BY <1>1, <2>1, <2>2, <2>5, FirstRowLemma
  <2>9. ASSUME NEW r \in Session \ {s} PROVE Undisturbed(task[r])
    BY <1>1, <2>2, <2>5, OwnRowLemma, AddedLemma DEF Undisturbed, Fresh
  <2> QED
    BY <1>1, <1>3, <2>5, <2>6, <2>7, <2>8, <2>9, WriteLemma
<1> QED
  BY <1>2, <1>3 DEF SaveExchanged

\* A login adds its token and deletes what has expired.
LEMMA SaveLoginLemma ==
    ASSUME IInv, NEW s \in Session, SaveLogin(s)
    PROVE  IInv'
<1>1. UNCHANGED <<now, issued, unspent, cached>> /\ task[s].pc = "login"
  BY DEF SaveLogin
<1>2. CASE Fails(s) /\ UNCHANGED row
  BY <1>1, <1>2, FailsLemma
<1>3. CASE /\ InsertAndDelete(task[s].new, RowOf(task[s].new), TRUE)
           /\ End(s) /\ UNCHANGED faults
  <2>1. PICK t : t = task[s].new
    OBVIOUS
  <2>2. Adding(task[s]) /\ Added(task[s]) = t /\ First(task[s])
    BY <1>1, <2>1 DEF Adding, Added, Unsaved, First
  <2>3. t \in Token /\ ~Fresh(t) /\ ~IsRow(t)
    BY <2>2, AddedLemma
  <2>4. PICK entry \in Row : entry = RowOf(t)
    BY <2>3, RowOfLemma
  <2>5. /\ row' \in [Token -> Row \cup {NoRow}]
        /\ row'[t] = entry /\ IsRow(t)'
        /\ \A u \in Token \ {t} : IsRow(u)' => row'[u] = row[u]
        /\ \A u \in Token : IsRow(u) => row'[u] = row[u] \/ (~IsRow(u)' /\ Over(u))
        /\ \A r \in Session : \A u \in task[r].held : row'[u] = row[u]
    <3>1. InsertAndDelete(t, entry, TRUE)
      BY <1>3, <2>1, <2>4
    <3> QED
      BY <2>3, <3>1, DeletionLemma
  <2>6. \A u \in Token : IsRow(u)' => ~Fresh(u)
    BY <2>3, <2>5 DEF IInv, IssuedOK, IsRow
  <2>7. \A u \in Token : IsRow(u) => IsRow(u)' \/ Over(u)
    BY <2>5 DEF IsRow
  <2>8. LiveRows' /\ OneLiveEnd'
    BY <1>1, <2>1, <2>2, <2>4, <2>5, FirstRowLemma
  <2>9. ASSUME NEW r \in Session \ {s} PROVE Undisturbed(task[r])
    <3>1. Adding(task[r]) => /\ Added(task[r]) \in Token \ {t}
                             /\ ~IsRow(Added(task[r]))
      BY <2>2, OwnRowLemma, AddedLemma
    <3> QED
      BY <1>1, <2>5, <3>1 DEF Undisturbed, Fresh, IsRow
  <2> QED
    BY <1>1, <1>3, <2>5, <2>6, <2>7, <2>8, <2>9, WriteLemma
<1> QED
  BY <1>2, <1>3 DEF SaveLogin

\* A refresh passes the liveness of a row on to the one that is added.
LEMMA SaveRefreshLemma ==
    ASSUME IInv, NEW s \in Session, SaveRefresh(s)
    PROVE  IInv'
<1>1. UNCHANGED <<now, issued, unspent, cached>> /\ task[s].pc = "save"
  BY DEF SaveRefresh
<1>2. CASE Fails(s) /\ UNCHANGED row
  BY <1>1, <1>2, FailsLemma
<1>3. CASE /\ row' = [row EXCEPT ![task[s].token] = Superseded(row[task[s].token]),
                                 ![task[s].new] = RefreshableRow(task[s].new, CarriedStart(s))]
           /\ End(s) /\ UNCHANGED faults
  <2>1. PICK t, new : t = task[s].token /\ new = task[s].new
    OBVIOUS
  <2>2. Adding(task[s]) /\ Added(task[s]) = new /\ Unsaved(task[s])
    BY <1>1, <2>1 DEF Adding, Added, Unsaved
  <2>3. new \in Token /\ ~Fresh(new) /\ ~IsRow(new)
    BY <2>2, AddedLemma
  <2>4. task[s] \in Task /\ Fits(task[s])
    BY DEF IInv, TypeOK, TasksFit
  <2>5. /\ t \in task[s].held /\ t \in Token /\ Live(t) /\ t # new
        /\ StartedIn(task[s].start, issued[t].origin)
    BY <1>1, <2>1, <2>3, <2>4 DEF Fits, RefreshFits, Task, Live
  <2>6. issued[new].origin = issued[t].origin /\ task[s].start \in Nat
    BY <1>1, <2>1, <2>2, <2>4 DEF Fits, NewFits, Task
  <2>7. PICK next \in Row : next = RefreshableRow(new, task[s].start)
    BY <2>3, <2>6, RowOfLemma
  <2>8. PICK old \in Row : old = Superseded(row[t])
    BY <2>5, TypesLemma DEF IInv, Live, Superseded, Row
  <2>9. next.refresh /\ next.start = task[s].start /\ ~old.refresh
    <3>1. row[t] \in Row
      BY <2>5, TypesLemma DEF IInv, Live
    <3> QED
      BY <2>7, <2>8, <3>1 DEF RefreshableRow, Superseded, Row
  <2>10. /\ row' \in [Token -> Row \cup {NoRow}]
         /\ row'[new] = next /\ row'[t] = old
         /\ \A u \in Token \ {t, new} : row'[u] = row[u]
    <3>1. row \in [Token -> Row \cup {NoRow}]
      BY DEF IInv, TypeOK
    <3>2. row' = [row EXCEPT ![t] = old, ![new] = next]
      BY <1>3, <2>1, <2>7, <2>8 DEF CarriedStart
    <3> QED
      BY <2>3, <2>5, <3>1, <3>2
  <2>11. \A u \in Token : IsRow(u)' => ~Fresh(u)
    BY <2>3, <2>5, <2>10 DEF IInv, IssuedOK, IsRow, Live
  <2>12. \A u \in Token : IsRow(u) => IsRow(u)'
    BY <2>3, <2>10, NamesAssumption DEF IsRow
  <2>13. \A u \in Token : Live(u)' => u # t /\ (u = new \/ (Live(u) /\ row'[u] = row[u]))
    BY <2>9, <2>10 DEF Live, IsRow
  <2>14. LiveRows'
    <3> SUFFICES ASSUME NEW u \in Token, Live(u)'
                 PROVE  /\ issued[u].origin \in Token
                        /\ IF row'[u].start = NoTime THEN issued[u].origin = u
                           ELSE StartedIn(row'[u].start, issued[u].origin)
      BY <1>1 DEF LiveRows, StartedIn, Fresh
    <3>1. CASE u = new
      BY <2>5, <2>6, <2>9, <2>10, <3>1 DEF StartedIn, NoTime
    <3>2. CASE u # new
      BY <2>13, <3>2 DEF IInv, LiveRows
    <3> QED
      BY <3>1, <3>2
  <2>15. OneLiveEnd'
    <3> SUFFICES ASSUME NEW u \in Token, NEW w \in Token, Live(u)', Live(w)',
                        issued'[u].origin = issued'[w].origin
                 PROVE  u = w
      BY DEF OneLiveEnd, Live
    <3>1. \A x, y \in Token : /\ Live(x) /\ Live(y)
                              /\ issued[x].origin = issued[y].origin
                              => x = y
      <4>1. OneLiveEnd
        BY DEF IInv
      <4> QED
        BY <4>1, Zenon DEF OneLiveEnd, Live
    <3>2. issued'[u] = issued[u] /\ issued'[w] = issued[w]
      BY <1>1
    <3>3. CASE u = new /\ w # new
      BY <2>5, <2>6, <2>13, <3>1, <3>2, <3>3
    <3>4. CASE u # new /\ w = new
      BY <2>5, <2>6, <2>13, <3>1, <3>2, <3>4
    <3>5. CASE u # new /\ w # new
      BY <2>13, <3>1, <3>2, <3>5
    <3> QED
      BY <3>3, <3>4, <3>5
  <2>16. ASSUME NEW r \in Session \ {s} PROVE Undisturbed(task[r])
    <3>1. /\ new \notin task[r].held /\ t \notin task[r].held
          /\ task[r].held \subseteq Token
      BY <2>2, <2>5, OwnRowLemma
    <3>2. Adding(task[r]) => Added(task[r]) \in Token \ {t, new}
      BY <2>2, <2>5, OwnRowLemma, AddedLemma DEF Live
    <3> QED
      BY <1>1, <2>10, <3>1, <3>2 DEF Undisturbed, Fresh
  <2> QED
    BY <1>1, <1>3, <2>10, <2>11, <2>12, <2>14, <2>15, <2>16, WriteLemma
<1> QED
  BY <1>2, <1>3 DEF SaveRefresh

\* Time passes.
LEMMA TickLemma ==
    ASSUME IInv, Tick
    PROVE  IInv'
<1>1. now' = now + 1 /\ now < MaxTime /\ UNCHANGED <<issued, row, unspent, cached, task, faults>>
  BY DEF Tick
<1>2. TypeOK'
  BY <1>1, TimeAssumption DEF IInv, TypeOK
<1>3. IssuedOK' /\ LiveRows' /\ OneLiveEnd'
  BY <1>1 DEF IInv, IssuedOK, LiveRows, Live, IsRow, Fresh, StartedIn, OneLiveEnd
<1>4. Monotone /\ \A w : Undisturbed(w)
  BY <1>1, TypesLemma DEF IInv, Monotone, Undisturbed, Fresh, IsRow
<1>5. TasksFit' /\ TasksApart'
  BY <1>1, <1>4, StayLemma
<1> QED
  BY <1>2, <1>3, <1>5 DEF IInv

--------------------------------------------------------------------------------
(* The invariant and the theorems.                                         *)

\* At the start there are no tokens and the sessions are idle.
LEMMA InitLemma == Init => IInv
<1> SUFFICES ASSUME Init PROVE IInv
  OBVIOUS
<1>1. \A t \in Token : Fresh(t) /\ ~IsRow(t)
  BY DEF Init, Fresh, IsRow
<1>2. \A s \in Session : task[s] = Idle
  BY DEF Init
<1>3. TypeOK
  BY IdleLemma, TimeAssumption, FaultAssumption DEF Init, TypeOK
<1>4. IssuedOK /\ LiveRows /\ OneLiveEnd
  BY <1>1 DEF IssuedOK, LiveRows, Live, OneLiveEnd
<1>5. TasksFit /\ TasksApart
  BY <1>2, IdleLemma DEF TasksFit, TasksApart
<1> QED
  BY <1>3, <1>4, <1>5 DEF IInv

\* Every step keeps the invariant.
LEMMA NextLemma == IInv /\ [Next]_vars => IInv'
<1> SUFFICES ASSUME IInv, [Next]_vars PROVE IInv'
  OBVIOUS
<1>1. ASSUME NEW s \in Session, NEW t \in Token,
             \/ ValidateCached(s, t)
             \/ ValidateKnown(s, t)
             \/ ValidateRefused(s, t)
             \/ ValidateForeign(s, t)
             \/ BeginRefresh(s, t)
      PROVE  IInv'
  BY <1>1, ValidationLemma, ForeignLemma, BeginRefreshLemma
<1>2. ASSUME NEW s \in Session, NEW t \in Token,
             \/ AskRefresh(s, t)
             \/ AskExchange(s, t)
             \/ RedeemCode(s, t)
             \/ LoginPassword(s, t)
      PROVE  IInv'
  BY <1>2, AskRefreshLemma, AskExchangeLemma, RedeemLemma, LoginPasswordLemma
<1>3. ASSUME NEW s \in Session, NEW want \in Wanted,
             ExchangeImpossible(s, want) \/ BeginExchange(s, want)
      PROVE  IInv'
  BY <1>3, ImpossibleLemma, BeginExchangeLemma
<1>4. ASSUME NEW s \in Session,
             \/ RefreshTooLate(s)
             \/ RefreshRefused(s)
             \/ ExchangeRefused(s)
             \/ ReplyNone(s)
      PROVE  IInv'
  BY <1>4, ReplyLemma
<1>5. ASSUME NEW s \in Session,
             \/ InsertAndCache(s)
             \/ CommitValidated(s)
             \/ SaveRefresh(s)
             \/ SaveExchanged(s)
             \/ SaveLogin(s)
      PROVE  IInv'
  BY <1>5, InsertLemma, CommitValidatedLemma, SaveRefreshLemma, SaveExchangedLemma,
     SaveLoginLemma
<1>6. ASSUME NEW t \in Token, IssueElsewhere(t) \/ Evict(t) PROVE IInv'
  BY <1>6, IssueElsewhereLemma, ValidationLemma
<1>7. CASE Tick
  BY <1>7, TickLemma
<1>8. CASE UNCHANGED vars
  <2>1. /\ UNCHANGED <<now, issued, row, task>>
        /\ unspent' \in SUBSET Token /\ cached' \in SUBSET Token
        /\ faults' \in 0 .. MaxFaults
    BY <1>8 DEF vars, IInv, TypeOK
  <2> QED
    BY <2>1, StillLemma
<1> QED
  BY <1>1, <1>2, <1>3, <1>4, <1>5, <1>6, <1>7, <1>8 DEF Next, SessionStep

\* The invariant holds throughout.
LEMMA Invariance == Spec => []IInv
  BY InitLemma, NextLemma, PTL DEF Spec

\* The table, the cache, the IdP's refresh tokens and every session's task keep to their
\* types, so no chain starts without a start and no refresh token expires before time 0.
THEOREM RucioTokensTypeCorrect == Spec => []TypeOK
<1>1. IInv => TypeOK
  BY DEF IInv
<1> QED
  BY <1>1, Invariance, PTL

\* However sessions interleave and fail, at most one token of a login's chain of refreshes
\* is left to be refreshed (__change_refresh_state before __save_validated_token).
THEOREM RucioTokensOneLiveEnd == Spec => []OneLiveEnd
<1>1. IInv => OneLiveEnd
  BY DEF IInv
<1> QED
  BY <1>1, Invariance, PTL

\* A session is about to ask for a refresh only after BeginRefresh.
LEMMA RefreshBeginsLemma ==
    ASSUME IInv, [Next]_vars, NEW s \in Session,
           task[s].pc # "refresh", task'[s].pc = "refresh"
    PROVE  \E t \in Token : BeginRefresh(s, t)
<1>1. task \in [Session -> Task] /\ Idle.pc # "refresh"
  BY DEF IInv, TypeOK, Idle
<1>2. ASSUME NEW r \in Session, End(r) PROVE FALSE
  BY <1>1, <1>2 DEF End
<1>3. ASSUME NEW r \in Session, NEW v \in Task, v.pc # "refresh",
             task' = [task EXCEPT ![r] = v]
      PROVE  FALSE
  BY <1>1, <1>3
<1>4. ASSUME UNCHANGED task PROVE FALSE
  BY <1>4
<1>5. ASSUME NEW r \in Session, NEW t \in Token,
             \/ ValidateCached(r, t)
             \/ ValidateKnown(r, t)
             \/ ValidateRefused(r, t)
             \/ LoginPassword(r, t)
      PROVE  FALSE
  BY <1>4, <1>5 DEF ValidateCached, ValidateKnown, ValidateRefused, LoginPassword, vars
<1>6. ASSUME NEW r \in Session, NEW t \in Token,
             \/ ValidateForeign(r, t)
             \/ AskRefresh(r, t)
             \/ AskExchange(r, t)
             \/ RedeemCode(r, t)
      PROVE  FALSE
  BY <1>1, <1>6, ZenonT(60) DEF ValidateForeign, AskRefresh, AskExchange, RedeemCode, Begin, Idle, Task
<1>7. ASSUME NEW r \in Session, NEW want \in Wanted,
             ExchangeImpossible(r, want) \/ BeginExchange(r, want)
      PROVE  FALSE
  BY <1>1, <1>7 DEF ExchangeImpossible, BeginExchange, Begin, Idle, Task
<1>8. ASSUME NEW r \in Session,
             \/ RefreshTooLate(r)
             \/ RefreshRefused(r)
             \/ ExchangeRefused(r)
             \/ ReplyNone(r)
             \/ CommitValidated(r)
             \/ SaveRefresh(r)
             \/ SaveExchanged(r)
             \/ SaveLogin(r)
      PROVE  FALSE
  BY <1>2, <1>8 DEF RefreshTooLate, RefreshRefused, ExchangeRefused, ReplyNone,
       CommitValidated, SaveRefresh, SaveExchanged, SaveLogin, Fails
<1>9. ASSUME NEW r \in Session, InsertAndCache(r) PROVE FALSE
  BY <1>1, <1>2, <1>9 DEF InsertAndCache, Task
<1>10. ASSUME NEW r \in Session, NEW t \in Token, BeginRefresh(r, t) PROVE r = s
  BY <1>1, <1>10 DEF BeginRefresh, Begin
<1>11. ASSUME \/ \E t \in Token : IssueElsewhere(t) \/ Evict(t)
              \/ Tick
              \/ UNCHANGED vars
       PROVE  FALSE
  BY <1>4, <1>11 DEF IssueElsewhere, Evict, Tick, vars
<1> QED
  BY <1>5, <1>6, <1>7, <1>8, <1>9, <1>10, <1>11 DEF Next, SessionStep

\* No refresh of a chain begins more than ChainLifetime after the life of the token the
\* chain began with: refresh_start is carried from token to token (__refresh_token_oidc).
THEOREM RucioTokensChainsEnd == Spec => ChainsEnd
<1>1. ASSUME IInv, [Next]_vars
      PROVE  \A s \in Session : task[s].pc # "refresh" /\ task'[s].pc = "refresh" =>
                now < issued[issued[task'[s].token].origin].exp + ChainLifetime
  <2> SUFFICES ASSUME NEW s \in Session, task[s].pc # "refresh", task'[s].pc = "refresh"
               PROVE  now < issued[issued[task'[s].token].origin].exp + ChainLifetime
    OBVIOUS
  <2>1. PICK t \in Token : BeginRefresh(s, t)
    BY <1>1, RefreshBeginsLemma
  <2>2. Live(t) /\ Unexpired(t)
    BY <2>1, SkipLockedLemma DEF BeginRefresh, Live, Readable
  <2>3. FirstRefresh(t) \in Nat /\ StartedIn(FirstRefresh(t), issued[t].origin)
    BY <1>1, <2>2, FirstRefreshLemma
  <2>4. task'[s].token = t /\ now - FirstRefresh(t) <= ChainLifetime
    <3>1. task \in [Session -> Task] /\ now \in Nat
      BY <1>1, TypesLemma DEF IInv, TypeOK
    <3>2. task'[s] = [Idle EXCEPT !.pc = IF now - FirstRefresh(t) > ChainLifetime
                                         THEN "stop" ELSE "refresh",
                                  !.token = t, !.start = FirstRefresh(t), !.held = {t}]
      BY <2>1, <3>1 DEF BeginRefresh, Begin
    <3>3. task'[s].token = t
      BY <3>2 DEF Idle
    <3>4. ~(now - FirstRefresh(t) > ChainLifetime)
      BY <3>2 DEF Idle
    <3> QED
      BY <2>3, <3>1, <3>3, <3>4, TimeAssumption
  <2>5. issued[issued[t].origin].exp \in Nat /\ now \in Nat
    BY <1>1, <2>3, TypesLemma DEF IInv, StartedIn, Issue
  <2> QED
    BY <2>3, <2>4, <2>5, TimeAssumption DEF StartedIn
<1> QED
  BY <1>1, Invariance, PTL DEF Spec, ChainsEnd
=============================================================================
