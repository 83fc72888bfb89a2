------------------------ MODULE RucioTokensFaultsProofs ------------------------
(***************************************************************************)
(* Proofs about RucioTokens, continued: what is lost is counted.  A chain  *)
(* of refreshes is lost only to a failure between the answer of the IdP    *)
(* and the commit, a token Rucio got is kept for its life unless a commit  *)
(* failed, and so is a cached validation one the table would confirm;      *)
(* every failure loses one of them at most.                                *)
(***************************************************************************)
EXTENDS RucioTokensProofs, FiniteSetTheorems

--------------------------------------------------------------------------------
(* Counting.                                                               *)

\* A set that grows by one element at most has at most one element more.
LEMMA GrowthLemma ==
    ASSUME NEW S, NEW T, NEW x, NEW n \in Nat,
           IsFiniteSet(S), Cardinality(S) <= n, T \subseteq S \cup {x}
    PROVE  IsFiniteSet(T) /\ Cardinality(T) <= n + 1
<1>1. /\ IsFiniteSet(S \cup {x})
      /\ Cardinality(S \cup {x}) = IF x \in S THEN Cardinality(S) ELSE Cardinality(S) + 1
  BY FS_AddElement
<1>2. IsFiniteSet(T) /\ Cardinality(T) <= Cardinality(S \cup {x})
  BY <1>1, FS_Subset
<1>3. Cardinality(S) \in Nat /\ Cardinality(T) \in Nat
  BY <1>2, FS_CardinalityType
<1> QED
  BY <1>1, <1>2, <1>3

\* A set that does not grow has no more elements.
LEMMA NoGrowthLemma ==
    ASSUME NEW S, NEW T, NEW n \in Nat,
           IsFiniteSet(S), Cardinality(S) <= n, T \subseteq S
    PROVE  IsFiniteSet(T) /\ Cardinality(T) <= n
<1>1. IsFiniteSet(T) /\ Cardinality(T) <= Cardinality(S)
  BY FS_Subset
<1>2. Cardinality(S) \in Nat /\ Cardinality(T) \in Nat
  BY <1>1, FS_CardinalityType
<1> QED
  BY <1>1, <1>2

--------------------------------------------------------------------------------
(* What a step may do to the table, the tasks and the refresh tokens.      *)

\* An action with one failure more, or none.
LEMMA FaultsLemma ==
    ASSUME IInv, [Next]_vars
    PROVE  faults' = faults \/ faults' = faults + 1
<1>1. ASSUME NEW s \in Session,
             \/ CommitValidated(s)
             \/ RefreshRefused(s)
             \/ SaveRefresh(s)
             \/ SaveExchanged(s)
             \/ SaveLogin(s)
      PROVE  faults' = faults \/ faults' = faults + 1
  BY <1>1 DEF CommitValidated, RefreshRefused, SaveRefresh, SaveExchanged, SaveLogin, Fails
<1>2. ASSUME NEW s \in Session, NEW t \in Token,
             \/ ValidateCached(s, t)
             \/ ValidateKnown(s, t)
             \/ ValidateRefused(s, t)
             \/ ValidateForeign(s, t)
             \/ BeginRefresh(s, t)
             \/ AskRefresh(s, t)
             \/ AskExchange(s, t)
             \/ RedeemCode(s, t)
             \/ LoginPassword(s, t)
      PROVE  UNCHANGED faults
  BY <1>2 DEF ValidateCached, ValidateKnown, ValidateRefused, ValidateForeign, BeginRefresh,
     AskRefresh, AskExchange, RedeemCode, LoginPassword, vars
<1>3. ASSUME \/ \E s \in Session : \/ RefreshTooLate(s)
                                   \/ ExchangeRefused(s)
                                   \/ ReplyNone(s)
                                   \/ InsertAndCache(s)
                                   \/ \E want \in Wanted : \/ ExchangeImpossible(s, want)
                                                           \/ BeginExchange(s, want)
             \/ \E t \in Token : IssueElsewhere(t) \/ Evict(t)
             \/ Tick
             \/ UNCHANGED vars
      PROVE  UNCHANGED faults
  BY <1>3 DEF RefreshTooLate, ExchangeRefused, ReplyNone, InsertAndCache, ExchangeImpossible,
     BeginExchange, IssueElsewhere, Evict, Tick, vars
<1> QED
  BY <1>1, <1>2, <1>3 DEF Next, SessionStep

\* Only the session itself ends a transaction that is going to add a token to the table.
LEMMA WritersStayLemma ==
    ASSUME IInv, [Next]_vars, NEW r \in Session, Adding(task[r])
    PROVE  \/ task'[r] = task[r]
           \/ CommitValidated(r)
           \/ SaveRefresh(r)
           \/ SaveExchanged(r)
           \/ SaveLogin(r)
<1>types. task \in [Session -> Task]
  BY DEF IInv, TypeOK
<1>1. ASSUME NEW s \in Session, NEW v, s # r, task' = [task EXCEPT ![s] = v]
      PROVE  task'[r] = task[r]
  BY <1>1, <1>types
<1>2. ASSUME NEW s \in Session, ~Adding(task[s]), \E v : task' = [task EXCEPT ![s] = v]
      PROVE  task'[r] = task[r]
  BY <1>1, <1>2
<1>3. ASSUME NEW s \in Session, NEW t \in Token,
             \/ ValidateCached(s, t)
             \/ ValidateKnown(s, t)
             \/ ValidateRefused(s, t)
             \/ LoginPassword(s, t)
      PROVE  task' = task
  BY <1>3 DEF ValidateCached, ValidateKnown, ValidateRefused, LoginPassword, vars
<1>4. ASSUME NEW s \in Session, NEW t \in Token,
             \/ ValidateForeign(s, t)
             \/ BeginRefresh(s, t)
             \/ RedeemCode(s, t)
      PROVE  task'[r] = task[r]
  BY <1>2, <1>4 DEF ValidateForeign, BeginRefresh, RedeemCode, Begin, Adding, Unsaved
<1>5. ASSUME NEW s \in Session, NEW t \in Token, AskRefresh(s, t) \/ AskExchange(s, t)
      PROVE  task'[r] = task[r]
  BY <1>types, <1>5 DEF AskRefresh, AskExchange, Adding, Unsaved
<1>6. ASSUME NEW s \in Session, NEW want \in Wanted,
             ExchangeImpossible(s, want) \/ BeginExchange(s, want)
      PROVE  task'[r] = task[r]
  BY <1>2, <1>6 DEF ExchangeImpossible, BeginExchange, Begin, Adding, Unsaved
<1>7. ASSUME NEW s \in Session,
             \/ RefreshTooLate(s)
             \/ RefreshRefused(s)
             \/ ExchangeRefused(s)
             \/ ReplyNone(s)
      PROVE  task'[r] = task[r]
  BY <1>2, <1>7 DEF RefreshTooLate, RefreshRefused, ExchangeRefused, ReplyNone,
     Fails, End, Adding, Unsaved
<1>8. ASSUME NEW s \in Session, InsertAndCache(s)  PROVE task'[r] = task[r]
  BY <1>2, <1>8, <1>types DEF InsertAndCache, End, Adding, Unsaved
<1>9. ASSUME NEW s \in Session,
             CommitValidated(s) \/ SaveRefresh(s) \/ SaveExchanged(s) \/ SaveLogin(s)
      PROVE  s = r \/ task'[r] = task[r]
  BY <1>1, <1>9 DEF CommitValidated, SaveRefresh, SaveExchanged, SaveLogin, Fails, End
<1>10. ASSUME \/ \E t \in Token : IssueElsewhere(t) \/ Evict(t)
              \/ Tick
              \/ UNCHANGED vars
       PROVE  task' = task
  BY <1>10 DEF IssueElsewhere, Evict, Tick, vars
<1> QED
  BY <1>3, <1>4, <1>5, <1>6, <1>7, <1>8, <1>9, <1>10 DEF Next, SessionStep

\* A refreshed token is saved after the IdP has issued it.
LEMMA SaveBeginsLemma ==
    ASSUME IInv, [Next]_vars, NEW r \in Session, task[r].pc # "save", task'[r].pc = "save"
    PROVE  \E new \in Token : AskRefresh(r, new)
<1>types. task \in [Session -> Task]
  BY DEF IInv, TypeOK
<1>1. ASSUME NEW s \in Session, NEW v, v.pc # "save", task' = [task EXCEPT ![s] = v]
      PROVE  FALSE
  BY <1>1, <1>types
<1>2. Idle.pc # "save"
  BY DEF Idle
<1>3. ASSUME NEW s \in Session, NEW t \in Token,
             \/ ValidateCached(s, t)
             \/ ValidateKnown(s, t)
             \/ ValidateRefused(s, t)
             \/ LoginPassword(s, t)
      PROVE  FALSE
  BY <1>3 DEF ValidateCached, ValidateKnown, ValidateRefused, LoginPassword, vars
<1>4. ASSUME NEW s \in Session, NEW t \in Token,
             \/ ValidateForeign(s, t)
             \/ BeginRefresh(s, t)
             \/ RedeemCode(s, t)
      PROVE  FALSE
  <2>1. \E v : v.pc # "save" /\ Begin(s, v)
    <3>1. CASE ValidateForeign(s, t)
      BY <3>1 DEF ValidateForeign, Idle
    <3>2. CASE BeginRefresh(s, t)
      BY <3>2 DEF BeginRefresh, Idle
    <3>3. CASE RedeemCode(s, t)
      BY <3>3 DEF RedeemCode, Idle
    <3> QED
      BY <1>4, <3>1, <3>2, <3>3
  <2> QED
    BY <1>1, <2>1 DEF Begin
<1>5. ASSUME NEW s \in Session, NEW t \in Token, AskExchange(s, t)  PROVE FALSE
  BY <1>5, <1>types DEF AskExchange, Task
<1>6. ASSUME NEW s \in Session, NEW t \in Token, AskRefresh(s, t)  PROVE s = r
  BY <1>types, <1>6 DEF AskRefresh
<1>7. ASSUME NEW s \in Session, NEW want \in Wanted,
             ExchangeImpossible(s, want) \/ BeginExchange(s, want)
      PROVE  FALSE
  BY <1>7, <1>types DEF ExchangeImpossible, BeginExchange, Begin, Idle, Task
<1>8. ASSUME NEW s \in Session, End(s)  PROVE FALSE
  BY <1>1, <1>2, <1>8 DEF End
<1>9. ASSUME NEW s \in Session,
             \/ RefreshTooLate(s)
             \/ RefreshRefused(s)
             \/ ExchangeRefused(s)
             \/ ReplyNone(s)
             \/ SaveExchanged(s)
             \/ SaveLogin(s)
             \/ CommitValidated(s)
             \/ SaveRefresh(s)
      PROVE  FALSE
  BY <1>8, <1>9 DEF RefreshTooLate, RefreshRefused, ExchangeRefused, ReplyNone,
     SaveExchanged, SaveLogin, CommitValidated, SaveRefresh, Fails
<1>10. ASSUME NEW s \in Session, InsertAndCache(s)  PROVE FALSE
  BY <1>8, <1>10, <1>types DEF InsertAndCache, Task
<1>11. ASSUME \/ \E t \in Token : IssueElsewhere(t) \/ Evict(t)
              \/ Tick
              \/ UNCHANGED vars
       PROVE  FALSE
  BY <1>11 DEF IssueElsewhere, Evict, Tick, vars
<1> QED
  BY <1>3, <1>4, <1>5, <1>6, <1>7, <1>9, <1>10, <1>11 DEF Next, SessionStep

\* A refresh token is spent by its use: the answer arrives, or a failure has lost it.
LEMMA UnspentLemma ==
    ASSUME IInv, [Next]_vars, NEW t \in unspent, t \notin unspent'
    PROVE  \E s \in Session :
              /\ task[s].pc = "refresh" /\ task[s].token = t
              /\ \/ \E new \in Token : AskRefresh(s, new)
                 \/ RefreshRefused(s) /\ faults' = faults + 1
<1>1. ASSUME NEW s \in Session, NEW new \in Token, AskRefresh(s, new)
      PROVE  task[s].pc = "refresh" /\ task[s].token = t
  BY <1>1 DEF AskRefresh
<1>2. ASSUME NEW s \in Session, RefreshRefused(s)
      PROVE  task[s].pc = "refresh" /\ task[s].token = t /\ faults' = faults + 1
  BY <1>2 DEF RefreshRefused, Fails
<1>3. ASSUME NEW s \in Session, NEW new \in Token, AskExchange(s, new) \/ RedeemCode(s, new)
      PROVE  FALSE
  BY <1>3 DEF AskExchange, RedeemCode
<1>4. \/ \E s \in Session : \/ RefreshRefused(s)
                            \/ \E new \in Token : \/ AskRefresh(s, new)
                                                  \/ AskExchange(s, new)
                                                  \/ RedeemCode(s, new)
      \/ UNCHANGED unspent
  BY ZenonT(60) DEF Next, SessionStep, ValidateCached, ValidateKnown, ValidateRefused, ValidateForeign,
         BeginRefresh, LoginPassword, InsertAndCache, CommitValidated, RefreshTooLate,
         SaveRefresh, ExchangeImpossible, BeginExchange, ExchangeRefused, SaveExchanged,
         ReplyNone, SaveLogin, IssueElsewhere, Evict, Tick, vars
<1> QED
  BY <1>1, <1>2, <1>3, <1>4

\* The writes of the table: the row of a token is superseded by the one that refreshed it,
\* deleted when its life is over, or new, and then to be refreshed only if the IdP will.
LEMMA RowsLemma ==
    ASSUME IInv, [Next]_vars, NEW t \in Token
    PROVE  /\ IsRow(t) => IsRow(t)' \/ Over(t)
           /\ IsRow(t) /\ Live(t)' => Live(t)
           /\ ~IsRow(t) /\ Live(t)' => \/ t \in unspent
                                       \/ \E s \in Session : task[s].pc = "save" /\ task[s].new = t
           /\ Live(t) => \/ Live(t)' \/ Over(t)
                         \/ \E s \in Session : SaveRefresh(s) /\ task[s].token = t
<1> DEFINE Goal == /\ IsRow(t) => IsRow(t)' \/ Over(t)
                   /\ IsRow(t) /\ Live(t)' => Live(t)
                   /\ ~IsRow(t) /\ Live(t)' =>
                          \/ t \in unspent
                          \/ \E s \in Session : task[s].pc = "save" /\ task[s].new = t
                   /\ Live(t) => \/ Live(t)' \/ Over(t)
                                 \/ \E s \in Session : SaveRefresh(s) /\ task[s].token = t
<1>types. row \in [Token -> Row \cup {NoRow}] /\ NoRow \notin Row
  BY NamesAssumption DEF IInv, TypeOK
<1>plain. PlainRow \in Row /\ ~PlainRow.refresh
  BY DEF PlainRow, Row
<1>1. CASE UNCHANGED row
  BY <1>1 DEF Live, IsRow
<1>2. ASSUME NEW r \in Session, NEW new \in Token, LoginPassword(r, new)  PROVE Goal
  <2>1. InsertAndDelete(new, PlainRow, FALSE) /\ ~IsRow(new)
    BY <1>2 DEF LoginPassword, IInv, IssuedOK
  <2> QED
    BY <1>plain, <2>1, DeletionLemma, ZenonT(60) DEF Live, IsRow
<1>3. ASSUME NEW r \in Session, CommitValidated(r)  PROVE Goal
  <2>1. Adding(task[r]) /\ Added(task[r]) = task[r].token
    BY <1>3 DEF CommitValidated, Adding, Added
  <2>2. task[r].token \in Token /\ ~IsRow(task[r].token)
    BY <1>3, <2>1, AddedLemma DEF CommitValidated, IInv, TasksFit, Fits, ForeignFits
  <2>3. CASE row' = [row EXCEPT ![task[r].token] = PlainRow]
    BY <1>types, <1>plain, <2>2, <2>3 DEF Live, IsRow
  <2> QED
    BY <1>1, <1>3, <2>3 DEF CommitValidated
<1>4. ASSUME NEW r \in Session, First(task[r])
      PROVE  /\ task[r].new \in Token /\ ~IsRow(task[r].new)
             /\ RowOf(task[r].new) \in Row
             /\ RowOf(task[r].new).refresh => task[r].new \in unspent
  BY <1>4, RowOfLemma DEF IInv, TasksFit, Fits, NewFits, First, Unsaved, RowOf, PlainRow
<1>5. ASSUME NEW r \in Session, SaveExchanged(r)  PROVE Goal
  <2>1. First(task[r])
    BY <1>5 DEF SaveExchanged, First
  <2>2. CASE row' = [row EXCEPT ![task[r].new] = RowOf(task[r].new)]
    BY <1>types, <1>4, <2>1, <2>2 DEF Live, IsRow
  <2> QED
    BY <1>1, <1>5, <2>2 DEF SaveExchanged
<1>6. ASSUME NEW r \in Session, SaveLogin(r)  PROVE Goal
  <2>1. First(task[r])
    BY <1>6 DEF SaveLogin, First
  <2>2. CASE InsertAndDelete(task[r].new, RowOf(task[r].new), TRUE)
    <3>1. PICK new, entry : new = task[r].new /\ entry = RowOf(task[r].new)
      OBVIOUS
    <3>2. new \in Token /\ ~IsRow(new) /\ entry \in Row /\ (entry.refresh => new \in unspent)
      BY <1>4, <2>1, <3>1
    <3>3. InsertAndDelete(new, entry, TRUE)
      BY <2>2, <3>1
    <3>4. /\ row'[new] = entry
          /\ \A q \in Token \ {new} : IsRow(q)' => row'[q] = row[q]
          /\ \A q \in Token : IsRow(q) => row'[q] = row[q] \/ (~IsRow(q)' /\ Over(q))
      BY <3>2, <3>3, DeletionLemma
    <3> QED
      BY <3>2, <3>4 DEF Live, IsRow
  <2> QED
    BY <1>1, <1>6, <2>2 DEF SaveLogin
<1>7. ASSUME NEW r \in Session, SaveRefresh(r)  PROVE Goal
  <2>1. PICK u, new : u = task[r].token /\ new = task[r].new
    OBVIOUS
  <2>2. task[r].pc = "save" /\ Fits(task[r]) /\ task[r] \in Task
    BY <1>7 DEF SaveRefresh, IInv, TypeOK, TasksFit
  <2>3. /\ u \in Token /\ Live(u) /\ new \in Token /\ ~Fresh(new) /\ ~IsRow(new)
        /\ task[r].start \in Nat
    BY <2>1, <2>2 DEF Fits, RefreshFits, NewFits, Unsaved, Task
  <2>4. /\ RefreshableRow(new, CarriedStart(r)) \in Row
        /\ Superseded(row[u]) \in Row /\ ~Superseded(row[u]).refresh
    BY <2>3, RowOfLemma, TypesLemma DEF IInv, CarriedStart, Live, Superseded, Row
  <2>5. CASE row' = [row EXCEPT ![u] = Superseded(row[u]),
                                ![new] = RefreshableRow(new, CarriedStart(r))]
    BY <1>7, <1>types, <2>1, <2>2, <2>3, <2>4, <2>5 DEF Live, IsRow
  <2> QED
    BY <1>1, <1>7, <2>1, <2>5 DEF SaveRefresh
<1>8. ASSUME NEW r \in Session, NEW u \in Token,
             \/ ValidateCached(r, u)
             \/ ValidateKnown(r, u)
             \/ ValidateRefused(r, u)
             \/ ValidateForeign(r, u)
             \/ BeginRefresh(r, u)
             \/ AskRefresh(r, u)
             \/ AskExchange(r, u)
             \/ RedeemCode(r, u)
      PROVE  UNCHANGED row
  BY <1>8 DEF ValidateCached, ValidateKnown, ValidateRefused, ValidateForeign,
     BeginRefresh, AskRefresh, AskExchange, RedeemCode, vars
<1>9. ASSUME \/ \E r \in Session : \/ RefreshTooLate(r)
                                   \/ RefreshRefused(r)
                                   \/ ExchangeRefused(r)
                                   \/ ReplyNone(r)
                                   \/ InsertAndCache(r)
                                   \/ \E want \in Wanted : \/ ExchangeImpossible(r, want)
                                                           \/ BeginExchange(r, want)
             \/ \E u \in Token : IssueElsewhere(u) \/ Evict(u)
             \/ Tick
             \/ UNCHANGED vars
      PROVE  UNCHANGED row
  BY <1>9 DEF RefreshTooLate, RefreshRefused, ExchangeRefused, ReplyNone, InsertAndCache,
     ExchangeImpossible, BeginExchange, IssueElsewhere, Evict, Tick, vars
<1> QED
  BY <1>1, <1>2, <1>3, <1>5, <1>6, <1>7, <1>8, <1>9 DEF Next, SessionStep

\* Issued tokens stay as they are, time goes on, and no row goes before its life is over.
LEMMA MonotoneLemma ==
    ASSUME IInv, [Next]_vars
    PROVE  Monotone
<1>types. /\ now \in Nat /\ row \in [Token -> Row \cup {NoRow}]
          /\ issued \in [Token -> Issue \cup {NoIssue}]
  BY TypesLemma DEF IInv, TypeOK
<1>1. now' \in Nat /\ now' >= now
  <2>1. ASSUME NEW r \in Session, NEW u \in Token,
               \/ ValidateCached(r, u)
               \/ ValidateKnown(r, u)
               \/ ValidateRefused(r, u)
               \/ ValidateForeign(r, u)
               \/ BeginRefresh(r, u)
               \/ AskRefresh(r, u)
               \/ AskExchange(r, u)
               \/ RedeemCode(r, u)
               \/ LoginPassword(r, u)
        PROVE  UNCHANGED now
    BY <2>1 DEF ValidateCached, ValidateKnown, ValidateRefused, ValidateForeign,
       BeginRefresh, AskRefresh, AskExchange, RedeemCode, LoginPassword, vars
  <2>2. ASSUME NEW r \in Session,
               \/ InsertAndCache(r)
               \/ CommitValidated(r)
               \/ RefreshTooLate(r)
               \/ RefreshRefused(r)
               \/ SaveRefresh(r)
               \/ ExchangeRefused(r)
               \/ SaveExchanged(r)
               \/ ReplyNone(r)
               \/ SaveLogin(r)
        PROVE  UNCHANGED now
    BY <2>2 DEF InsertAndCache, CommitValidated, RefreshTooLate, RefreshRefused, SaveRefresh,
       ExchangeRefused, SaveExchanged, ReplyNone, SaveLogin
  <2>3. ASSUME \/ \E r \in Session, want \in Wanted : \/ ExchangeImpossible(r, want)
                                                      \/ BeginExchange(r, want)
               \/ \E u \in Token : IssueElsewhere(u) \/ Evict(u)
               \/ UNCHANGED vars
        PROVE  UNCHANGED now
    BY <2>3 DEF ExchangeImpossible, BeginExchange, IssueElsewhere, Evict, vars
  <2>4. now' = now \/ now' = now + 1
    BY <2>1, <2>2, <2>3 DEF Next, SessionStep, Tick
  <2> QED
    BY <1>types, <2>4
<1>2. ASSUME NEW t \in Token, ~Fresh(t)  PROVE issued'[t] = issued[t]
  <2>1. ASSUME NEW new \in Token, NEW i, Fresh(new), issued' = [issued EXCEPT ![new] = i]
        PROVE  issued'[t] = issued[t]
    BY <1>types, <1>2, <2>1
  <2>2. ASSUME NEW s \in Session, NEW new \in Token,
               \/ AskRefresh(s, new)
               \/ AskExchange(s, new)
               \/ RedeemCode(s, new)
               \/ LoginPassword(s, new)
        PROVE  issued'[t] = issued[t]
    <3>1. Fresh(new) /\ \E i : issued' = [issued EXCEPT ![new] = i]
      BY <2>2 DEF AskRefresh, AskExchange, RedeemCode, LoginPassword
    <3> QED
      BY <2>1, <3>1
  <2>3. ASSUME NEW new \in Token, IssueElsewhere(new)  PROVE issued'[t] = issued[t]
    BY <2>1, <2>3 DEF IssueElsewhere
  <2>4. ASSUME NEW r \in Session, NEW u \in Token,
               \/ ValidateCached(r, u)
               \/ ValidateKnown(r, u)
               \/ ValidateRefused(r, u)
               \/ ValidateForeign(r, u)
               \/ BeginRefresh(r, u)
        PROVE  UNCHANGED issued
    BY <2>4 DEF ValidateCached, ValidateKnown, ValidateRefused, ValidateForeign,
       BeginRefresh, vars
  <2>5. ASSUME NEW r \in Session,
               \/ InsertAndCache(r)
               \/ CommitValidated(r)
               \/ RefreshTooLate(r)
               \/ RefreshRefused(r)
               \/ SaveRefresh(r)
               \/ ExchangeRefused(r)
               \/ SaveExchanged(r)
               \/ ReplyNone(r)
               \/ SaveLogin(r)
        PROVE  UNCHANGED issued
    BY <2>5 DEF InsertAndCache, CommitValidated, RefreshTooLate, RefreshRefused, SaveRefresh,
       ExchangeRefused, SaveExchanged, ReplyNone, SaveLogin
  <2>6. ASSUME \/ \E r \in Session, want \in Wanted : \/ ExchangeImpossible(r, want)
                                                      \/ BeginExchange(r, want)
               \/ \E u \in Token : Evict(u)
               \/ Tick
               \/ UNCHANGED vars
        PROVE  UNCHANGED issued
    BY <2>6 DEF ExchangeImpossible, BeginExchange, Evict, Tick, vars
  <2> QED
    BY <2>2, <2>3, <2>4, <2>5, <2>6 DEF Next, SessionStep
<1>3. ASSUME NEW t \in Token, IsRow(t)  PROVE IsRow(t)' \/ Over(t)
  BY <1>3, RowsLemma DEF IsRow
<1> QED
  BY <1>1, <1>2, <1>3 DEF Monotone

--------------------------------------------------------------------------------
(* Each failure loses one chain.                                           *)

\* A session has the successor of t from the IdP and has not committed it.
Saving(t) == \E s \in Session : task[s].pc = "save" /\ task[s].token = t

Lost(t) == Live(t) /\ t \notin unspent /\ ~Saving(t)

\* A refreshed token that is to be saved is good for a refresh.
SavedIsUnspent == \A s \in Session : task[s].pc = "save" => task[s].new \in unspent

LossInv ==
    /\ SavedIsUnspent
    /\ IsFiniteSet(LostChains)
    /\ EachFailureLosesOneChain

\* Nobody else can spend the refresh token of a token that is not in the table yet.
LEMMA SavedIsUnspentLemma ==
    ASSUME IInv, SavedIsUnspent, [Next]_vars
    PROVE  SavedIsUnspent'
<1> SUFFICES ASSUME NEW s \in Session, task'[s].pc = "save"
             PROVE  task'[s].new \in unspent'
  BY DEF SavedIsUnspent
<1>types. task \in [Session -> Task]
  BY DEF IInv, TypeOK
<1>1. CASE task[s].pc = "save"
  <2>1. ~CommitValidated(s) /\ ~SaveRefresh(s) /\ ~SaveExchanged(s) /\ ~SaveLogin(s)
    BY <1>1, <1>types DEF CommitValidated, SaveRefresh, SaveExchanged, SaveLogin, Fails, End, Idle
  <2>2. task'[s] = task[s]
    BY <1>1, <2>1, WritersStayLemma DEF Adding, Unsaved
  <2>3. task[s].new \in unspent /\ ~IsRow(task[s].new)
    BY <1>1 DEF SavedIsUnspent, IInv, TasksFit, Fits, NewFits, Unsaved
  <2>4. ASSUME NEW r \in Session, task[r].pc = "refresh"  PROVE task[r].token # task[s].new
    BY <2>3, <2>4 DEF IInv, TasksFit, Fits, RefreshFits, Live
  <2> QED
    BY <2>2, <2>3, <2>4, UnspentLemma
<1>2. CASE task[s].pc # "save"
  <2>1. PICK new \in Token : AskRefresh(s, new)
    BY <1>2, SaveBeginsLemma
  <2> QED
    BY <1>types, <2>1 DEF AskRefresh
<1> QED
  BY <1>1, <1>2

\* Only two failures lose a chain: the IdP's answer, or the commit of what it gave.
LEMMA LossLemma ==
    ASSUME IInv, SavedIsUnspent, [Next]_vars, NEW t \in Token, Lost(t)', ~Lost(t)
    PROVE  /\ faults' = faults + 1
           /\ \E s \in Session : /\ task[s].token = t
                                 /\ RefreshRefused(s) \/ SaveRefresh(s)
<1>types. task \in [Session -> Task]
  BY DEF IInv, TypeOK
<1>1. ASSUME t \in unspent  PROVE t \in unspent \ unspent'
  BY <1>1 DEF Lost
<1>2. CASE t \in unspent
  <2>1. PICK s \in Session : /\ task[s].pc = "refresh" /\ task[s].token = t
                             /\ \/ \E new \in Token : AskRefresh(s, new)
                                \/ RefreshRefused(s) /\ faults' = faults + 1
    BY <1>1, <1>2, UnspentLemma
  <2>2. ASSUME NEW new \in Token, AskRefresh(s, new)  PROVE Saving(t)'
    <3>1. task'[s].pc = "save" /\ task'[s].token = t
      BY <1>types, <2>1, <2>2 DEF AskRefresh, Task
    <3> QED
      BY <3>1 DEF Saving
  <2> QED
    BY <2>1, <2>2 DEF Lost
<1>3. CASE Live(t) /\ t \notin unspent
  <2>1. PICK s \in Session : task[s].pc = "save" /\ task[s].token = t
    BY <1>3 DEF Lost, Saving
  <2>2. task'[s] # task[s]
    BY <2>1 DEF Lost, Saving
  <2>3. SaveRefresh(s)
    BY <2>1, <2>2, WritersStayLemma DEF CommitValidated, SaveExchanged, SaveLogin, Adding, Unsaved
  <2>4. Fails(s)
    <3>1. Fits(task[s]) /\ t \in Token
      BY DEF IInv, TasksFit
    <3>2. t # task[s].new
      BY <2>1, <3>1 DEF Fits, RefreshFits, NewFits, Unsaved, Live
    <3>3. row \in [Token -> Row \cup {NoRow}] /\ row[t] \in Row
      BY <1>3, TypesLemma DEF IInv, TypeOK, Live
    <3>4. ASSUME row' = [row EXCEPT ![t] = Superseded(row[t]),
                                    ![task[s].new] = RefreshableRow(task[s].new,
                                                                    CarriedStart(s))]
          PROVE  FALSE
      <4>1. row'[t] = Superseded(row[t])
        BY <3>2, <3>3, <3>4
      <4>2. ~Superseded(row[t]).refresh
        BY <3>3 DEF Superseded, Row
      <4> QED
        BY <4>1, <4>2 DEF Lost, Live
    <3> QED
      BY <2>1, <2>3, <3>4 DEF SaveRefresh
  <2> QED
    BY <2>1, <2>3, <2>4 DEF Fails
<1>4. CASE ~Live(t) /\ t \notin unspent
  <2>1. Live(t)' /\ t \notin unspent'
    BY DEF Lost
  <2>2. ~IsRow(t)
    BY <1>4, <2>1, RowsLemma
  <2>3. ~\E s \in Session : task[s].pc = "save" /\ task[s].new = t
    BY <1>4 DEF SavedIsUnspent
  <2> QED
    BY <1>4, <2>1, <2>2, <2>3, RowsLemma
<1> QED
  BY <1>2, <1>3, <1>4

\* One failure loses one chain at most.
LEMMA LossInductive ==
    ASSUME IInv, LossInv, [Next]_vars
    PROVE  LossInv'
<1>1. SavedIsUnspent'
  BY SavedIsUnspentLemma DEF LossInv
<1>2. faults \in Nat /\ (faults' = faults \/ faults' = faults + 1)
  BY FaultsLemma, FaultAssumption DEF IInv, TypeOK
<1>3. /\ \A t \in Token : t \in LostChains <=> Lost(t)
      /\ \A t \in Token : t \in LostChains' <=> Lost(t)'
      /\ LostChains \subseteq Token /\ LostChains' \subseteq Token
  BY DEF LostChains, Lost, Live, Saving
<1>4. PICK S, T : S = LostChains /\ T = LostChains'
  OBVIOUS
<1>5. IsFiniteSet(S) /\ Cardinality(S) <= faults
  BY <1>4 DEF LossInv, EachFailureLosesOneChain
<1>6. CASE \A t \in T : t \in S
  <2>1. IsFiniteSet(T) /\ Cardinality(T) <= faults
    BY <1>2, <1>5, <1>6, NoGrowthLemma
  <2> QED
    BY <1>1, <1>2, <1>4, <2>1, FS_CardinalityType DEF LossInv, EachFailureLosesOneChain
<1>7. ASSUME NEW t \in T, t \notin S  PROVE LossInv'
  <2>1. t \in Token /\ Lost(t)' /\ ~Lost(t)
    BY <1>3, <1>4, <1>7
  <2>2. faults' = faults + 1
    BY <2>1, LossLemma DEF LossInv
  <2>3. PICK s \in Session : task[s].token = t /\ (RefreshRefused(s) \/ SaveRefresh(s))
    BY <2>1, LossLemma DEF LossInv
  <2>4. ASSUME NEW u \in T, u \notin S  PROVE u = t
    <3>1. PICK r \in Session : task[r].token = u /\ (RefreshRefused(r) \/ SaveRefresh(r))
      BY <1>3, <1>4, <2>4, LossLemma DEF LossInv
    <3>2. s = r
      <4>1. \A q \in Session : RefreshRefused(q) \/ SaveRefresh(q) =>
                task' = [task EXCEPT ![q] = Idle] /\ task[q].pc # "idle"
        BY DEF RefreshRefused, SaveRefresh, Fails, End
      <4>2. task \in [Session -> Task] /\ Idle.pc = "idle"
        BY DEF IInv, TypeOK, Idle
      <4> QED
        BY <2>3, <3>1, <4>1, <4>2
    <3> QED
      BY <2>3, <3>1, <3>2
  <2>5. T \subseteq S \cup {t}
    BY <2>4
  <2>6. IsFiniteSet(T) /\ Cardinality(T) <= faults + 1
    BY <1>2, <1>5, <2>5, GrowthLemma
  <2> QED
    BY <1>1, <1>4, <2>2, <2>6 DEF LossInv, EachFailureLosesOneChain
<1> QED
  BY <1>6, <1>7

\* However many sessions refresh tokens of one account at a time, a chain of refreshes is
\* lost only to a failure between the answer of the IdP and the commit, and every such
\* failure loses one chain at most (__refresh_token_oidc, SKIP LOCKED).
THEOREM RucioTokensEachFailureLosesOneChain == Spec => []EachFailureLosesOneChain
<1>1. Init => LossInv
  <2> SUFFICES ASSUME Init  PROVE LossInv
    OBVIOUS
  <2>1. LostChains = {} /\ SavedIsUnspent /\ faults = 0
    BY DEF Init, LostChains, IsRow, SavedIsUnspent, Idle
  <2> QED
    BY <2>1, FS_EmptySet DEF LossInv, EachFailureLosesOneChain
<1>2. IInv /\ LossInv /\ [Next]_vars => LossInv'
  BY LossInductive
<1>3. LossInv => EachFailureLosesOneChain
  BY DEF LossInv
<1> QED
  BY <1>1, <1>2, <1>3, Invariance, PTL DEF Spec

--------------------------------------------------------------------------------
(* Each failure leaves one entry of the cache behind.                      *)

\* What the cache answers for, and the table would not.
Unknown(t) == ~Over(t) /\ ~IsRow(t) /\ ~Pending(t)

UnknownTokens == {t \in cached : Unknown(t)}

CacheInv ==
    /\ \A t \in cached : ~Fresh(t)
    /\ IsFiniteSet(UnknownTokens)
    /\ CachedIsKnown

\* A token gets into the cache with its row, or with the INSERT of it.
LEMMA CachedLemma ==
    ASSUME IInv, [Next]_vars, NEW t \in cached', t \notin cached
    PROVE  ~Fresh(t) /\ (IsRow(t)' \/ Pending(t)')
<1>1. ASSUME NEW s \in Session, NEW u \in Token, ValidateKnown(s, u)
      PROVE  u = t /\ ~Fresh(t) /\ IsRow(t)'
  BY <1>1 DEF ValidateKnown, Readable, IsRow
<1>2. ASSUME NEW s \in Session, InsertAndCache(s)
      PROVE  ~Fresh(t) /\ Pending(t)'
  <2>1. task[s].pc = "insert" /\ task[s].token = t /\ task' = [task EXCEPT ![s].pc = "commit"]
    BY <1>2 DEF InsertAndCache
  <2>2. ~Fresh(t)
    BY <2>1 DEF IInv, TasksFit, Fits, ForeignFits
  <2>3. task'[s].pc = "commit" /\ task'[s].token = t
    BY <2>1 DEF IInv, TypeOK, Task
  <2> QED
    BY <2>2, <2>3 DEF Pending
<1>3. ASSUME NEW s \in Session, NEW u \in Token, ValidateCached(s, u) \/ Evict(u)
      PROVE  FALSE
  BY <1>3 DEF ValidateCached, Evict
<1>4. ASSUME NEW s \in Session, NEW u \in Token,
             \/ ValidateRefused(s, u)
             \/ ValidateForeign(s, u)
             \/ BeginRefresh(s, u)
             \/ AskRefresh(s, u)
             \/ AskExchange(s, u)
             \/ RedeemCode(s, u)
             \/ LoginPassword(s, u)
      PROVE  FALSE
  BY <1>4 DEF ValidateRefused, ValidateForeign, BeginRefresh, AskRefresh, AskExchange,
     RedeemCode, LoginPassword, vars
<1>5. ASSUME NEW s \in Session,
             \/ CommitValidated(s)
             \/ RefreshTooLate(s)
             \/ RefreshRefused(s)
             \/ SaveRefresh(s)
             \/ ExchangeRefused(s)
             \/ SaveExchanged(s)
             \/ ReplyNone(s)
             \/ SaveLogin(s)
      PROVE  FALSE
  BY <1>5 DEF CommitValidated, RefreshTooLate, RefreshRefused, SaveRefresh, ExchangeRefused,
     SaveExchanged, ReplyNone, SaveLogin
<1>6. ASSUME \/ \E s \in Session, want \in Wanted : \/ ExchangeImpossible(s, want)
                                                    \/ BeginExchange(s, want)
             \/ \E u \in Token : IssueElsewhere(u)
             \/ Tick
             \/ UNCHANGED vars
      PROVE  FALSE
  BY <1>6 DEF ExchangeImpossible, BeginExchange, IssueElsewhere, Tick, vars
<1>7. ASSUME NEW u \in Token, Evict(u)  PROVE FALSE
  BY <1>7 DEF Evict
<1> QED
  BY <1>1, <1>2, <1>3, <1>4, <1>5, <1>6, <1>7 DEF Next, SessionStep

\* What is in the cache and about to be inserted is inserted, unless the commit fails.
LEMMA PendingLemma ==
    ASSUME IInv, [Next]_vars, NEW t \in Token, Pending(t), ~Pending(t)', ~IsRow(t)'
    PROVE  /\ faults' = faults + 1
           /\ \E s \in Session : task[s].token = t /\ CommitValidated(s)
<1>1. PICK s \in Session : task[s].pc = "commit" /\ task[s].token = t
  BY DEF Pending
<1>2. task'[s] # task[s]
  BY <1>1 DEF Pending
<1>3. CommitValidated(s)
  BY <1>1, <1>2, WritersStayLemma DEF SaveRefresh, SaveExchanged, SaveLogin, Adding
<1>4. ASSUME row' = [row EXCEPT ![t] = PlainRow]  PROVE FALSE
  <2>1. PlainRow \in Row
    BY DEF PlainRow, Row
  <2>2. PlainRow # NoRow /\ row \in [Token -> Row \cup {NoRow}]
    BY <2>1, NamesAssumption DEF IInv, TypeOK
  <2> QED
    BY <1>4, <2>2 DEF IsRow
<1>5. Fails(s)
  BY <1>1, <1>3, <1>4 DEF CommitValidated
<1> QED
  BY <1>1, <1>3, <1>5 DEF Fails

\* An entry comes to be one the table would not confirm only by a commit that fails.
LEMMA UnknownLemma ==
    ASSUME IInv, CacheInv, [Next]_vars, NEW t \in UnknownTokens', t \notin UnknownTokens
    PROVE  /\ t \in Token
           /\ faults' = faults + 1
           /\ \E s \in Session : task[s].token = t /\ CommitValidated(s)
<1>1. IInv' /\ t \in cached' /\ Unknown(t)'
  BY NextLemma DEF UnknownTokens
<1>2. t \in Token /\ t \in cached /\ ~Fresh(t)
  BY <1>1, CachedLemma DEF IInv, TypeOK, Unknown, CacheInv
<1>3. ~Over(t)
  <2>1. issued'[t] = issued[t] /\ now' >= now /\ now' \in Nat
    BY <1>2, MonotoneLemma DEF Monotone
  <2>2. now \in Nat /\ issued[t].exp \in Nat
    BY <1>2, TypesLemma DEF IInv, Issue
  <2> QED
    BY <1>1, <2>1, <2>2 DEF Unknown, Over
<1>4. ~IsRow(t)
  BY <1>1, <1>2, <1>3, RowsLemma DEF Unknown
<1>5. Pending(t)
  BY <1>2, <1>3, <1>4 DEF UnknownTokens, Unknown
<1> QED
  BY <1>1, <1>2, <1>5, PendingLemma DEF Unknown

\* One failure leaves one such entry at most.
LEMMA CacheInductive ==
    ASSUME IInv, CacheInv, [Next]_vars
    PROVE  CacheInv'
<1>1. \A t \in cached' : ~Fresh(t)'
  <2> SUFFICES ASSUME NEW t \in cached'  PROVE ~Fresh(t)'
    OBVIOUS
  <2>1. t \in Token /\ ~Fresh(t)
    BY NextLemma, CachedLemma DEF IInv, TypeOK, CacheInv
  <2> QED
    BY <2>1, MonotoneLemma DEF Monotone, Fresh
<1>2. faults \in Nat /\ (faults' = faults \/ faults' = faults + 1)
  BY FaultsLemma, FaultAssumption DEF IInv, TypeOK
<1>3. PICK S, T : S = UnknownTokens /\ T = UnknownTokens'
  OBVIOUS
<1>4. /\ CachedIsKnown <=> Cardinality(S) <= faults
      /\ CachedIsKnown' <=> Cardinality(T) <= faults'
  BY <1>3 DEF CachedIsKnown, UnknownTokens, Unknown
<1>5. IsFiniteSet(S) /\ Cardinality(S) <= faults
  BY <1>3, <1>4 DEF CacheInv
<1>6. CASE \A t \in T : t \in S
  <2>1. IsFiniteSet(T) /\ Cardinality(T) <= faults
    BY <1>2, <1>5, <1>6, NoGrowthLemma
  <2> QED
    BY <1>1, <1>2, <1>3, <1>4, <2>1, FS_CardinalityType DEF CacheInv
<1>7. ASSUME NEW t \in T, t \notin S  PROVE CacheInv'
  <2>1. faults' = faults + 1
    BY <1>3, <1>7, UnknownLemma
  <2>2. PICK s \in Session : task[s].token = t /\ CommitValidated(s)
    BY <1>3, <1>7, UnknownLemma
  <2>3. ASSUME NEW u \in T, u \notin S  PROVE u = t
    <3>1. PICK r \in Session : task[r].token = u /\ CommitValidated(r)
      BY <1>3, <2>3, UnknownLemma
    <3>2. s = r
      <4>1. \A q \in Session : CommitValidated(q) =>
                task' = [task EXCEPT ![q] = Idle] /\ task[q].pc # "idle"
        BY DEF CommitValidated, Fails, End
      <4>2. task \in [Session -> Task] /\ Idle.pc = "idle"
        BY DEF IInv, TypeOK, Idle
      <4> QED
        BY <2>2, <3>1, <4>1, <4>2
    <3> QED
      BY <2>2, <3>1, <3>2
  <2>4. IsFiniteSet(T) /\ Cardinality(T) <= faults + 1
    BY <1>2, <1>5, <2>3, GrowthLemma
  <2> QED
    BY <1>1, <1>3, <1>4, <2>1, <2>4 DEF CacheInv
<1> QED
  BY <1>6, <1>7

\* What the validation cache answers for without a query the table would confirm, now or
\* after a commit under way, but for one token per failed commit (validate_jwt calls
\* TOKENREGION.set before the commit).
THEOREM RucioTokensCachedIsKnown == Spec => []CachedIsKnown
<1>1. Init => CacheInv
  <2> SUFFICES ASSUME Init  PROVE CacheInv
    OBVIOUS
  <2>1. cached = {} /\ faults = 0 /\ UnknownTokens = {}
    BY DEF Init, UnknownTokens
  <2>2. Cardinality(UnknownTokens) = 0 /\ IsFiniteSet(UnknownTokens)
    BY <2>1, FS_EmptySet
  <2>3. CachedIsKnown
    BY <2>1, <2>2 DEF CachedIsKnown, UnknownTokens, Unknown
  <2> QED
    BY <2>1, <2>2, <2>3 DEF CacheInv
<1>2. IInv /\ CacheInv /\ [Next]_vars => CacheInv'
  BY CacheInductive
<1>3. CacheInv => CachedIsKnown
  BY DEF CacheInv
<1> QED
  BY <1>1, <1>2, <1>3, Invariance, PTL DEF Spec

--------------------------------------------------------------------------------
(* Each failure loses one token in its life.                               *)

\* What MissedTokens holds.
Missed(t) ==
    /\ ~Fresh(t) /\ issued[t].origin # NoToken /\ ~Over(t) /\ ~BeingSaved(t)
    /\ IsRow(t) => t \in unspent /\ ~row[t].refresh

\* Only issued tokens have a refresh token at the IdP.
UnspentKnown == \A t \in unspent : ~Fresh(t)

\* A token whose successor is being saved has been used.
UsedIsSpent == \A s \in Session : task[s].pc = "save" => task[s].token \notin unspent

KeptInv ==
    /\ UnspentKnown
    /\ UsedIsSpent
    /\ IsFiniteSet(MissedTokens)
    /\ KeptInLife

\* Tokens are issued by the IdP's answers and by logins.
LEMMA FreshLemma ==
    ASSUME IInv, [Next]_vars, NEW t \in Token, Fresh(t), ~Fresh(t)'
    PROVE  \/ \E s \in Session : \/ AskRefresh(s, t)
                                 \/ AskExchange(s, t)
                                 \/ RedeemCode(s, t)
                                 \/ LoginPassword(s, t)
           \/ IssueElsewhere(t)
<1>types. issued \in [Token -> Issue \cup {NoIssue}]
  BY DEF IInv, TypeOK
<1>1. ASSUME NEW new \in Token, NEW i, issued' = [issued EXCEPT ![new] = i]
      PROVE  new = t
  BY <1>types, <1>1 DEF Fresh
<1>2. ASSUME NEW s \in Session, NEW new \in Token,
             \/ AskRefresh(s, new)
             \/ AskExchange(s, new)
             \/ RedeemCode(s, new)
             \/ LoginPassword(s, new)
      PROVE  new = t
  <2>1. \E i : issued' = [issued EXCEPT ![new] = i]
    BY <1>2 DEF AskRefresh, AskExchange, RedeemCode, LoginPassword
  <2> QED
    BY <1>1, <2>1
<1>3. ASSUME NEW new \in Token, IssueElsewhere(new)  PROVE new = t
  BY <1>1, <1>3 DEF IssueElsewhere
<1>4. ASSUME NEW r \in Session, NEW u \in Token,
             \/ ValidateCached(r, u)
             \/ ValidateKnown(r, u)
             \/ ValidateRefused(r, u)
             \/ ValidateForeign(r, u)
             \/ BeginRefresh(r, u)
      PROVE  UNCHANGED issued
  BY <1>4 DEF ValidateCached, ValidateKnown, ValidateRefused, ValidateForeign,
     BeginRefresh, vars
<1>5. ASSUME NEW r \in Session,
             \/ InsertAndCache(r)
             \/ CommitValidated(r)
             \/ RefreshTooLate(r)
             \/ RefreshRefused(r)
             \/ SaveRefresh(r)
             \/ ExchangeRefused(r)
             \/ SaveExchanged(r)
             \/ ReplyNone(r)
             \/ SaveLogin(r)
      PROVE  UNCHANGED issued
  BY <1>5 DEF InsertAndCache, CommitValidated, RefreshTooLate, RefreshRefused, SaveRefresh,
     ExchangeRefused, SaveExchanged, ReplyNone, SaveLogin
<1>6. ASSUME \/ \E r \in Session, want \in Wanted : \/ ExchangeImpossible(r, want)
                                                    \/ BeginExchange(r, want)
             \/ \E u \in Token : Evict(u)
             \/ Tick
             \/ UNCHANGED vars
      PROVE  UNCHANGED issued
  BY <1>6 DEF ExchangeImpossible, BeginExchange, Evict, Tick, vars
<1> QED
  BY <1>2, <1>3, <1>4, <1>5, <1>6 DEF Next, SessionStep, Fresh

\* What the IdP answers with is on its way into the table.
LEMMA AnswerLemma ==
    ASSUME IInv, [Next]_vars, NEW s \in Session, NEW new \in Token,
           AskRefresh(s, new) \/ AskExchange(s, new) \/ RedeemCode(s, new)
    PROVE  Fresh(new) /\ ~Fresh(new)' /\ BeingSaved(new)'
<1>1. Fresh(new)
  BY DEF AskRefresh, AskExchange, RedeemCode
<1>2. task'[s].pc \in {"save", "saveExchanged", "login"} /\ task'[s].new = new
  <2>1. task \in [Session -> Task]
    BY DEF IInv, TypeOK
  <2>2. CASE AskRefresh(s, new)
    BY <2>1, <2>2 DEF AskRefresh, Task
  <2>3. CASE AskExchange(s, new)
    BY <2>1, <2>3 DEF AskExchange, Task
  <2>4. CASE RedeemCode(s, new)
    BY <2>1, <2>4 DEF RedeemCode, Begin, Idle
  <2> QED
    BY <2>2, <2>3, <2>4
<1>3. ~Fresh(new)'
  BY <1>2, NextLemma DEF IInv, TasksFit, Fits, NewFits, Unsaved
<1> QED
  BY <1>1, <1>2, <1>3 DEF BeingSaved

\* A refresh token is new only with the token it is issued with.
LEMMA NewUnspentLemma ==
    ASSUME IInv, [Next]_vars, NEW t, t \notin unspent, t \in unspent'
    PROVE  t \in Token /\ Fresh(t) /\ ~Fresh(t)'
<1>1. ASSUME NEW s \in Session, NEW new \in Token,
             AskRefresh(s, new) \/ AskExchange(s, new) \/ RedeemCode(s, new)
      PROVE  t = new
  <2>1. CASE AskRefresh(s, new)
    BY <2>1 DEF AskRefresh
  <2>2. CASE AskExchange(s, new)
    BY <2>2 DEF AskExchange
  <2>3. CASE RedeemCode(s, new)
    BY <2>3 DEF RedeemCode
  <2> QED
    BY <1>1, <2>1, <2>2, <2>3
<1>2. ASSUME NEW s \in Session, RefreshRefused(s)  PROVE FALSE
  BY <1>2 DEF RefreshRefused
<1>3. \/ \E s \in Session : \/ RefreshRefused(s)
                            \/ \E new \in Token : \/ AskRefresh(s, new)
                                                  \/ AskExchange(s, new)
                                                  \/ RedeemCode(s, new)
      \/ UNCHANGED unspent
  BY ZenonT(60) DEF Next, SessionStep, ValidateCached, ValidateKnown, ValidateRefused,
         ValidateForeign, BeginRefresh, LoginPassword, InsertAndCache, CommitValidated,
         RefreshTooLate, SaveRefresh, ExchangeImpossible, BeginExchange, ExchangeRefused,
         SaveExchanged, ReplyNone, SaveLogin, IssueElsewhere, Evict, Tick, vars
<1> QED
  BY <1>1, <1>2, <1>3, AnswerLemma

LEMMA UnspentKnownLemma ==
    ASSUME IInv, UnspentKnown, [Next]_vars
    PROVE  UnspentKnown'
<1> SUFFICES ASSUME NEW t \in unspent'  PROVE ~Fresh(t)'
  BY DEF UnspentKnown
<1>1. CASE t \in unspent
  <2>1. t \in Token /\ ~Fresh(t)
    BY <1>1 DEF UnspentKnown, IInv, TypeOK
  <2> QED
    BY <2>1, MonotoneLemma DEF Monotone, Fresh
<1>2. CASE t \notin unspent
  BY <1>2, NewUnspentLemma
<1> QED
  BY <1>1, <1>2

\* The IdP has spent the refresh token by the time there is a successor to save.
LEMMA UsedIsSpentLemma ==
    ASSUME IInv, UsedIsSpent, [Next]_vars
    PROVE  UsedIsSpent'
<1> SUFFICES ASSUME NEW s \in Session, task'[s].pc = "save", task'[s].token \in unspent'
             PROVE  FALSE
  BY DEF UsedIsSpent
<1>types. task \in [Session -> Task]
  BY DEF IInv, TypeOK
<1>1. CASE task[s].pc = "save"
  <2>1. ~CommitValidated(s) /\ ~SaveRefresh(s) /\ ~SaveExchanged(s) /\ ~SaveLogin(s)
    BY <1>1, <1>types DEF CommitValidated, SaveRefresh, SaveExchanged, SaveLogin, Fails, End, Idle
  <2>2. task'[s] = task[s]
    BY <1>1, <2>1, WritersStayLemma DEF Adding, Unsaved
  <2>3. IsRow(task[s].token) /\ task[s].token \notin unspent
    BY <1>1 DEF UsedIsSpent, IInv, TasksFit, Fits, RefreshFits, Live
  <2>4. Fresh(task[s].token) /\ task[s].token \in Token
    BY <2>2, <2>3, NewUnspentLemma
  <2> QED
    BY <2>3, <2>4 DEF IInv, IssuedOK
<1>2. CASE task[s].pc # "save"
  <2>1. PICK new \in Token : AskRefresh(s, new)
    BY <1>2, SaveBeginsLemma
  <2>2. task'[s].token = task[s].token /\ unspent' = (unspent \ {task[s].token}) \cup {new}
    BY <1>types, <2>1 DEF AskRefresh, Task
  <2>3. IsRow(task[s].token) /\ task[s].token \in Token
    BY <2>1 DEF AskRefresh, IInv, TypeOK, Task, TasksFit, Fits, RefreshFits, Live
  <2>4. ~IsRow(new)
    BY <2>1 DEF AskRefresh, IInv, IssuedOK
  <2> QED
    BY <2>2, <2>3, <2>4
<1> QED
  BY <1>1, <1>2

\* A token that was fresh is on its way into the table, in it, or not Rucio's.
LEMMA IssuedIsNotMissedLemma ==
    ASSUME IInv, UnspentKnown, [Next]_vars, NEW t \in Token, Fresh(t)
    PROVE  ~Missed(t)'
<1> SUFFICES ASSUME Missed(t)'  PROVE FALSE
  OBVIOUS
<1>1. ~Fresh(t)' /\ ~BeingSaved(t)' /\ issued'[t].origin # NoToken
  BY DEF Missed
<1>2. ASSUME NEW s \in Session, AskRefresh(s, t) \/ AskExchange(s, t) \/ RedeemCode(s, t)
      PROVE  FALSE
  BY <1>1, <1>2, AnswerLemma
<1>3. ASSUME NEW s \in Session, LoginPassword(s, t)  PROVE FALSE
  <2>1. ~IsRow(t) /\ t \notin unspent
    BY DEF IInv, IssuedOK, UnspentKnown
  <2>2. PlainRow \in Row
    BY DEF PlainRow, Row
  <2>3. IsRow(t)'
    BY <1>3, <2>1, <2>2, DeletionLemma DEF LoginPassword
  <2>4. t \notin unspent'
    BY <1>3, <2>1 DEF LoginPassword
  <2> QED
    BY <2>3, <2>4 DEF Missed
<1>4. CASE IssueElsewhere(t)
  <2>1. PICK claims : issued' = [issued EXCEPT ![t] = NewIssue(claims, NoToken)]
    BY <1>4 DEF IssueElsewhere
  <2>2. issued'[t] = NewIssue(claims, NoToken)
    BY <2>1 DEF IInv, TypeOK
  <2> QED
    BY <1>1, <2>2 DEF NewIssue
<1> QED
  BY <1>1, <1>2, <1>3, <1>4, FreshLemma

\* A token being saved is in the table once its session is done with it, or a failure has
\* lost it.
LEMMA SavedLemma ==
    ASSUME IInv, [Next]_vars, NEW s \in Session, Unsaved(task[s]), NEW t,
           t = task[s].new, Missed(t)'
    PROVE  /\ faults' = faults + 1
           /\ SaveRefresh(s) \/ SaveExchanged(s) \/ SaveLogin(s)
<1>types. row \in [Token -> Row \cup {NoRow}] /\ NoRow \notin Row
  BY NamesAssumption DEF IInv, TypeOK
<1>fits. Fits(task[s]) /\ t \in Token /\ ~Fresh(t) /\ ~IsRow(t)
  BY DEF IInv, TasksFit, Fits, NewFits
<1>2. task'[s] # task[s]
  BY DEF Missed, BeingSaved, Unsaved
<1>3. SaveRefresh(s) \/ SaveExchanged(s) \/ SaveLogin(s)
  BY <1>2, WritersStayLemma DEF Adding, CommitValidated, Unsaved
<1>4. ASSUME NEW entry \in Row, row'[t] = entry, entry.refresh \/ t \notin unspent,
             UNCHANGED unspent
      PROVE  FALSE
  BY <1>4, <1>types DEF Missed, IsRow
<1>5. RowOf(t) \in Row /\ (RowOf(t).refresh \/ t \notin unspent)
  BY <1>fits, RowOfLemma DEF RowOf, RefreshableRow
<1>6. CASE SaveRefresh(s)
  <2>1. PICK entry, v : /\ entry = RefreshableRow(t, CarriedStart(s))
                        /\ v = Superseded(row[task[s].token])
    OBVIOUS
  <2>2. task[s].start \in Nat
    BY DEF IInv, TypeOK, Task
  <2>3. entry \in Row /\ entry.refresh
    BY <1>fits, <2>1, <2>2, RowOfLemma DEF CarriedStart, RefreshableRow
  <2>4. ASSUME row' = [row EXCEPT ![task[s].token] = v, ![t] = entry]  PROVE FALSE
    <3>1. row'[t] = entry
      BY <1>types, <1>fits, <2>4
    <3> QED
      BY <1>4, <1>6, <2>3, <3>1 DEF SaveRefresh
  <2>5. Fails(s)
    BY <1>6, <2>1, <2>4 DEF SaveRefresh
  <2> QED
    BY <1>6, <2>5 DEF Fails
<1>7. CASE SaveExchanged(s)
  <2>1. ASSUME row' = [row EXCEPT ![t] = RowOf(t)]  PROVE FALSE
    <3>1. row'[t] = RowOf(t)
      BY <1>types, <1>fits, <2>1
    <3> QED
      BY <1>4, <1>5, <1>7, <3>1 DEF SaveExchanged
  <2>2. Fails(s)
    BY <1>7, <2>1 DEF SaveExchanged
  <2> QED
    BY <1>7, <2>2 DEF Fails
<1>8. CASE SaveLogin(s)
  <2>1. ASSUME InsertAndDelete(t, RowOf(t), TRUE)  PROVE FALSE
    <3>1. row'[t] = RowOf(t)
      BY <1>fits, <1>5, <2>1, DeletionLemma
    <3> QED
      BY <1>4, <1>5, <1>8, <3>1 DEF SaveLogin
  <2>2. Fails(s)
    BY <1>8, <2>1 DEF SaveLogin
  <2> QED
    BY <1>8, <2>2 DEF Fails
<1> QED
  BY <1>3, <1>6, <1>7, <1>8

\* What was kept is kept: no session takes a token out of the table in its life, or takes
\* its mark to be refreshed away while its refresh token is good.
LEMMA KeptLemma ==
    ASSUME IInv, UsedIsSpent, [Next]_vars, NEW t \in Token, IsRow(t), ~Missed(t), Missed(t)'
    PROVE  FALSE
<1>1. ~Fresh(t) /\ issued'[t] = issued[t] /\ now' >= now /\ now' \in Nat
  BY MonotoneLemma DEF IInv, IssuedOK, Monotone
<1>2. now \in Nat /\ issued[t].exp \in Nat
  BY <1>1, TypesLemma DEF IInv, Issue
<1>3. issued[t].origin # NoToken /\ ~Over(t)
  BY <1>1, <1>2 DEF Missed, Over
<1>4. ~BeingSaved(t)
  BY DEF BeingSaved, IInv, TasksFit, Fits, NewFits, Unsaved
<1>5. IsRow(t)'
  BY <1>3, RowsLemma
<1>6. t \in unspent' /\ ~Live(t)'
  BY <1>5 DEF Missed, Live
<1>7. t \in unspent
  BY <1>1, <1>6, NewUnspentLemma
<1>8. Live(t)
  BY <1>1, <1>3, <1>4, <1>7 DEF Missed, Live
<1>9. PICK s \in Session : SaveRefresh(s) /\ task[s].token = t
  BY <1>3, <1>6, <1>8, RowsLemma
<1> QED
  BY <1>7, <1>9 DEF SaveRefresh, UsedIsSpent

\* A token comes to be missed only by a commit of it that fails.
LEMMA MissLemma ==
    ASSUME IInv, KeptInv, [Next]_vars, NEW t \in Token, Missed(t)', ~Missed(t)
    PROVE  /\ faults' = faults + 1
           /\ \E s \in Session : /\ task[s].new = t
                                 /\ SaveRefresh(s) \/ SaveExchanged(s) \/ SaveLogin(s)
<1>1. ~Fresh(t)
  BY IssuedIsNotMissedLemma DEF KeptInv
<1>2. ~IsRow(t)
  BY KeptLemma DEF KeptInv
<1>3. issued'[t] = issued[t] /\ now' >= now /\ now' \in Nat
  BY <1>1, MonotoneLemma DEF Monotone
<1>4. now \in Nat /\ issued[t].exp \in Nat
  BY <1>1, TypesLemma DEF IInv, Issue
<1>5. issued[t].origin # NoToken /\ ~Over(t)
  BY <1>3, <1>4 DEF Missed, Over
<1>6. PICK s \in Session : Unsaved(task[s]) /\ task[s].new = t
  BY <1>1, <1>2, <1>5 DEF Missed, BeingSaved, Unsaved
<1> QED
  BY <1>6, SavedLemma DEF KeptInv

\* One failure loses one token at most.
LEMMA KeptInductive ==
    ASSUME IInv, KeptInv, [Next]_vars
    PROVE  KeptInv'
<1>1. UnspentKnown' /\ UsedIsSpent'
  BY UnspentKnownLemma, UsedIsSpentLemma DEF KeptInv
<1>2. faults \in Nat /\ (faults' = faults \/ faults' = faults + 1)
  BY FaultsLemma, FaultAssumption DEF IInv, TypeOK
<1>3. /\ \A t \in Token : t \in MissedTokens <=> Missed(t)
      /\ \A t \in Token : t \in MissedTokens' <=> Missed(t)'
      /\ MissedTokens \subseteq Token /\ MissedTokens' \subseteq Token
  BY DEF MissedTokens, Missed
<1>4. PICK S, T : S = MissedTokens /\ T = MissedTokens'
  OBVIOUS
<1>5. IsFiniteSet(S) /\ Cardinality(S) <= faults
  BY <1>4 DEF KeptInv, KeptInLife
<1>6. CASE \A t \in T : t \in S
  <2>1. IsFiniteSet(T) /\ Cardinality(T) <= faults
    BY <1>2, <1>5, <1>6, NoGrowthLemma
  <2> QED
    BY <1>1, <1>2, <1>4, <2>1, FS_CardinalityType DEF KeptInv, KeptInLife
<1>7. ASSUME NEW t \in T, t \notin S  PROVE KeptInv'
  <2> DEFINE Saves(s) == SaveRefresh(s) \/ SaveExchanged(s) \/ SaveLogin(s)
  <2>1. ASSUME NEW u \in T, u \notin S
        PROVE  faults' = faults + 1 /\ \E s \in Session : task[s].new = u /\ Saves(s)
    BY <1>3, <1>4, <2>1, MissLemma
  <2>2. PICK s \in Session : task[s].new = t /\ Saves(s)
    BY <1>7, <2>1
  <2>3. ASSUME NEW u \in T, u \notin S  PROVE u = t
    <3>1. PICK r \in Session : task[r].new = u /\ Saves(r)
      BY <2>1, <2>3
    <3>2. s = r
      <4>1. \A q \in Session : Saves(q) =>
                task' = [task EXCEPT ![q] = Idle] /\ task[q].pc # "idle"
        BY DEF SaveRefresh, SaveExchanged, SaveLogin, Fails, End
      <4>2. task \in [Session -> Task] /\ Idle.pc = "idle"
        BY DEF IInv, TypeOK, Idle
      <4> HIDE DEF Saves
      <4> QED
        BY <2>2, <3>1, <4>1, <4>2
    <3> QED
      BY <2>2, <3>1, <3>2
  <2>4. T \subseteq S \cup {t}
    BY <2>3
  <2>5. IsFiniteSet(T) /\ Cardinality(T) <= faults + 1
    BY <1>2, <1>5, <2>4, GrowthLemma
  <2> QED
    BY <1>1, <1>4, <1>7, <2>1, <2>5 DEF KeptInv, KeptInLife
<1> QED
  BY <1>6, <1>7

\* What Rucio gets for its users by refreshes, exchanges and logins stays in the table until
\* its life is over, and the token with the good refresh token stays the one to be refreshed,
\* but for one token per failed commit: no deletion, no session that refreshes, exchanges or
\* validates at the same time takes one away (__delete_expired_tokens_account,
\* __change_refresh_state).
THEOREM RucioTokensKeptInLife == Spec => []KeptInLife
<1>1. Init => KeptInv
  <2> SUFFICES ASSUME Init  PROVE KeptInv
    OBVIOUS
  <2>1. MissedTokens = {} /\ unspent = {} /\ faults = 0
    BY DEF Init, MissedTokens, Fresh
  <2>2. UnspentKnown /\ UsedIsSpent
    BY <2>1 DEF Init, UnspentKnown, UsedIsSpent, Idle
  <2> QED
    BY <2>1, <2>2, FS_EmptySet DEF KeptInv, KeptInLife
<1>2. IInv /\ KeptInv /\ [Next]_vars => KeptInv'
  BY KeptInductive
<1>3. KeptInv => KeptInLife
  BY DEF KeptInv
<1> QED
  BY <1>1, <1>2, <1>3, Invariance, PTL DEF Spec
=============================================================================
