-------------------------- MODULE RseRegistryProofs --------------------------
(***************************************************************************)
(* What RseRegistry promises, for any number of RSEs, names and readers and *)
(* any expiration: two inductive invariants, one of the tags and one of the *)
(* ages of what is cached, each on top of the types.                        *)
(***************************************************************************)
EXTENDS RseRegistry, TLAPS

\* The tag of an RSE is its name, and a deleted RSE has none.
TagsFit ==
    \A i \in Id : Exists(i) => tags[i] = IF rse[i].deleted THEN {} ELSE {rse[i].name}

Row == [name : Name, deleted : BOOLEAN, used : BOOLEAN]

\* The part of the types that concerns the database.
RegistryOK ==
    /\ rse \in [Id -> Row \cup {NoRse}]
    /\ tags \in [Id -> SUBSET Name]
    /\ attribute \in [Id -> Value \cup {Unset}]
    /\ protocols \in [Id -> SUBSET Protocol]
    /\ \A i \in Id : ~Exists(i) => tags[i] = {} /\ attribute[i] = Unset /\ protocols[i] = {}

\* A cached value, or one just read, is of the kind asked for and not older than it may be;
\* it has not been true for at most the time since it was read, the copied attribute for at
\* most the time since the value it was copied from was.
Slack(q) == IF q[1] = "copied" THEN Expiration + MaxRead ELSE 0
Fits(q, e, oldest, delay) ==
    /\ e = [value |-> e.value, age |-> e.age, gone |-> e.gone]
    /\ e.value \in Answer(q)
    /\ e.age \in 0..oldest
    /\ e.gone \in Nat /\ e.gone <= e.age + delay + Slack(q)

CacheFits == \A q \in Query : cache[q] # NoValue => Fits(q, cache[q], Expiration, MaxRead)
ReadersFit ==
    /\ asked \in Asked
    /\ reading = [r \in Reader |-> reading[r]]
    /\ \A r \in Reader : \A q \in DOMAIN reading[r] :
          q \in Query /\ Fits(q, reading[r][q], MaxRead, 0)

IInv == RegistryOK /\ TagsFit /\ CacheFits /\ ReadersFit

--------------------------------------------------------------------------------
\* What the database answers is of the kind asked for.
LEMMA TruthType ==
    ASSUME RegistryOK, NEW q \in Query, Truth(q) # NotFound
    PROVE  Truth(q) \in Answer(q)
<1>1. CASE q[1] = "id"
  BY <1>1 DEF Truth, Answer, Named
<1>2. CASE q[1] = "tagged"
  BY <1>2 DEF Truth, Answer, Tagged
<1>3. CASE q[1] = "name"
  BY <1>3 DEF Truth, Answer, Query, RegistryOK, Row, Exists
<1>4. CASE q[1] = "protocols"
  BY <1>4 DEF Truth, Answer, Query, RegistryOK, Row, Exists, Undeleted
<1>5. CASE q[1] \in {"attribute", "copied"}
  BY <1>5 DEF Truth, Answer, Query, RegistryOK
<1> QED
  BY <1>1, <1>2, <1>3, <1>4, <1>5 DEF Query
LEMMA InitIInv == Init => IInv
<1> SUFFICES ASSUME Init PROVE IInv
  OBVIOUS
<1>1. RegistryOK
  BY DEF Init, RegistryOK, Exists
<1>2. TagsFit
  BY DEF Init, TagsFit, Exists
<1>3. CacheFits
  BY DEF Init, CacheFits
<1>4. ReadersFit
  BY DEF Init, ReadersFit, Idle
<1> QED
  BY <1>1, <1>2, <1>3, <1>4 DEF IInv

--------------------------------------------------------------------------------
\* The fields of a row after an update of one of them.
LEMMA RowFields ==
    ASSUME NEW row \in Row
    PROVE  /\ row.name \in Name /\ row.deleted \in BOOLEAN /\ row.used \in BOOLEAN
           /\ \A n : [row EXCEPT !.name = n]
                        = [name |-> n, deleted |-> row.deleted, used |-> row.used]
           /\ \A b : [row EXCEPT !.deleted = b]
                        = [name |-> row.name, deleted |-> b, used |-> row.used]
           /\ \A b : [row EXCEPT !.used = b]
                        = [name |-> row.name, deleted |-> row.deleted, used |-> b]
  BY DEF Row

\* A row that is replaced together with its tags.
LEMMA RowStep ==
    ASSUME RegistryOK, TagsFit, NEW i \in Id, NEW row \in Row,
           rse' = [rse EXCEPT ![i] = row],
           tags' = [tags EXCEPT ![i] = IF row.deleted THEN {} ELSE {row.name}],
           UNCHANGED <<attribute, protocols>>
    PROVE  RegistryOK' /\ TagsFit'
<1>1. rse' \in [Id -> Row \cup {NoRse}] /\ rse'[i] = row
  BY DEF RegistryOK
<1>2. row.name \in Name /\ row # NoRse
  BY NoneAssumption DEF Row
<1>3. tags' \in [Id -> SUBSET Name]
  BY <1>2 DEF RegistryOK
<1>4. \A j \in Id : j # i => rse'[j] = rse[j] /\ tags'[j] = tags[j]
  BY DEF RegistryOK
<1>5. TagsFit'
  BY <1>1, <1>3, <1>4 DEF TagsFit, Exists, RegistryOK
<1> QED
  BY <1>1, <1>2, <1>3, <1>4, <1>5 DEF RegistryOK, Exists

\* The calls of administrators keep the database in order.
LEMMA AdministratorStep ==
    ASSUME RegistryOK, TagsFit, NEW i \in Id, Administrator(i)
    PROVE  RegistryOK' /\ TagsFit' /\ UNCHANGED <<cache, reading, asked>>
<1> DEFINE row == rse[i]
<1>0. Exists(i) => /\ row \in Row
                   /\ tags[i] = IF row.deleted THEN {} ELSE {row.name}
  BY DEF RegistryOK, TagsFit, Exists, Row
<1>1. CASE \E n \in Name : AddRse(i, n)
  <2> PICK n \in Name : AddRse(i, n)
    BY <1>1
  <2> DEFINE new == [name |-> n, deleted |-> FALSE, used |-> FALSE]
  <2>1. new \in Row
    BY DEF Row
  <2> QED
    BY <2>1, RowStep DEF AddRse
<1>2. CASE \E n \in Name : UpdateRse(i, n)
  <2> PICK n \in Name : UpdateRse(i, n)
    BY <1>2
  <2> DEFINE new == [name |-> n, deleted |-> row.deleted, used |-> row.used]
  <2>1. ~row.deleted /\ tags[i] = {row.name} /\ new \in Row
    BY <1>0 DEF UpdateRse, Row
  <2>2. rse' = [rse EXCEPT ![i] = new]
    BY <1>0, <2>1, RowFields DEF UpdateRse
  <2>3. tags' = [tags EXCEPT ![i] = {n}]
    BY <2>1 DEF UpdateRse, Retagged
  <2> QED
    BY <2>1, <2>2, <2>3, RowStep DEF UpdateRse
<1>3. CASE DelRse(i)
  <2> DEFINE new == [name |-> row.name, deleted |-> TRUE, used |-> row.used]
  <2>1. ~row.deleted /\ tags[i] = {row.name} /\ new \in Row
    BY <1>0, <1>3 DEF DelRse, Undeleted, Row
  <2>2. rse' = [rse EXCEPT ![i] = new]
    BY <1>0, <1>3, RowFields DEF DelRse, Undeleted
  <2>3. tags' = [tags EXCEPT ![i] = {}]
    BY <1>3, <2>1 DEF DelRse
  <2> QED
    BY <1>3, <2>1, <2>2, <2>3, RowStep DEF DelRse
<1>4. CASE RestoreRse(i)
  <2> DEFINE new == [name |-> row.name, deleted |-> FALSE, used |-> row.used]
  <2>1. tags[i] = {} /\ new \in Row
    BY <1>0, <1>4 DEF RestoreRse, Row
  <2>2. rse' = [rse EXCEPT ![i] = new]
    BY <1>0, <1>4, RowFields DEF RestoreRse
  <2>3. tags' = [tags EXCEPT ![i] = {row.name}]
    BY <1>4, <2>1 DEF RestoreRse
  <2> QED
    BY <1>4, <2>1, <2>2, <2>3, RowStep DEF RestoreRse
<1>5. CASE Fill(i)
  <2> DEFINE new == [name |-> row.name, deleted |-> row.deleted, used |-> ~row.used]
  <2>1. ~row.deleted /\ tags[i] = {row.name} /\ new \in Row
    BY <1>0, <1>5 DEF Fill, Undeleted, Row
  <2>2. rse' = [rse EXCEPT ![i] = new]
    <3>1. rse' = [rse EXCEPT ![i] = [row EXCEPT !.used = ~row.used]]
      BY <1>5, Zenon DEF Fill
    <3>2. row \in Row
      BY <1>0, <1>5 DEF Fill, Undeleted
    <3>3. [row EXCEPT !.used = ~row.used] = new
      BY <3>2, RowFields, Zenon
    <3> QED
      BY <3>1, <3>3, Zenon
  <2>3. tags' = [tags EXCEPT ![i] = {row.name}]
    BY <1>5, <2>1 DEF Fill, RegistryOK
  <2> QED
    BY <1>5, <2>1, <2>2, <2>3, RowStep DEF Fill
<1>6. CASE \E v \in Value : SetAttribute(i, v)
  BY <1>6 DEF SetAttribute, RegistryOK, TagsFit, Exists
<1>7. CASE DelAttribute(i)
  BY <1>7 DEF DelAttribute, RegistryOK, TagsFit, Exists
<1>8. ASSUME NEW ps \in SUBSET Protocol, SetProtocols(i, ps)
      PROVE  RegistryOK' /\ TagsFit' /\ UNCHANGED <<cache, reading, asked>>
  BY <1>8 DEF SetProtocols, Writable, Undeleted, RegistryOK, TagsFit, Exists
<1>9. protocols[i] \in SUBSET Protocol
  BY DEF RegistryOK
<1>10. CASE \E p, new \in Protocol : AddProtocol(i, p) \/ UpdateProtocols(i, p, new)
  BY <1>8, <1>9, <1>10 DEF AddProtocol, UpdateProtocols
<1>11. CASE \E ps \in SUBSET Protocol : DelProtocols(i, ps)
  BY <1>8, <1>9, <1>11 DEF DelProtocols
<1> QED
  BY <1>1, <1>2, <1>3, <1>4, <1>5, <1>6, <1>7, <1>10, <1>11 DEF Administrator

\* An entry that gets a tick older.
LEMMA OlderFits ==
    ASSUME NEW q \in Query, NEW e, NEW oldest \in Nat, NEW delay \in Nat,
           Fits(q, e, oldest, delay), e.age < oldest
    PROVE  Fits(q, Older(q, e), oldest, delay)
<1> DEFINE gone == IF e.value = Truth(q) THEN 0 ELSE e.gone + 1
<1>1. Older(q, e) = [value |-> e.value, age |-> e.age + 1, gone |-> gone]
  <2> DEFINE f == [value |-> e.value, age |-> e.age, gone |-> e.gone]
  <2>1. e = f /\ Older(q, e) = [f EXCEPT !.age = f.age + 1, !.gone = gone]
    BY DEF Older, Fits
  <2> QED
    BY <2>1
<1>2. e.age + 1 \in 0..oldest
  BY DEF Fits
<1>3. Slack(q) \in Nat
  BY TimeAssumption DEF Slack
<1>4. gone \in Nat /\ gone <= e.age + 1 + delay + Slack(q)
  BY <1>3 DEF Fits
<1> HIDE DEF gone
<1> QED
  BY <1>1, <1>2, <1>4 DEF Fits

\* Readers keep the cache in order, given that the database is.
LEMMA ReadStep ==
    ASSUME RegistryOK, CacheFits, ReadersFit, NEW r \in Reader, Read(r)
    PROVE  CacheFits' /\ ReadersFit'
<1> PICK qs \in asked : Read(r)!(qs)
  BY DEF Read
<1>1. qs \in SUBSET Query
  BY AskedAssumption DEF ReadersFit
<1>2. \A q \in qs : Truth(q) \in Answer(q)
  BY <1>1, TruthType DEF Answerable
<1>3. ASSUME NEW q \in Query, Truth(q) \in Answer(q)
      PROVE  Fits(q, New(Truth(q)), Expiration, MaxRead) /\ Fits(q, New(Truth(q)), MaxRead, 0)
  BY <1>3, TimeAssumption DEF Fits, New, Slack
<1>4. ASSUME NEW q \in qs PROVE Fits(q, Found(q), MaxRead, 0)
  <2>1. CASE Found(q) = New(Truth(q))
    BY <2>1, <1>1, <1>2, <1>3
  <2>2. CASE Found(q) # New(Truth(q))
    <3> DEFINE e == cache[<<"attribute", q[2]>>]
    <3>1. q[1] = "copied" /\ e # NoValue /\ Found(q) = [e EXCEPT !.age = 0]
      BY <2>2 DEF Found
    <3>2. <<"attribute", q[2]>> \in Query
      BY <1>1, <3>1 DEF Query
    <3>3. Fits(<<"attribute", q[2]>>, e, Expiration, MaxRead)
      BY <3>1, <3>2 DEF CacheFits
    <3>4. e.value \in Answer(q) /\ e.gone \in Nat /\ e.gone <= Expiration + MaxRead
      BY <3>1, <3>3, TimeAssumption DEF Fits, Answer, Slack
    <3>5. Found(q) = [value |-> e.value, age |-> 0, gone |-> e.gone]
      BY <3>1, <3>3 DEF Fits
    <3> HIDE DEF e
    <3>6. Slack(q) = Expiration + MaxRead
      BY <3>1 DEF Slack
    <3> QED
      BY <3>4, <3>5, <3>6, TimeAssumption DEF Fits
  <2> QED
    BY <2>1, <2>2
<1>5. CacheFits'
  <2> SUFFICES ASSUME NEW q \in Query, cache'[q] # NoValue
               PROVE  Fits(q, cache'[q], Expiration, MaxRead)
    BY DEF CacheFits
  <2>1. CASE cache'[q] = cache[q]
    BY <2>1 DEF CacheFits
  <2>2. CASE cache'[q] # cache[q]
    <3>1. q[1] = "attribute" /\ cache'[q] = New(Truth(q))
      BY <2>2
    <3>2. q[2] \in Id
      BY <3>1 DEF Query
    <3>3. Truth(q) \in Answer(q)
      BY <3>1, <3>2 DEF Truth, Answer, RegistryOK
    <3> QED
      BY <3>1, <3>3, <1>3
  <2> QED
    BY <2>1, <2>2
<1>6. ReadersFit'
  <2>1. reading' = [s \in Reader |-> IF s = r THEN [q \in qs |-> Found(q)] ELSE reading[s]]
    BY DEF ReadersFit
  <2> QED
    BY <1>1, <1>4, <2>1 DEF ReadersFit
<1> QED
  BY <1>5, <1>6

LEMMA StoreStep ==
    ASSUME CacheFits, ReadersFit, NEW r \in Reader, Store(r)
    PROVE  CacheFits' /\ ReadersFit'
<1>1. CacheFits'
  <2> SUFFICES ASSUME NEW q \in Query, cache'[q] # NoValue
               PROVE  Fits(q, cache'[q], Expiration, MaxRead)
    BY DEF CacheFits
  <2>1. CASE q \notin DOMAIN reading[r]
    BY <2>1 DEF Store, CacheFits
  <2>2. CASE q \in DOMAIN reading[r]
    <3> DEFINE e == reading[r][q]
    <3>1. Fits(q, e, MaxRead, 0)
      BY <2>2 DEF ReadersFit
    <3>2. cache'[q] = [value |-> e.value, age |-> 0, gone |-> e.gone]
      BY <2>2, <3>1 DEF Store, Fits
    <3> HIDE DEF e
    <3> QED
      BY <3>1, <3>2, TimeAssumption DEF Fits, Slack
  <2> QED
    BY <2>1, <2>2
<1>2. ReadersFit'
  <2>1. reading' = [s \in Reader |-> IF s = r THEN Idle ELSE reading[s]]
    BY DEF ReadersFit, Store
  <2> QED
    BY <2>1 DEF ReadersFit, Store, Idle
<1> QED
  BY <1>1, <1>2

LEMMA TickStep ==
    ASSUME CacheFits, ReadersFit, Tick
    PROVE  CacheFits' /\ ReadersFit'
<1>1. CacheFits'
  <2> SUFFICES ASSUME NEW q \in Query, cache'[q] # NoValue
               PROVE  Fits(q, cache'[q], Expiration, MaxRead)
    BY DEF CacheFits
  <2>1. cache[q] # NoValue /\ ~Expires(cache[q]) /\ cache'[q] = Older(q, cache[q])
    BY DEF Tick
  <2>2. Fits(q, cache[q], Expiration, MaxRead) /\ cache[q].age < Expiration
    BY <2>1, TimeAssumption DEF CacheFits, Expires, Fits
  <2> QED
    BY <2>1, <2>2, OlderFits, TimeAssumption
<1>2. ReadersFit'
  <2>1. \A r \in Reader : reading'[r] = [q \in DOMAIN reading[r] |-> Older(q, reading[r][q])]
    BY DEF Tick
  <2>2. ASSUME NEW r \in Reader, NEW q \in DOMAIN reading'[r]
        PROVE  q \in Query /\ Fits(q, reading'[r][q], MaxRead, 0)
    <3>1. q \in DOMAIN reading[r] /\ reading'[r][q] = Older(q, reading[r][q])
      BY <2>1, <2>2
    <3>2. q \in Query /\ Fits(q, reading[r][q], MaxRead, 0) /\ reading[r][q].age < MaxRead
      BY <3>1 DEF ReadersFit, Tick
    <3> QED
      BY <3>1, <3>2, OlderFits, TimeAssumption
  <2> QED
    BY <2>2 DEF ReadersFit, Tick
<1> QED
  BY <1>1, <1>2

LEMMA NextIInv == IInv /\ [Next]_vars => IInv'
<1> SUFFICES ASSUME IInv, [Next]_vars PROVE IInv'
  OBVIOUS
<1> USE DEF IInv
<1>1. CASE \E i \in Id : Administrator(i)
  <2>1. RegistryOK' /\ TagsFit' /\ UNCHANGED <<cache, reading, asked>>
    BY <1>1, AdministratorStep
  <2> QED
    BY <2>1 DEF CacheFits, ReadersFit
<1>2. ASSUME UNCHANGED database PROVE RegistryOK' /\ TagsFit'
  BY <1>2 DEF database, RegistryOK, TagsFit, Exists
<1>3. CASE \E r \in Reader : Read(r)
  BY <1>2, <1>3, ReadStep DEF Read
<1>4. CASE \E r \in Reader : Store(r)
  BY <1>2, <1>4, StoreStep DEF Store
<1>5. CASE Tick
  BY <1>2, <1>5, TickStep DEF Tick
<1>6. CASE UNCHANGED vars
  BY <1>2, <1>6 DEF vars, database, CacheFits, ReadersFit
<1> QED
  BY <1>1, <1>3, <1>4, <1>5, <1>6 DEF Next

LEMMA SpecIInv == Spec => []IInv
  BY InitIInv, NextIInv, PTL DEF Spec

--------------------------------------------------------------------------------
\* The state of the registry, the cache and the readers is always of its type.
THEOREM TypeCorrect == Spec => []TypeOK
<1>1. IInv => TypeOK
  BY DEF IInv, RegistryOK, Row, CacheFits, ReadersFit, Fits, TypeOK
<1> QED
  BY <1>1, SpecIInv, PTL

\* An RSE expression that names an RSE finds the live RSE of that name and no other.
THEOREM NamesAlwaysAgree == Spec => []NamesAgree
<1>1. IInv => NamesAgree
  BY DEF IInv, RegistryOK, TagsFit, NamesAgree, Tagged, Named, Undeleted, Exists
<1> QED
  BY <1>1, SpecIInv, PTL

\* A deleted RSE gets no other name, no tag and no other protocols until it is restored.
THEOREM DeletedStays == Spec => DeletedIsLeftAlone
<1> DEFINE Alone(i) ==
       Exists(i) /\ rse[i].deleted /\ rse'[i].deleted =>
           rse'[i] = rse[i] /\ tags'[i] = tags[i] /\ protocols'[i] = protocols[i]
<1>1. ASSUME IInv, [Next]_vars, NEW i \in Id PROVE Alone(i)
  <2>1. CASE UNCHANGED database
    BY <2>1 DEF database
  <2>2. ASSUME NEW j \in Id, Administrator(j) PROVE Alone(i)
    <3> SUFFICES ASSUME Exists(i), rse[i].deleted, rse'[i].deleted
                 PROVE  rse'[i] = rse[i] /\ tags'[i] = tags[i] /\ protocols'[i] = protocols[i]
      OBVIOUS
    <3>1. rse[i] \in Row /\ tags[i] = {}
      BY <1>1 DEF IInv, RegistryOK, TagsFit, Exists
    <3>2. CASE \E n \in Name : AddRse(j, n) \/ UpdateRse(j, n)
      BY <1>1, <3>1, <3>2 DEF AddRse, UpdateRse, IInv, RegistryOK, Exists
    <3>3. CASE DelRse(j) \/ RestoreRse(j) \/ Fill(j)
      BY <1>1, <3>1, <3>3 DEF DelRse, RestoreRse, Fill, Undeleted, IInv, RegistryOK, Exists, Row
    <3>4. CASE (\E v \in Value : SetAttribute(j, v)) \/ DelAttribute(j)
      BY <3>4 DEF SetAttribute, DelAttribute
    <3>5. ASSUME NEW ps, SetProtocols(j, ps) PROVE j # i /\ UNCHANGED <<rse, tags>>
      BY <3>5 DEF SetProtocols, Writable, Undeleted
    <3>6. CASE \E p, new \in Protocol : AddProtocol(j, p) \/ UpdateProtocols(j, p, new)
      BY <1>1, <3>5, <3>6 DEF AddProtocol, UpdateProtocols, SetProtocols, IInv, RegistryOK
    <3>7. CASE \E ps \in SUBSET Protocol : DelProtocols(j, ps)
      BY <1>1, <3>5, <3>7 DEF DelProtocols, SetProtocols, IInv, RegistryOK
    <3> QED
      BY <2>2, <3>2, <3>3, <3>4, <3>6, <3>7 DEF Administrator
  <2>3. CASE (\E r \in Reader : Read(r) \/ Store(r)) \/ Tick
    BY <2>1, <2>3 DEF Read, Store, Tick
  <2> QED
    BY <1>1, <2>1, <2>2, <2>3 DEF Next, vars, database
<1>2. IInv /\ [Next]_vars => [\A i \in Id : Alone(i)]_vars
  BY <1>1
<1> QED
  BY <1>2, SpecIInv, PTL DEF Spec, DeletedIsLeftAlone

\* Answers are never older than a value lives in the cache and a read takes, and the attribute
\* within rse_info than twice that.
THEOREM AnswersAlwaysRecent == Spec => []AnswersAreRecent
<1>1. ASSUME IInv, NEW q \in Query, cache[q] # NoValue PROVE cache[q].gone <= Late(q)
  <2>1. Fits(q, cache[q], Expiration, MaxRead)
    BY <1>1 DEF IInv, CacheFits
  <2>2. Late(q) = Expiration + MaxRead + Slack(q) /\ Slack(q) \in Nat
    BY TimeAssumption DEF Late, Slack
  <2> QED
    BY <2>1, <2>2, TimeAssumption DEF Fits
<1>2. IInv => AnswersAreRecent
  BY <1>1 DEF AnswersAreRecent
<1> QED
  BY <1>2, SpecIInv, PTL

===============================================================================
