----------------------------- MODULE RseRegistry -----------------------------
(***************************************************************************)
(* The registry of storages, RSEs (src/patches/rucio/rse.py): the rows, the *)
(* attributes and the protocols in the database, changed by administrators, *)
(* and the cache through which everybody else looks at them.  An RSE keeps  *)
(* its name twice: in its row, and as an attribute (its tag) by which RSE   *)
(* expressions find it.                                                     *)
(*                                                                         *)
(* One VO; the calls of administrators are transactions that do not overlap *)
(* on one RSE, and they leave the tags to the registry; readers may overlap *)
(* with everything.  Left out: columns and settings without influence on    *)
(* what is found, limits, usage, quality of service.                        *)
(***************************************************************************)
EXTENDS Integers, FiniteSets

CONSTANTS
    Id, Name,
    Value,        \* of an attribute, such as audience
    Protocol,     \* the keys of protocols: scheme, hostname and port
    Reader,
    Asked,        \* sets of lookups, one of which is what the readers ask for
    Expiration,   \* of cached values, in ticks (expiration_time)
    MaxRead,      \* ticks a read takes at most
    NoRse, NoValue, Unset, NotFound

\* What can be looked up.  rse_info is two values that are cached together: the protocols,
\* and a copy of the attribute.
Query == ({"id", "tagged"} \X Name) \cup ({"name", "attribute", "protocols", "copied"} \X Id)
Info(i) == {<<"protocols", i>>, <<"copied", i>>}

ASSUME TimeAssumption == Expiration \in Nat /\ MaxRead \in Nat
ASSUME NoneAssumption ==
    NoRse \notin [name : Name, deleted : BOOLEAN, used : BOOLEAN]
ASSUME AskedAssumption == Asked \subseteq SUBSET SUBSET Query

VARIABLES
    rse,          \* the rows
    tags,         \* the names among the attributes of an RSE
    attribute,    \* another attribute
    protocols,
    cache,        \* REGION
    reading,      \* what the readers that missed the cache have found, nothing if idle
    asked

database == <<rse, tags, attribute, protocols>>
vars == <<database, cache, reading, asked>>

--------------------------------------------------------------------------------
(* Reading the database                                                    *)

Exists(i) == rse[i] # NoRse
Undeleted(i) == Exists(i) /\ ~rse[i].deleted
Named(n) == {i \in Id : Exists(i) /\ rse[i].name = n}
Tagged(n) == {i \in Id : Undeleted(i) /\ n \in tags[i]}

\* What the database answers; deleted RSEs are included but for tags and protocols.
Truth(q) ==
    CASE q[1] = "id" -> IF Named(q[2]) = {} THEN NotFound ELSE CHOOSE i \in Named(q[2]) : TRUE
      [] q[1] = "tagged" -> Tagged(q[2])
      [] q[1] = "name" -> IF Exists(q[2]) THEN rse[q[2]].name ELSE NotFound
      [] q[1] = "protocols" -> IF Undeleted(q[2]) THEN protocols[q[2]] ELSE NotFound
      [] OTHER -> attribute[q[2]]

\* A mutation: deleted RSEs are included.
MutWritable(i) == Exists(i)

\* get_rse_name without the deleted ones goes past the cache.
Writable(i) == Undeleted(i)

--------------------------------------------------------------------------------
(* The calls of administrators                                             *)

AddRse(i, n) ==
    /\ ~Exists(i) /\ Named(n) = {}
    /\ rse' = [rse EXCEPT ![i] = [name |-> n, deleted |-> FALSE, used |-> FALSE]]
    /\ tags' = [tags EXCEPT ![i] = {n}]
    /\ UNCHANGED <<attribute, protocols, cache, reading, asked>>

DelRse(i) ==
    /\ Undeleted(i) /\ ~rse[i].used
    /\ rse' = [rse EXCEPT ![i].deleted = TRUE]
    /\ tags' = [tags EXCEPT ![i] = @ \ {rse[i].name}]
    /\ UNCHANGED <<attribute, protocols, cache, reading, asked>>

RestoreRse(i) ==
    /\ Exists(i) /\ rse[i].deleted
    /\ rse' = [rse EXCEPT ![i].deleted = FALSE]
    /\ tags' = [tags EXCEPT ![i] = @ \cup {rse[i].name}]
    /\ UNCHANGED <<attribute, protocols, cache, reading, asked>>

\* A mutation: the old tag stays.
MutRetagged(i, n) == tags[i] \cup {n}
Retagged(i, n) == (tags[i] \cup {n}) \ {rse[i].name}

\* A new name: without the tag for the old one the update is rolled back.
UpdateRse(i, n) ==
    /\ Exists(i) /\ n # rse[i].name /\ Named(n) = {}
    /\ rse[i].name \in tags[i]
    /\ rse' = [rse EXCEPT ![i].name = n]
    /\ tags' = [tags EXCEPT ![i] = Retagged(i, n)]
    /\ UNCHANGED <<attribute, protocols, cache, reading, asked>>

SetAttribute(i, v) ==
    /\ Exists(i) /\ attribute[i] # v
    /\ attribute' = [attribute EXCEPT ![i] = v]
    /\ UNCHANGED <<rse, tags, protocols, cache, reading, asked>>

DelAttribute(i) ==
    /\ Exists(i) /\ attribute[i] # Unset
    /\ attribute' = [attribute EXCEPT ![i] = Unset]
    /\ UNCHANGED <<rse, tags, protocols, cache, reading, asked>>

SetProtocols(i, ps) ==
    /\ Writable(i)
    /\ protocols' = [protocols EXCEPT ![i] = ps]
    /\ UNCHANGED <<rse, tags, attribute, cache, reading, asked>>

AddProtocol(i, p) == p \notin protocols[i] /\ SetProtocols(i, protocols[i] \cup {p})

\* Some of the protocols, those of one scheme for instance.
DelProtocols(i, ps) ==
    ps # {} /\ ps \subseteq protocols[i] /\ SetProtocols(i, protocols[i] \ ps)

UpdateProtocols(i, p, new) ==
    /\ p \in protocols[i] /\ new \notin protocols[i]
    /\ SetProtocols(i, (protocols[i] \ {p}) \cup {new})

\* Files come and go (the counter of rse_is_empty).
Fill(i) ==
    /\ Undeleted(i)
    /\ rse' = [rse EXCEPT ![i].used = ~@]
    /\ UNCHANGED <<tags, attribute, protocols, cache, reading, asked>>

--------------------------------------------------------------------------------
(* Readers.  gone: for how many ticks in a row the value has not been true  *)

New(value) == [value |-> value, age |-> 0, gone |-> 0]

Idle == [q \in {} |-> NoValue]

\* The attribute in rse_info may come from the cache itself.
Found(q) ==
    IF q[1] = "copied" /\ cache[<<"attribute", q[2]>>] # NoValue
    THEN [cache[<<"attribute", q[2]>>] EXCEPT !.age = 0] ELSE New(Truth(q))

\* A mutation: what is not found is cached, too.
MutAnswerable(qs) == TRUE
Answerable(qs) == \A q \in qs : Truth(q) # NotFound

Read(r) ==
    \E qs \in asked :
        /\ reading[r] = Idle
        /\ \E q \in qs : cache[q] = NoValue
        /\ Answerable(qs)
        /\ reading' = [reading EXCEPT ![r] = [q \in qs |-> Found(q)]]
        /\ cache' = [q \in Query |->
                        IF q[1] = "attribute" /\ cache[q] = NoValue /\ <<"copied", q[2]>> \in qs
                        THEN New(Truth(q)) ELSE cache[q]]
        /\ UNCHANGED <<database, asked>>

Store(r) ==
    /\ reading[r] # Idle
    /\ cache' = [q \in Query |-> IF q \in DOMAIN reading[r]
                                 THEN [reading[r][q] EXCEPT !.age = 0] ELSE cache[q]]
    /\ reading' = [reading EXCEPT ![r] = Idle]
    /\ UNCHANGED <<database, asked>>

Older(q, e) == [e EXCEPT !.age = @ + 1, !.gone = IF e.value = Truth(q) THEN 0 ELSE @ + 1]

\* A mutation: no expiration_time.
MutExpires(e) == FALSE
Expires(e) == e.age >= Expiration

Tick ==
    /\ \A r \in Reader : \A q \in DOMAIN reading[r] : reading[r][q].age < MaxRead
    /\ reading' = [r \in Reader |-> [q \in DOMAIN reading[r] |-> Older(q, reading[r][q])]]
    /\ cache' = [q \in Query |->
                    IF cache[q] = NoValue \/ Expires(cache[q]) THEN NoValue
                    ELSE Older(q, cache[q])]
    /\ UNCHANGED <<database, asked>>

--------------------------------------------------------------------------------
Init ==
    /\ rse = [i \in Id |-> NoRse]
    /\ tags = [i \in Id |-> {}]
    /\ attribute = [i \in Id |-> Unset]
    /\ protocols = [i \in Id |-> {}]
    /\ cache = [q \in Query |-> NoValue]
    /\ reading = [r \in Reader |-> Idle]
    /\ asked \in Asked

Administrator(i) ==
    \/ \E n \in Name : AddRse(i, n) \/ UpdateRse(i, n)
    \/ DelRse(i) \/ RestoreRse(i) \/ Fill(i)
    \/ \E v \in Value : SetAttribute(i, v)
    \/ DelAttribute(i)
    \/ \E p, new \in Protocol : AddProtocol(i, p) \/ UpdateProtocols(i, p, new)
    \/ \E ps \in SUBSET Protocol : DelProtocols(i, ps)

Next ==
    \/ \E i \in Id : Administrator(i)
    \/ \E r \in Reader : Read(r) \/ Store(r)
    \/ Tick

Spec == Init /\ [][Next]_vars

--------------------------------------------------------------------------------
(* Properties                                                              *)

Answer(q) ==
    CASE q[1] = "id" -> Id
      [] q[1] = "tagged" -> SUBSET Id
      [] q[1] = "name" -> Name
      [] q[1] = "protocols" -> SUBSET Protocol
      [] OTHER -> Value \cup {Unset}

\* Types: an RSE that does not exist has nothing, cached values are of the kind asked for and
\* not past their expiration.
TypeOK ==
    /\ rse \in [Id -> [name : Name, deleted : BOOLEAN, used : BOOLEAN] \cup {NoRse}]
    /\ tags \in [Id -> SUBSET Name]
    /\ attribute \in [Id -> Value \cup {Unset}]
    /\ protocols \in [Id -> SUBSET Protocol]
    /\ \A i \in Id : ~Exists(i) => tags[i] = {} /\ attribute[i] = Unset /\ protocols[i] = {}
    /\ \A q \in Query : cache[q] # NoValue =>
          cache[q].value \in Answer(q) /\ cache[q].age \in 0..Expiration
    /\ \A r \in Reader : \A q \in DOMAIN reading[r] :
          q \in Query /\ reading[r][q].value \in Answer(q) /\ reading[r][q].age \in 0..MaxRead

\* An RSE expression that names an RSE finds the RSE of that name which is not deleted, and
\* no other: through every sequence of deletions, restorations and renamings.
NamesAgree == \A n \in Name : Tagged(n) = {i \in Named(n) : Undeleted(i)}

\* A deleted RSE is left as it was: neither does it get another name, nor do protocols come
\* or go, whatever the cache still says of it.
DeletedIsLeftAlone ==
    [][\A i \in Id : Exists(i) /\ rse[i].deleted /\ rse'[i].deleted =>
          rse'[i] = rse[i] /\ tags'[i] = tags[i] /\ protocols'[i] = protocols[i]]_vars

\* Whatever a lookup answers was true not longer ago than a value lives in the cache and a read
\* takes; the attribute within rse_info, which is cached twice, twice as long ago.
Late(q) == IF q[1] = "copied" THEN 2 * (Expiration + MaxRead) ELSE Expiration + MaxRead
AnswersAreRecent == \A q \in Query : cache[q] # NoValue => cache[q].gone <= Late(q)

===============================================================================
