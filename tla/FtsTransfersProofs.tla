-------------------------- MODULE FtsTransfersProofs --------------------------
(***************************************************************************)
(* Proofs about FtsTransfers for all transfers, configurations, numbers of *)
(* attempts and failures.                                                  *)
(***************************************************************************)
EXTENDS FtsTransfers, FtsJobProofs

--------------------------------------------------------------------------------
(* Submissions and jobs.                                                   *)

Posted(sid) == post[sid] # NoPost
HasJob(sid) == job[sid] # NoJob

\* Parameters as Rucio makes them.
ParamsOK(params) ==
    /\ {params.multihop, params.multiSources, params.overwrite, params.overwriteHop,
        params.onlyOnDisk, params.report} \subseteq BOOLEAN
    /\ params.archive \in Nat
    /\ params.overwriteHop => params.multihop
    /\ FlagsRefused(params) => params.onlyOnDisk /\ (params.overwrite \/ params.archive = 0)

\* A job is a path of several hops, one file with several sources, or files of one source each.
KindOK(sub) ==
    \/ sub.params.multihop /\ ~sub.params.multiSources
    \/ /\ ~sub.params.multihop /\ sub.params.multiSources
       /\ Len(sub.files) = 1 /\ Len(sub.files[1].sources) > 1
    \/ /\ ~sub.params.multihop /\ ~sub.params.multiSources
       /\ \A i \in DOMAIN sub.files : Len(sub.files[i].sources) = 1

\* With a token for FTS a file brings one for its destination and each of its sources, but
\* for those that take keys.
TokensOK(sub, file) ==
    /\ file.srcTokens = IF sub.oauth2
                        THEN Cardinality({i \in DOMAIN file.sources : file.sources[i].scheme # "s3s"})
                        ELSE 0
    /\ file.dstTokens = IF sub.oauth2 /\ file.dst.scheme # "s3s" THEN 1 ELSE 0

SubOK(sub) ==
    /\ sub.oauth2 \in BOOLEAN
    /\ sub.files \in Seq(SubFile) /\ sub.files # <<>>
    /\ ParamsOK(sub.params)
    /\ KindOK(sub)
    /\ \A i \in DOMAIN sub.files :
          LET file == sub.files[i]
          IN /\ \E p \in DOMAIN setup.paths : \E k \in DOMAIN setup.paths[p] :
                   /\ file.id[1] = setup.paths[p][k].id
                   /\ file.sources = setup.paths[p][k].sources
             /\ TokensOK(sub, file)
             /\ sub.params.multihop /\ IsTape(file.id[1]) => i = Len(sub.files)
             /\ \A k \in DOMAIN sub.files : sub.files[k].id[1] = file.id[1] => k = i

\* What Rucio keeps of a submission.
PostOf(sub) == [sub : {sub}, status : {"sent", "made", "refused", "dropped"},
                open : BOOLEAN, known : BOOLEAN, adrift : BOOLEAN]

PostOK(sid) ==
    /\ post[sid] \in PostOf(post[sid].sub)
    /\ post[sid].open => ~post[sid].adrift
    /\ SubOK(post[sid].sub)
    /\ sid = post[sid].sub.files[1].id

\* The hops of a path are begun one after the other, the replicas of a file one at a time.
FilesInTurn(j) ==
    /\ j.type = "H" => \A i \in DOMAIN j.files : i + 1 \in DOMAIN j.files =>
          (j.files[i].state # "FINISHED" => j.files[i + 1].state = "NOT_USED")
    /\ j.type = "R" => \A i, k \in DOMAIN j.files :
          j.files[i].state \in Active \cup {"FINISHED"} /\ j.files[k].state \in Active => i = k

JobOK(sid) ==
    /\ job[sid] \in Job
    /\ Posted(sid) /\ post[sid].status = "made"
    /\ FilesInTurn(job[sid])
    /\ job[sid].multi <=> job[sid].type = "R"
    /\ job[sid].type = "H" => post[sid].sub.params.multihop
    /\ job[sid].flag = OverwriteFlag(post[sid].sub.params)
    /\ job[sid].flag \in {"M", "Q"} => job[sid].type = "H"
    /\ job[sid].type = "R" => /\ \A i \in DOMAIN job[sid].files : job[sid].files[i].id = sid
                              /\ Len(post[sid].sub.files[1].sources) > 1
    /\ job[sid].type # "R" => /\ Len(job[sid].files) = Len(post[sid].sub.files)
                              /\ \A i \in DOMAIN job[sid].files :
                                    job[sid].files[i].id = post[sid].sub.files[i].id

\* A request is submitted once, and under one job.
IdsApart ==
    /\ \A sid \in Request : Posted(sid) =>
          \A id \in Ids(sid) : /\ id[2] <= row[id[1]].n
                               /\ id = CurrentId(id[1]) => row[id[1]].state # "QUEUED"
    /\ \A sid, other \in Request :
          Posted(sid) /\ Posted(other) /\ Ids(sid) \cap Ids(other) # {} => sid = other

\* The requests of a path are tried together.
PathsInStep ==
    \A p \in DOMAIN setup.paths : \A i, k \in DOMAIN Served(p) :
        row[Served(p)[i].id].n = row[Served(p)[k].id].n

\* A job may overwrite a tape that does not allow it only after a corrupted destination.
FlagsFit ==
    \A sid \in Request : Posted(sid) =>
        \A id \in Ids(sid) : IsTape(id[1]) /\ ~AllowsOverwrite(id[1])
                             /\ post[sid].sub.params.overwrite => row[id[1]].overwrite = "yes"

IInv ==
    /\ setup \in Setups
    /\ row \in [Transfer -> Row]
    /\ dest \in [Transfer -> Copy]
    /\ faults \in 0..setup.maxFaults
    /\ DOMAIN post = Request
    /\ job \in [Request -> Job \cup {NoJob}]
    /\ poll \in [Request -> Poll \cup {NoPoll}]
    /\ \A sid \in Request : Posted(sid) => PostOK(sid)
    /\ \A sid \in Request : HasJob(sid) => JobOK(sid)
    /\ IdsApart
    /\ PathsInStep
    /\ FlagsFit

--------------------------------------------------------------------------------
(* Facts about the paths.                                                  *)

LEMMA PathLemma ==
    ASSUME setup \in Setups
    PROVE  /\ IsFiniteSet(DOMAIN setup.paths) /\ DOMAIN setup.paths \subseteq Nat
           /\ \A p \in DOMAIN setup.paths :
                 /\ setup.paths[p] \in Seq(Hop)
                 /\ \A i \in 1..(Len(setup.paths[p]) - 1) : ~setup.paths[p][i].dst.rse.tape
           /\ \A p, q \in DOMAIN setup.paths :
                 \A i \in DOMAIN setup.paths[p], k \in DOMAIN setup.paths[q] :
                    setup.paths[p][i].id = setup.paths[q][k].id => p = q /\ i = k
           /\ setup.tool.bulk \in Nat \ {0}
           /\ setup.tool.archiveOverride \in Nat \cup {NoOverride}
           /\ setup.held \subseteq Copy /\ setup.maxFaults \in Nat
<1>1. /\ setup.paths \in Seq(Seq(Hop) \ {<<>>})
      /\ setup.tool.bulk \in Nat \ {0}
      /\ setup.tool.archiveOverride \in Nat \cup {NoOverride}
      /\ setup.held \subseteq Copy /\ setup.maxFaults \in Nat
  BY SetupAssumption
<1>2. \A p, q \in DOMAIN setup.paths : \A i \in DOMAIN setup.paths[p], k \in DOMAIN setup.paths[q] :
          setup.paths[p][i].id = setup.paths[q][k].id => p = q /\ i = k
  BY SetupAssumption
<1>3. \A p \in DOMAIN setup.paths : \A i \in 1..(Len(setup.paths[p]) - 1) : ~setup.paths[p][i].dst.rse.tape
  BY SetupAssumption
<1>4. /\ IsFiniteSet(DOMAIN setup.paths) /\ DOMAIN setup.paths \subseteq Nat
      /\ \A p \in DOMAIN setup.paths : setup.paths[p] \in Seq(Hop)
  <2>1. DOMAIN setup.paths = 1..Len(setup.paths) /\ Len(setup.paths) \in Nat
    BY <1>1
  <2>2. IsFiniteSet(1..Len(setup.paths))
    BY <2>1, FS_Interval
  <2>3. \A p \in DOMAIN setup.paths : setup.paths[p] \in Seq(Hop)
    BY <1>1
  <2> QED
    BY <2>1, <2>2, <2>3
<1>5. \A p \in DOMAIN setup.paths :
          /\ setup.paths[p] \in Seq(Hop)
          /\ \A i \in 1..(Len(setup.paths[p]) - 1) : ~setup.paths[p][i].dst.rse.tape
  BY ONLY <1>3, <1>4, Zenon
<1> QED
  BY ONLY <1>1, <1>2, <1>4, <1>5, Zenon

LEMMA ServedLemma ==
    ASSUME setup \in Setups, NEW p \in DOMAIN setup.paths
    PROVE  /\ Served(p) \in Seq(Hop)
           /\ Len(Served(p)) \in 0..Len(setup.paths[p])
           /\ DOMAIN Served(p) = 1..Len(Served(p))
           /\ DOMAIN Served(p) \subseteq DOMAIN setup.paths[p]
           /\ \A i \in DOMAIN Served(p) : /\ Served(p)[i] = setup.paths[p][i]
                                          /\ Served(p)[i] \in Hop
                                          /\ Served(p)[i] \in Hops
<1>1. setup.paths[p] \in Seq(Hop)
  BY PathLemma
<1>2. PICK n \in 0..Len(setup.paths[p]) :
         /\ Served(p) \in Seq(Hop)
         /\ Len(Served(p)) = n
         /\ \A i \in 1..n : Served(p)[i] = setup.paths[p][i]
  BY <1>1, SubmittableLemma DEF Served
<1>3. DOMAIN Served(p) = 1..n /\ DOMAIN setup.paths[p] = 1..Len(setup.paths[p])
  BY <1>1, <1>2
<1>4. n <= Len(setup.paths[p]) /\ Len(setup.paths[p]) \in Nat
  BY <1>1
<1>5. \A i \in DOMAIN Served(p) : Served(p)[i] \in Hop
  BY <1>2
<1>6. \A i \in DOMAIN Served(p) : Served(p)[i] \in Hops
  BY DEF Hops, ToSet
<1> QED
  BY <1>2, <1>3, <1>4, <1>5, <1>6

\* A transfer is one hop.
LEMMA HopLemma ==
    ASSUME setup \in Setups, NEW p \in DOMAIN setup.paths, NEW i \in DOMAIN Served(p)
    PROVE  LET hop == Served(p)[i]
           IN /\ IsTape(hop.id) <=> hop.dst.rse.tape
              /\ AllowsOverwrite(hop.id) <=> hop.dst.rse.ow
<1> DEFINE hop == Served(p)[i]
<1>1. hop \in Hops
  BY ServedLemma
<1>2. ASSUME NEW other \in Hops, other.id = hop.id  PROVE other = hop
  <2>1. PICK q \in DOMAIN setup.paths : other \in ToSet(Served(q))
    BY DEF Hops
  <2>2. PICK k \in DOMAIN Served(q) : other = Served(q)[k]
    BY <2>1 DEF ToSet
  <2>3. /\ k \in DOMAIN setup.paths[q] /\ other = setup.paths[q][k]
        /\ i \in DOMAIN setup.paths[p] /\ hop = setup.paths[p][i]
    BY <2>2, ServedLemma
  <2>4. p = q /\ i = k
    BY <1>2, <2>3, PathLemma
  <2> QED
    BY <2>2, <2>4
<1> QED
  BY <1>1, <1>2 DEF IsTape, AllowsOverwrite

\* A hop with the data of its request.
CurrentHop == [id : Request, sources : Seq(Endpoint) \ {<<>>}, dst : Endpoint,
               overwrite : {"unset", "yes", "no"}, priority : Nat, lifetime : Nat,
               activity : STRING, rule : STRING, values : SUBSET ChecksumName]

LEMMA CurrentLemma ==
    ASSUME setup \in Setups, row \in [Transfer -> Row], NEW p \in DOMAIN setup.paths
    PROVE  LET c == Current(Served(p))
           IN /\ c \in Seq(CurrentHop) /\ Len(c) = Len(Served(p))
              /\ DOMAIN c = DOMAIN Served(p)
              /\ \A i \in DOMAIN Served(p) :
                    /\ c[i] \in CurrentHop
                    /\ Served(p)[i].id \in Transfer
                    /\ c[i].id = CurrentId(Served(p)[i].id)
                    /\ c[i].sources = Served(p)[i].sources
                    /\ c[i].dst = Served(p)[i].dst
                    /\ c[i].overwrite = row[Served(p)[i].id].overwrite
<1> DEFINE s == Served(p)
           c == Current(s)
<1>1. s \in Seq(Hop) /\ DOMAIN s = 1..Len(s) /\ Len(s) \in Nat
  BY ServedLemma
<1>2. c = [i \in DOMAIN s |-> [s[i] EXCEPT !.id = CurrentId(@), !.overwrite = row[s[i].id].overwrite]]
  BY DEF Current
<1>. HIDE DEF s, c
<1>3. ASSUME NEW i \in DOMAIN s
      PROVE  /\ c[i] \in CurrentHop
             /\ s[i].id \in Transfer
             /\ c[i].id = CurrentId(s[i].id)
             /\ c[i].sources = s[i].sources
             /\ c[i].dst = s[i].dst
             /\ c[i].overwrite = row[s[i].id].overwrite
  <2>1. s[i] \in Hop
    BY <1>1
  <2>2. s[i].id \in Transfer
    BY <2>1 DEF Hop
  <2>3. row[s[i].id] \in Row /\ CurrentId(s[i].id) \in Request
    BY <2>2 DEF Row, CurrentId, Request
  <2>4. c[i] = [s[i] EXCEPT !.id = CurrentId(s[i].id), !.overwrite = row[s[i].id].overwrite]
    BY <1>2
  <2>5. /\ c[i].id = CurrentId(s[i].id) /\ c[i].sources = s[i].sources /\ c[i].dst = s[i].dst
        /\ c[i].overwrite = row[s[i].id].overwrite
    BY <2>1, <2>4 DEF Hop
  <2>6. row[s[i].id].overwrite \in {"unset", "yes", "no"}
    BY <2>3 DEF Row
  <2>7. c[i] \in CurrentHop
    BY <2>1, <2>3, <2>4, <2>6 DEF Hop, CurrentHop
  <2> QED
    BY <2>2, <2>5, <2>7
<1>4. DOMAIN c = 1..Len(s) /\ c \in [1..Len(s) -> CurrentHop]
  BY <1>1, <1>2, <1>3
<1>5. c \in Seq(CurrentHop) /\ Len(c) = Len(s)
  BY <1>1, <1>4, ToSeq
<1> QED
  BY <1>1, <1>3, <1>4, <1>5 DEF s, c

--------------------------------------------------------------------------------
(* Facts about submissions.                                                *)

LEMMA ParamsLemma ==
    ASSUME NEW path \in Seq(CurrentHop), path # <<>>,
           NEW tool, tool.archiveOverride \in Nat \cup {NoOverride}
    PROVE  /\ ParamsOK(JobParams(path, tool))
           /\ JobParams(path, tool).multihop <=> Len(path) > 1
           /\ JobParams(path, tool).multiSources <=> Len(path) = 1 /\ Len(LastHop(path).sources) > 1
           /\ JobParams(path, tool).overwrite => OverwritableBy(LastHop(path))
<1> DEFINE params == JobParams(path, tool)
           last == LastHop(path)
           dst == last.dst.rse
<1>1. /\ last \in CurrentHop /\ last.dst \in Endpoint /\ dst \in Rse
      /\ Len(path) \in Nat /\ Len(last.sources) \in Nat
  <2>1. Len(path) \in Nat /\ Len(path) \in DOMAIN path
    OBVIOUS
  <2>2. last \in CurrentHop
    BY <2>1 DEF LastHop
  <2>3. last.dst \in Endpoint /\ last.sources \in Seq(Endpoint)
    BY <2>2 DEF CurrentHop
  <2> QED
    BY <2>1, <2>2, <2>3 DEF Endpoint
<1>2. dst.tape \in BOOLEAN /\ dst.owOnDisk \in BOOLEAN /\ dst.archive \in Nat
  BY <1>1 DEF Rse
<1>3. /\ params.multihop = (Len(path) > 1)
      /\ params.multiSources = (Len(path) = 1 /\ Len(last.sources) > 1)
      /\ params.onlyOnDisk = OnlyOnDisk(dst)
      /\ params.overwrite = (OverwritableBy(last) /\ (Len(path) > 1 => HopsOverwritable(path)))
      /\ params.overwriteHop = (HopsOverwritable(path) /\ ~params.overwrite)
      /\ params.report = (dst.tape /\ dst.archive > 0)
      /\ params.archive = CASE ~(dst.tape /\ dst.archive > 0) -> 0
                           [] dst.tape /\ dst.archive > 0 /\ tool.archiveOverride = NoOverride -> dst.archive
                           [] OTHER -> tool.archiveOverride
  BY DEF JobParams
<1>4. FlagsRefused(params) => OnlyOnDisk(dst) /\ (params.overwrite \/ params.archive <= 0)
  BY FlagsRefusedForCause
<1>. HIDE DEF params, last
<1>5. /\ OnlyOnDisk(dst) \in BOOLEAN /\ OverwritableBy(last) \in BOOLEAN
      /\ HopsOverwritable(path) \in BOOLEAN
  BY <1>2 DEF OnlyOnDisk, OverwritableBy, HopsOverwritable
<1>6. /\ params.multihop \in BOOLEAN /\ params.multiSources \in BOOLEAN
      /\ params.overwrite \in BOOLEAN /\ params.overwriteHop \in BOOLEAN
      /\ params.onlyOnDisk \in BOOLEAN /\ params.report \in BOOLEAN
  <2>1. (Len(path) > 1) \in BOOLEAN /\ (Len(path) = 1 /\ Len(last.sources) > 1) \in BOOLEAN
        /\ (dst.tape /\ dst.archive > 0) \in BOOLEAN
    OBVIOUS
  <2> QED
    BY <1>3, <1>5, <2>1
<1>7. params.archive \in Nat
  BY <1>2, <1>3 DEF NoOverride
<1>8. params.overwriteHop => params.multihop
  BY <1>3, <1>6 DEF HopsOverwritable
<1>9. params.overwrite => OverwritableBy(last)
  BY <1>3
<1>10. FlagsRefused(params) => params.onlyOnDisk /\ (params.overwrite \/ params.archive = 0)
  BY <1>3, <1>4, <1>7
<1>11. ParamsOK(params)
  BY <1>6, <1>7, <1>8, <1>10 DEF ParamsOK
<1> QED
  BY <1>3, <1>9, <1>11 DEF params, last

\* The files of a submission are the hops of its job.
LEMMA FilesLemma ==
    ASSUME NEW j, NEW m \in Nat \ {0}, j.transfers \in Seq(CurrentHop), Len(j.transfers) = m,
           NEW token \in BOOLEAN, NEW sub \in Submissions(j, token)
    PROVE  /\ sub.params = j.params /\ sub.oauth2 = token
           /\ sub.files \in Seq(SubFile) /\ Len(sub.files) = m /\ DOMAIN sub.files = 1..m
           /\ \A i \in 1..m : /\ sub.files[i].id = j.transfers[i].id
                              /\ sub.files[i].sources = j.transfers[i].sources
                              /\ sub.files[i].dst = j.transfers[i].dst
                              /\ TokensOK(sub, sub.files[i])
<1> DEFINE checksum == [DOMAIN j.transfers -> ChecksumName \cup {NoChecksum}]
           made(c) == [params |-> j.params, oauth2 |-> token,
                       files |-> [i \in DOMAIN j.transfers |-> FileOf(j.transfers[i], c[i], token)]]
<1>1. PICK c \in checksum : sub = made(c)
  BY DEF Submissions
<1>2. /\ DOMAIN j.transfers = 1..m /\ \A i \in 1..m : j.transfers[i] \in CurrentHop
      /\ \A i \in 1..m : c[i] \in ChecksumName \cup {NoChecksum}
  BY <1>1
<1>3. /\ sub.params = j.params /\ sub.oauth2 = token
      /\ sub.files = [i \in 1..m |-> FileOf(j.transfers[i], c[i], token)]
  BY <1>1, <1>2
<1>. HIDE DEF made, checksum
<1>4. ASSUME NEW i \in 1..m
      PROVE  /\ sub.files[i] \in SubFile
             /\ sub.files[i].id = j.transfers[i].id
             /\ sub.files[i].sources = j.transfers[i].sources
             /\ sub.files[i].dst = j.transfers[i].dst
             /\ TokensOK(sub, sub.files[i])
  <2> DEFINE file == sub.files[i]
             hop == j.transfers[i]
             plain == {k \in DOMAIN hop.sources : hop.sources[k].scheme # "s3s"}
  <2>1. /\ file.id = hop.id /\ file.sources = hop.sources /\ file.dst = hop.dst
        /\ file.checksum = c[i]
        /\ file.srcTokens = IF token THEN Cardinality(plain) ELSE 0
        /\ file.dstTokens = IF token /\ hop.dst.scheme # "s3s" THEN 1 ELSE 0
        /\ file = [id |-> hop.id, sources |-> hop.sources, dst |-> hop.dst, checksum |-> c[i],
                   srcTokens |-> file.srcTokens, dstTokens |-> file.dstTokens]
    <3>1. file = FileOf(hop, c[i], token)
      BY <1>3
    <3>. HIDE DEF file, hop
    <3> QED
      BY ONLY <3>1 DEF FileOf
  <2>2. hop \in CurrentHop
    BY <1>2
  <2>3. Cardinality(plain) \in Nat
    <3>1. hop.sources \in Seq(Endpoint)
      BY <2>2 DEF CurrentHop
    <3>2. /\ DOMAIN hop.sources = 1..Len(hop.sources)
          /\ 1 \in Int /\ Len(hop.sources) \in Int
      BY <3>1
    <3>3. IsFiniteSet(DOMAIN hop.sources)
      BY <3>2, FS_Interval
    <3>4. IsFiniteSet(plain)
      BY <3>3, FS_Subset
    <3> QED
      BY <3>4, FS_CardinalityType
  <2>4. file.srcTokens \in Nat /\ file.dstTokens \in Nat
    <3>. HIDE DEF file, hop, plain
    <3> QED
      BY ONLY <2>1, <2>3
  <2>5. TokensOK(sub, file)
    <3>1. {k \in DOMAIN file.sources : file.sources[k].scheme # "s3s"} = plain
      BY <2>1
    <3>. HIDE DEF file, hop, plain
    <3> QED
      BY <1>3, <2>1, <3>1 DEF TokensOK
  <2>6. c[i] \in ChecksumName \cup {NoChecksum}
    BY <1>2
  <2>. HIDE DEF file, hop, plain
  <2>7. file \in SubFile
    BY <2>1, <2>2, <2>4, <2>6 DEF SubFile, CurrentHop
  <2> QED
    BY <2>1, <2>5, <2>7 DEF file, hop
<1>5. sub.files \in Seq(SubFile) /\ Len(sub.files) = m /\ DOMAIN sub.files = 1..m
  <2>1. sub.files \in [1..m -> SubFile]
    BY <1>3, <1>4
  <2> QED
    BY <2>1, ToSeq
<1> QED
  BY <1>3, <1>4, <1>5

\* The transfers of a job of Rucio are current requests of the chosen paths, each once.
JobFits(j, chosen) ==
    /\ j.transfers \in Seq(CurrentHop) /\ j.transfers # <<>>
    /\ ParamsOK(j.params)
    /\ \/ j.params.multihop /\ ~j.params.multiSources
       \/ /\ ~j.params.multihop /\ j.params.multiSources
          /\ Len(j.transfers) = 1 /\ Len(j.transfers[1].sources) > 1
       \/ /\ ~j.params.multihop /\ ~j.params.multiSources
          /\ \A i \in DOMAIN j.transfers : Len(j.transfers[i].sources) = 1
    /\ \A i \in DOMAIN j.transfers :
          LET hop == j.transfers[i]
              t == hop.id[1]
          IN /\ \E p \in chosen : \E k \in DOMAIN Served(p) :
                   /\ t = Served(p)[k].id /\ hop.sources = Served(p)[k].sources
             /\ hop.id = CurrentId(t)
             /\ j.params.multihop /\ IsTape(t) => i = Len(j.transfers)
             /\ IsTape(t) /\ ~AllowsOverwrite(t) /\ j.params.overwrite => row[t].overwrite = "yes"
             /\ \A k \in DOMAIN j.transfers : j.transfers[k].id[1] = t => k = i

\* What JobFits asks of one transfer.
LEMMA HopFits ==
    ASSUME setup \in Setups, row \in [Transfer -> Row],
           NEW p \in DOMAIN setup.paths, NEW k \in DOMAIN Served(p),
           NEW hop, hop = Current(Served(p))[k]
    PROVE  LET t == hop.id[1]
           IN /\ hop \in CurrentHop
              /\ t = Served(p)[k].id /\ hop.sources = Served(p)[k].sources
              /\ hop.id = CurrentId(t)
              /\ IsTape(t) => k = Len(setup.paths[p])
              /\ IsTape(t) /\ ~AllowsOverwrite(t) /\ OverwritableBy(hop) => row[t].overwrite = "yes"
<1> DEFINE t == Served(p)[k].id
<1>1. /\ hop \in CurrentHop /\ hop.id = CurrentId(t) /\ hop.sources = Served(p)[k].sources
      /\ hop.dst = Served(p)[k].dst /\ hop.overwrite = row[t].overwrite
  BY CurrentLemma
<1>2. hop.id[1] = t
  BY <1>1 DEF CurrentId
<1>3. (IsTape(t) <=> hop.dst.rse.tape) /\ (AllowsOverwrite(t) <=> hop.dst.rse.ow)
  BY <1>1, HopLemma
<1>4. IsTape(t) => k = Len(setup.paths[p])
  <2>1. /\ setup.paths[p] \in Seq(Hop) /\ k \in DOMAIN setup.paths[p]
        /\ Served(p)[k] = setup.paths[p][k]
    BY PathLemma, ServedLemma
  <2>2. k \in 1..Len(setup.paths[p]) /\ Len(setup.paths[p]) \in Nat
    BY <2>1
  <2>3. k \in 1..(Len(setup.paths[p]) - 1) => ~hop.dst.rse.tape
    <3>1. \A i \in 1..(Len(setup.paths[p]) - 1) : ~setup.paths[p][i].dst.rse.tape
      BY PathLemma
    <3>2. hop.dst = setup.paths[p][k].dst
      BY <1>1, <2>1
    <3> QED
      BY ONLY <3>1, <3>2
  <2> QED
    BY <1>3, <2>2, <2>3
<1>5. IsTape(t) /\ ~AllowsOverwrite(t) /\ OverwritableBy(hop) => row[t].overwrite = "yes"
  BY <1>1, <1>3 DEF OverwritableBy
<1> QED
  BY <1>1, <1>2, <1>4, <1>5

\* A job that is a path of its own, or the beginning of one.
LEMMA PathFits ==
    ASSUME setup \in Setups, row \in [Transfer -> Row], NEW chosen \in SUBSET DOMAIN setup.paths,
           NEW p \in chosen, Served(p) # <<>>, NEW path, path = Current(Served(p)), Alone(path),
           NEW m \in 1..Len(path), NEW j,
           j.params = JobParams(path, setup.tool), j.transfers = SubSeq(path, 1, m)
    PROVE  JobFits(j, chosen)
<1>1. /\ path \in Seq(CurrentHop) /\ Len(path) = Len(Served(p)) /\ DOMAIN path = 1..Len(path)
      /\ DOMAIN path = DOMAIN Served(p) /\ Len(path) \in 1..Len(setup.paths[p]) /\ path # <<>>
  BY CurrentLemma, ServedLemma
<1>2. /\ j.transfers \in Seq(CurrentHop) /\ Len(j.transfers) = m /\ DOMAIN j.transfers = 1..m
      /\ \A i \in 1..m : j.transfers[i] = path[i]
  <2>1. 1 \in 1..(Len(path) + 1) /\ m \in 0..Len(path) /\ 1 <= m
    BY <1>1
  <2>2. /\ SubSeq(path, 1, m) \in Seq(CurrentHop) /\ Len(SubSeq(path, 1, m)) = m
        /\ \A i \in 1..m : SubSeq(path, 1, m)[i] = path[i]
    BY <1>1, <2>1
  <2> QED
    BY <2>2
<1>3. /\ ParamsOK(j.params)
      /\ j.params.multihop <=> Len(path) > 1
      /\ j.params.multiSources <=> Len(path) = 1 /\ Len(path[Len(path)].sources) > 1
      /\ j.params.overwrite => OverwritableBy(path[Len(path)])
  <2>1. setup.tool.archiveOverride \in Nat \cup {NoOverride}
    BY PathLemma
  <2> DEFINE params == JobParams(path, setup.tool)
  <2>2. /\ ParamsOK(params)
        /\ params.multihop <=> Len(path) > 1
        /\ params.multiSources <=> Len(path) = 1 /\ Len(LastHop(path).sources) > 1
        /\ params.overwrite => OverwritableBy(LastHop(path))
    BY <1>1, <2>1, ParamsLemma
  <2>3. j.params = params /\ LastHop(path) = path[Len(path)]
    BY DEF LastHop
  <2>. HIDE DEF params
  <2> QED
    BY <2>2, <2>3
<1>4. \/ j.params.multihop /\ ~j.params.multiSources
      \/ /\ ~j.params.multihop /\ j.params.multiSources
         /\ Len(j.transfers) = 1 /\ Len(j.transfers[1].sources) > 1
  <2>1. CASE Len(path) > 1
    BY <1>1, <1>3, <2>1
  <2>2. CASE ~(Len(path) > 1)
    <3>1. Len(path) = 1 /\ m = 1
      BY <1>1, <2>2
    <3>2. Len(path[1].sources) > 1
      BY <2>2, <3>1 DEF Alone, LastHop
    <3>3. j.params.multiSources /\ ~j.params.multihop
      BY <1>3, <2>2, <3>1, <3>2
    <3>4. Len(j.transfers) = 1 /\ j.transfers[1] = path[1]
      BY <1>2, <3>1
    <3> QED
      BY <3>2, <3>3, <3>4
  <2> QED
    BY <2>1, <2>2
<1>5. ASSUME NEW i \in 1..m
      PROVE  LET hop == j.transfers[i]
                 t == hop.id[1]
             IN /\ hop \in CurrentHop
                /\ t = Served(p)[i].id /\ hop.sources = Served(p)[i].sources
                /\ hop.id = CurrentId(t)
                /\ IsTape(t) => i = Len(setup.paths[p])
                /\ IsTape(t) /\ ~AllowsOverwrite(t) /\ OverwritableBy(hop) => row[t].overwrite = "yes"
  <2>1. i \in DOMAIN Served(p) /\ j.transfers[i] = Current(Served(p))[i]
    BY <1>1, <1>2
  <2> QED
    BY <2>1, HopFits
<1>6. ASSUME NEW i \in 1..m, IsTape(j.transfers[i].id[1])
      PROVE  /\ i = m
             /\ ~AllowsOverwrite(j.transfers[i].id[1]) /\ j.params.overwrite
                => row[j.transfers[i].id[1]].overwrite = "yes"
  <2>1. i = Len(setup.paths[p])
    BY <1>5, <1>6
  <2>2. i = m /\ i = Len(path)
    BY <1>1, <2>1
  <2> QED
    BY <1>2, <1>3, <1>5, <1>6, <2>2
<1>7. ASSUME NEW i \in 1..m, NEW k \in 1..m, j.transfers[k].id[1] = j.transfers[i].id[1]
      PROVE  k = i
  <2>1. Served(p)[k].id = Served(p)[i].id
    BY <1>5, <1>7
  <2>2. /\ i \in DOMAIN setup.paths[p] /\ Served(p)[i] = setup.paths[p][i]
        /\ k \in DOMAIN setup.paths[p] /\ Served(p)[k] = setup.paths[p][k]
    BY <1>1, ServedLemma
  <2> QED
    BY <2>1, <2>2, PathLemma
<1>8. \A i \in 1..m : i \in DOMAIN Served(p)
  BY <1>1
<1>9. j.transfers # <<>>
  BY <1>2
<1> QED
  BY <1>2, <1>3, <1>4, <1>5, <1>6, <1>7, <1>8, <1>9 DEF JobFits

\* A job of single hops.
LEMMA GroupFits ==
    ASSUME setup \in Setups, row \in [Transfer -> Row], NEW chosen \in SUBSET DOMAIN setup.paths,
           \A p \in chosen : Served(p) # <<>>,
           NEW paths, paths = [p \in chosen |-> Current(Served(p))],
           NEW first \in chosen, ~Alone(paths[first]),
           NEW m \in Nat \ {0}, NEW c \in [1..m -> chosen],
           \A i, k \in 1..m : c[i] = c[k] => i = k,
           \A i \in 1..m : /\ ~Alone(paths[c[i]])
                          /\ GroupKey(paths[c[i]], setup.tool) = GroupKey(paths[first], setup.tool),
           NEW j, j.params = JobParams(paths[first], setup.tool),
           j.transfers = FirstHops(paths, c)
    PROVE  JobFits(j, chosen)
<1>1. setup.tool.archiveOverride \in Nat \cup {NoOverride}
  BY PathLemma
<1>2. ASSUME NEW p \in chosen, ~Alone(paths[p])
      PROVE  /\ paths[p] = Current(Served(p)) /\ paths[p] \in Seq(CurrentHop) /\ paths[p] # <<>>
             /\ Len(paths[p]) = 1 /\ 1 \in DOMAIN Served(p)
             /\ LastHop(paths[p]) = paths[p][1] /\ FirstHop(paths[p]) = paths[p][1]
             /\ paths[p][1] \in CurrentHop /\ Len(paths[p][1].sources) = 1
  <2> DEFINE path == paths[p]
  <2>1. path = Current(Served(p)) /\ p \in DOMAIN setup.paths /\ Served(p) # <<>>
    OBVIOUS
  <2>2. /\ path \in Seq(CurrentHop) /\ Len(path) = Len(Served(p)) /\ DOMAIN path = DOMAIN Served(p)
        /\ Served(p) \in Seq(Hop)
    BY <2>1, CurrentLemma, ServedLemma
  <2>. HIDE DEF path
  <2>3. Len(path) \in Nat \ {0} /\ DOMAIN path = 1..Len(path) /\ path # <<>>
    BY <2>1, <2>2
  <2>4. Len(path) = 1
    BY <1>2, <2>3 DEF Alone, path
  <2>5. /\ LastHop(path) = path[1] /\ FirstHop(path) = path[1] /\ path[1] \in CurrentHop
        /\ 1 \in DOMAIN Served(p)
    BY <2>2, <2>3, <2>4 DEF LastHop, FirstHop
  <2>6. path[1].sources \in Seq(Endpoint) \ {<<>>}
    BY <2>5 DEF CurrentHop
  <2>7. Len(path[1].sources) = 1
    <3>1. ~Alone(path)
      BY <1>2 DEF path
    <3>2. Len(path[1].sources) \in Nat \ {0}
      BY <2>6
    <3>3. ~(Len(path[1].sources) > 1)
      BY <2>5, <3>1 DEF Alone
    <3>4. \A n \in Nat \ {0} : ~(n > 1) => n = 1
      OBVIOUS
    <3> QED
      BY ONLY <3>2, <3>3, <3>4, Zenon
  <2> QED
    BY <2>1, <2>2, <2>3, <2>4, <2>5, <2>7 DEF path
<1> DEFINE params(p) == JobParams(paths[p], setup.tool)
<1>3. ASSUME NEW p \in chosen, ~Alone(paths[p])
      PROVE  /\ ParamsOK(params(p))
             /\ ~params(p).multihop /\ ~params(p).multiSources
             /\ params(p).overwrite => OverwritableBy(paths[p][1])
  <2> DEFINE path == paths[p]
             ps == JobParams(path, setup.tool)
  <2>1. /\ path \in Seq(CurrentHop) /\ path # <<>> /\ Len(path) = 1 /\ LastHop(path) = path[1]
        /\ Len(path[1].sources) = 1
    BY <1>2, <1>3
  <2>. HIDE DEF path
  <2>2. /\ ParamsOK(ps)
        /\ ps.multihop <=> Len(path) > 1
        /\ ps.multiSources <=> Len(path) = 1 /\ Len(LastHop(path).sources) > 1
        /\ ps.overwrite => OverwritableBy(LastHop(path))
    BY <1>1, <2>1, ParamsLemma
  <2>. HIDE DEF ps
  <2>3. /\ ParamsOK(ps) /\ ~ps.multihop /\ ~ps.multiSources
        /\ ps.overwrite => OverwritableBy(path[1])
    BY <2>1, <2>2
  <2> QED
    BY <2>3 DEF path, ps
<1>4. ASSUME NEW i \in 1..m
      PROVE  /\ c[i] \in chosen /\ ~Alone(paths[c[i]])
             /\ params(c[i]).overwrite = params(first).overwrite
             /\ j.transfers[i] = Current(Served(c[i]))[1]
  <2>1. c[i] \in chosen /\ ~Alone(paths[c[i]])
    OBVIOUS
  <2>2. params(c[i]).overwrite = params(first).overwrite
    <3>1. GroupKey(paths[c[i]], setup.tool) = GroupKey(paths[first], setup.tool)
      OBVIOUS
    <3> QED
      BY ONLY <3>1, SameGroup
  <2>3. j.transfers[i] = Current(Served(c[i]))[1]
    BY <1>2, <2>1 DEF FirstHops
  <2> QED
    BY <2>1, <2>2, <2>3
<1>5. /\ j.params = params(first)
      /\ ParamsOK(j.params) /\ ~j.params.multihop /\ ~j.params.multiSources
  BY <1>3
<1>6. j.transfers = [i \in 1..m |-> j.transfers[i]]
  BY DEF FirstHops
<1>. HIDE DEF params
<1>7. ASSUME NEW i \in 1..m
      PROVE  LET hop == j.transfers[i]
                 t == hop.id[1]
             IN /\ hop \in CurrentHop
                /\ t = Served(c[i])[1].id /\ hop.sources = Served(c[i])[1].sources
                /\ Len(hop.sources) = 1
                /\ hop.id = CurrentId(t)
                /\ IsTape(t) /\ ~AllowsOverwrite(t) /\ j.params.overwrite => row[t].overwrite = "yes"
  <2> DEFINE p == c[i]
             hop == j.transfers[i]
             t == hop.id[1]
  <2>1. /\ p \in chosen /\ ~Alone(paths[p]) /\ p \in DOMAIN setup.paths
        /\ params(p).overwrite = j.params.overwrite
        /\ hop = Current(Served(p))[1] /\ hop = paths[p][1]
    BY <1>4, <1>5
  <2>. HIDE DEF p, hop
  <2>2. /\ 1 \in DOMAIN Served(p) /\ Len(hop.sources) = 1
        /\ params(p).overwrite => OverwritableBy(hop)
    BY <1>2, <1>3, <2>1
  <2>3. /\ hop \in CurrentHop
        /\ t = Served(p)[1].id /\ hop.sources = Served(p)[1].sources
        /\ hop.id = CurrentId(t)
        /\ IsTape(t) /\ ~AllowsOverwrite(t) /\ OverwritableBy(hop) => row[t].overwrite = "yes"
    BY <2>1, <2>2, HopFits
  <2> QED
    BY <2>1, <2>2, <2>3 DEF p, hop
<1>8. ASSUME NEW i \in 1..m, NEW k \in 1..m, j.transfers[k].id[1] = j.transfers[i].id[1]
      PROVE  k = i
  <2>1. Served(c[k])[1].id = Served(c[i])[1].id
    BY <1>7, <1>8
  <2>2. /\ c[i] \in DOMAIN setup.paths /\ 1 \in DOMAIN Served(c[i])
        /\ c[k] \in DOMAIN setup.paths /\ 1 \in DOMAIN Served(c[k])
    BY <1>2, <1>4
  <2>3. /\ 1 \in DOMAIN setup.paths[c[i]] /\ Served(c[i])[1] = setup.paths[c[i]][1]
        /\ 1 \in DOMAIN setup.paths[c[k]] /\ Served(c[k])[1] = setup.paths[c[k]][1]
    BY <2>2, ServedLemma
  <2>4. c[i] = c[k]
    BY <2>1, <2>2, <2>3, PathLemma
  <2> QED
    BY <2>4
<1>9. j.transfers \in Seq(CurrentHop) /\ j.transfers # <<>>
  <2> DEFINE ts == j.transfers
  <2>1. ts \in [1..m -> CurrentHop]
    <3>1. ts = [i \in 1..m |-> ts[i]] /\ \A i \in 1..m : ts[i] \in CurrentHop
      BY <1>6, <1>7
    <3>. HIDE DEF ts
    <3> QED
      BY ONLY <3>1
  <2>2. j.transfers \in Seq(CurrentHop) /\ Len(j.transfers) = m
    BY <2>1, ToSeq
  <2> QED
    BY <2>2
<1>10. \A i \in 1..m : c[i] \in chosen /\ 1 \in DOMAIN Served(c[i])
  BY <1>2, <1>4
<1>11. \A i \in 1..m :
          LET hop == j.transfers[i]
              t == hop.id[1]
          IN /\ \E p \in chosen : \E k \in DOMAIN Served(p) :
                   /\ t = Served(p)[k].id /\ hop.sources = Served(p)[k].sources
             /\ hop.id = CurrentId(t)
             /\ IsTape(t) /\ ~AllowsOverwrite(t) /\ j.params.overwrite => row[t].overwrite = "yes"
             /\ \A k \in 1..m : j.transfers[k].id[1] = t => k = i
  <2> SUFFICES ASSUME NEW i \in 1..m
               PROVE  LET hop == j.transfers[i]
                          t == hop.id[1]
                      IN /\ \E p \in chosen : \E k \in DOMAIN Served(p) :
                               /\ t = Served(p)[k].id /\ hop.sources = Served(p)[k].sources
                         /\ hop.id = CurrentId(t)
                         /\ IsTape(t) /\ ~AllowsOverwrite(t) /\ j.params.overwrite
                            => row[t].overwrite = "yes"
                         /\ \A k \in 1..m : j.transfers[k].id[1] = t => k = i
    OBVIOUS
  <2> DEFINE hop == j.transfers[i]
             t == hop.id[1]
             p == c[i]
  <2>1. /\ t = Served(p)[1].id /\ hop.sources = Served(p)[1].sources
        /\ hop.id = CurrentId(t)
        /\ IsTape(t) /\ ~AllowsOverwrite(t) /\ j.params.overwrite => row[t].overwrite = "yes"
    BY <1>7
  <2>2. p \in chosen /\ 1 \in DOMAIN Served(p)
    BY <1>10
  <2>3. \A k \in 1..m : j.transfers[k].id[1] = t => k = i
    BY <1>8
  <2>. HIDE DEF hop, p
  <2>4. \E q \in chosen : \E k \in DOMAIN Served(q) :
           t = Served(q)[k].id /\ hop.sources = Served(q)[k].sources
    BY ONLY <2>1, <2>2
  <2> QED
    BY ONLY <2>1, <2>3, <2>4 DEF hop
<1>12. \A i \in 1..m : Len(j.transfers[i].sources) = 1
  BY <1>7
<1> QED
  BY ONLY <1>5, <1>6, <1>9, <1>11, <1>12 DEF JobFits

\* A job of the chosen paths is a path or a group.
LEMMA JobsAre ==
    ASSUME setup \in Setups, row \in [Transfer -> Row], NEW chosen \in SUBSET DOMAIN setup.paths,
           \A p \in chosen : Served(p) # <<>>, NEW j \in JobsOf(chosen),
           NEW paths, paths = [p \in chosen |-> Current(Served(p))]
    PROVE  /\ \A n \in chosen : paths[n] \in Seq(CurrentHop) /\ paths[n] # <<>>
           /\ IsPath(j, paths, setup.tool) \/ IsGroup(j, paths, setup.tool)
<1> DEFINE tool == setup.tool
<1>1. /\ j \in Jobs(paths, tool) /\ DOMAIN paths = chosen /\ tool.bulk \in Nat \ {0}
      /\ \A n \in chosen : paths[n] = Current(Served(n))
  BY PathLemma DEF JobsOf
<1>2. IsFiniteSet(chosen) /\ chosen \subseteq Nat
  BY PathLemma, FS_Subset
<1>3. \A n \in chosen : paths[n] \in Seq(CurrentHop) /\ paths[n] # <<>>
  <2> SUFFICES ASSUME NEW n \in chosen
               PROVE  paths[n] \in Seq(CurrentHop) /\ paths[n] # <<>>
    OBVIOUS
  <2>1. /\ n \in DOMAIN setup.paths /\ Served(n) \in Seq(Hop) /\ Served(n) # <<>>
        /\ Current(Served(n)) \in Seq(CurrentHop) /\ Len(Current(Served(n))) = Len(Served(n))
    BY CurrentLemma, ServedLemma
  <2>2. Len(Served(n)) # 0
    BY <2>1
  <2> QED
    BY <1>1, <2>1, <2>2
<1>4. IsPath(j, paths, tool) \/ IsGroup(j, paths, tool)
  <2>1. /\ IsFiniteSet(DOMAIN paths) /\ DOMAIN paths \subseteq Nat
        /\ \A n \in DOMAIN paths : paths[n] \in Seq(CurrentHop) /\ paths[n] # <<>>
        /\ tool.bulk \in Nat \ {0} /\ j \in Jobs(paths, tool)
    BY <1>1, <1>2, <1>3
  <2>. HIDE DEF tool
  <2> QED
    BY ONLY <2>1, JobLemma
<1> QED
  BY <1>3, <1>4

LEMMA JobsFit ==
    ASSUME setup \in Setups, row \in [Transfer -> Row], NEW chosen \in SUBSET DOMAIN setup.paths,
           \A p \in chosen : Served(p) # <<>>, NEW j \in JobsOf(chosen)
    PROVE  JobFits(j, chosen)
<1> DEFINE paths == [p \in chosen |-> Current(Served(p))]
           tool == setup.tool
<1>1. DOMAIN paths = chosen /\ \A n \in chosen : paths[n] = Current(Served(n))
  OBVIOUS
<1>. HIDE DEF paths
<1>2. IsPath(j, paths, tool) \/ IsGroup(j, paths, tool)
  BY JobsAre DEF paths
<1>3. CASE IsPath(j, paths, tool)
  BY <1>1, <1>3, PathFits DEF IsPath
<1>4. CASE IsGroup(j, paths, tool)
  <2>1. PICK first \in chosen, m \in Nat \ {0} : \E c \in [1..m -> chosen] :
            /\ ~Alone(paths[first])
            /\ \A i, k \in 1..m : c[i] = c[k] => i = k
            /\ \A i \in 1..m : /\ ~Alone(paths[c[i]])
                               /\ GroupKey(paths[c[i]], tool) = GroupKey(paths[first], tool)
            /\ j.params = JobParams(paths[first], tool)
            /\ j.transfers = FirstHops(paths, c)
    BY <1>1, <1>4 DEF IsGroup
  <2>2. paths = [p \in chosen |-> Current(Served(p))]
    BY DEF paths
  <2>3. PICK c \in [1..m -> chosen] :
            /\ ~Alone(paths[first])
            /\ \A i, k \in 1..m : c[i] = c[k] => i = k
            /\ \A i \in 1..m : /\ ~Alone(paths[c[i]])
                               /\ GroupKey(paths[c[i]], setup.tool) = GroupKey(paths[first], setup.tool)
            /\ j.params = JobParams(paths[first], setup.tool)
            /\ j.transfers = FirstHops(paths, c)
    BY <2>1
  <2>4. /\ ~Alone(paths[first])
        /\ \A i, k \in 1..m : c[i] = c[k] => i = k
        /\ \A i \in 1..m : /\ ~Alone(paths[c[i]])
                           /\ GroupKey(paths[c[i]], setup.tool) = GroupKey(paths[first], setup.tool)
        /\ j.params = JobParams(paths[first], setup.tool)
        /\ j.transfers = FirstHops(paths, c)
    BY <2>3
  <2>5. /\ setup \in Setups /\ row \in [Transfer -> Row] /\ chosen \in SUBSET DOMAIN setup.paths
        /\ \A p \in chosen : Served(p) # <<>>
        /\ first \in chosen /\ m \in Nat \ {0} /\ c \in [1..m -> chosen]
    OBVIOUS
  <2> QED
    BY ONLY <2>2, <2>4, <2>5, GroupFits
<1> QED
  BY <1>2, <1>3, <1>4

\* The requests of a submission are the current ones of the chosen paths.
Fresh(sub, chosen) ==
    \A i \in DOMAIN sub.files :
        LET t == sub.files[i].id[1]
        IN /\ t \in Transfer /\ sub.files[i].id = CurrentId(t)
           /\ \E p \in chosen : \E k \in DOMAIN Served(p) : t = Served(p)[k].id
           /\ IsTape(t) /\ ~AllowsOverwrite(t) /\ sub.params.overwrite
              => row[t].overwrite = "yes"

LEMMA SubmissionLemma ==
    ASSUME setup \in Setups, row \in [Transfer -> Row], NEW chosen \in SUBSET DOMAIN setup.paths,
           NEW j, JobFits(j, chosen), NEW token \in BOOLEAN, NEW sub \in Submissions(j, token)
    PROVE  /\ SubOK(sub)
           /\ j.transfers[1].id = sub.files[1].id /\ sub.files[1].id \in Request
           /\ Fresh(sub, chosen)
<1> DEFINE m == Len(j.transfers)
<1>1. /\ j.transfers \in Seq(CurrentHop) /\ m \in Nat \ {0} /\ DOMAIN j.transfers = 1..m
  <2>1. j.transfers \in Seq(CurrentHop) /\ j.transfers # <<>>
    BY DEF JobFits
  <2> DEFINE ts == j.transfers
  <2>. HIDE DEF ts
  <2>2. Len(ts) \in Nat \ {0} /\ DOMAIN ts = 1..Len(ts)
    BY <2>1 DEF ts
  <2> QED
    BY <2>1, <2>2 DEF ts
<1>2. /\ sub.params = j.params /\ sub.oauth2 = token
      /\ sub.files \in Seq(SubFile) /\ Len(sub.files) = m /\ DOMAIN sub.files = 1..m
      /\ \A i \in 1..m : /\ sub.files[i].id = j.transfers[i].id
                         /\ sub.files[i].sources = j.transfers[i].sources
                         /\ sub.files[i].dst = j.transfers[i].dst
                         /\ TokensOK(sub, sub.files[i])
  BY <1>1, FilesLemma
<1>. HIDE DEF m
<1>3. ASSUME NEW i \in 1..m
      PROVE  LET hop == j.transfers[i]
                 t == hop.id[1]
             IN /\ \E p \in chosen : \E k \in DOMAIN Served(p) :
                      /\ t = Served(p)[k].id /\ hop.sources = Served(p)[k].sources
                /\ hop.id = CurrentId(t)
                /\ j.params.multihop /\ IsTape(t) => i = m
                /\ IsTape(t) /\ ~AllowsOverwrite(t) /\ j.params.overwrite => row[t].overwrite = "yes"
                /\ \A k \in 1..m : j.transfers[k].id[1] = t => k = i
  BY <1>1 DEF JobFits, m
<1>4. ASSUME NEW i \in 1..m
      PROVE  LET file == sub.files[i]
                 t == file.id[1]
             IN /\ t \in Transfer
                /\ \E p \in chosen : \E k \in DOMAIN Served(p) : t = Served(p)[k].id
                /\ \E p \in DOMAIN setup.paths : \E k \in DOMAIN setup.paths[p] :
                      t = setup.paths[p][k].id /\ file.sources = setup.paths[p][k].sources
  <2>0. PICK p \in chosen : \E k \in DOMAIN Served(p) :
            /\ sub.files[i].id[1] = Served(p)[k].id
            /\ sub.files[i].sources = Served(p)[k].sources
    BY <1>2, <1>3
  <2>1. PICK k \in DOMAIN Served(p) : /\ sub.files[i].id[1] = Served(p)[k].id
                                      /\ sub.files[i].sources = Served(p)[k].sources
    BY <2>0
  <2>2. /\ p \in DOMAIN setup.paths /\ k \in DOMAIN setup.paths[p]
        /\ Served(p)[k] = setup.paths[p][k] /\ Served(p)[k] \in Hop
    BY ServedLemma
  <2>3. Served(p)[k].id \in Transfer
    BY <2>2 DEF Hop
  <2> QED
    BY <2>1, <2>2, <2>3
<1>5. 1 \in 1..m
  BY <1>1 DEF m
<1>6. sub.files # <<>>
  BY <1>2, <1>5
<1>7. KindOK(sub)
  <2>1. \/ j.params.multihop /\ ~j.params.multiSources
        \/ /\ ~j.params.multihop /\ j.params.multiSources
           /\ m = 1 /\ Len(j.transfers[1].sources) > 1
        \/ /\ ~j.params.multihop /\ ~j.params.multiSources
           /\ \A i \in 1..m : Len(j.transfers[i].sources) = 1
    BY <1>1 DEF JobFits, m
  <2> QED
    BY <1>2, <1>5, <2>1 DEF KindOK
<1>8. sub.files[1].id \in Request
  <2>1. sub.files[1] \in SubFile
    BY <1>2, <1>5
  <2> QED
    BY <2>1 DEF SubFile
<1>9. ParamsOK(sub.params)
  BY <1>2 DEF JobFits
<1>10. \A i \in 1..m :
          LET file == sub.files[i]
          IN /\ \E p \in DOMAIN setup.paths : \E k \in DOMAIN setup.paths[p] :
                   /\ file.id[1] = setup.paths[p][k].id
                   /\ file.sources = setup.paths[p][k].sources
             /\ TokensOK(sub, file)
             /\ sub.params.multihop /\ IsTape(file.id[1]) => i = m
             /\ \A k \in 1..m : sub.files[k].id[1] = file.id[1] => k = i
  <2>1. \A i \in 1..m :
           LET file == sub.files[i]
           IN /\ TokensOK(sub, file)
              /\ sub.params.multihop /\ IsTape(file.id[1]) => i = m
              /\ \A k \in 1..m : sub.files[k].id[1] = file.id[1] => k = i
    <3> SUFFICES ASSUME NEW i \in 1..m
                 PROVE  /\ TokensOK(sub, sub.files[i])
                        /\ sub.params.multihop /\ IsTape(sub.files[i].id[1]) => i = m
                        /\ \A k \in 1..m : sub.files[k].id[1] = sub.files[i].id[1] => k = i
      OBVIOUS
    <3>1. /\ j.params.multihop /\ IsTape(j.transfers[i].id[1]) => i = m
          /\ \A k \in 1..m : j.transfers[k].id[1] = j.transfers[i].id[1] => k = i
      BY <1>3
    <3> QED
      BY ONLY <1>2, <3>1, i \in 1..m
  <2> QED
    BY ONLY <1>4, <2>1
<1>11. SubOK(sub)
  BY <1>2, <1>6, <1>7, <1>9, <1>10 DEF SubOK
<1>12. \A i \in 1..m :
          LET t == sub.files[i].id[1]
          IN /\ sub.files[i].id = CurrentId(t)
             /\ IsTape(t) /\ ~AllowsOverwrite(t) /\ sub.params.overwrite => row[t].overwrite = "yes"
  BY <1>2, <1>3
<1>13. Fresh(sub, chosen)
  BY <1>2, <1>4, <1>12 DEF Fresh
<1> QED
  BY <1>2, <1>5, <1>8, <1>11, <1>13

--------------------------------------------------------------------------------
(* What is asked to be verified.                                           *)

\* A job has no side verified that some hop of it cannot verify.
JobAsks(j) ==
    /\ j.params.verify \in Strategy
    /\ \A i \in DOMAIN j.transfers : \A side \in Side :
          Asks(j.params.verify, side) => Asks(HopStrategy(j.transfers[i]), side)

LEMMA PathAsks ==
    ASSUME NEW path \in Seq(CurrentHop), NEW m \in 1..Len(path), NEW tool, NEW j,
           j.params = JobParams(path, tool), j.transfers = SubSeq(path, 1, m)
    PROVE  JobAsks(j)
<1>1. Len(path) \in Nat /\ DOMAIN path = 1..Len(path)
  OBVIOUS
<1>2. j.params.verify = PathStrategy(path)
  BY DEF JobParams
<1>3. DOMAIN j.transfers = 1..m /\ \A i \in 1..m : j.transfers[i] = path[i] /\ i \in DOMAIN path
  <2>1. 1 \in 1..(Len(path) + 1) /\ m \in 0..Len(path) /\ 1 <= m
    BY <1>1
  <2>2. /\ SubSeq(path, 1, m) \in Seq(CurrentHop) /\ Len(SubSeq(path, 1, m)) = m
        /\ \A i \in 1..m : SubSeq(path, 1, m)[i] = path[i]
    BY <1>1, <2>1
  <2> QED
    BY <1>1, <2>2
<1>4. PathStrategy(path) \in Strategy
  BY <1>1, PathStrategyIsStrategy
<1>5. \A side \in Side : Asks(PathStrategy(path), side) =>
          \A i \in DOMAIN path : Asks(HopStrategy(path[i]), side)
  BY <1>1, PathAsksWhatEveryHopAsks
<1> QED
  BY ONLY <1>2, <1>3, <1>4, <1>5 DEF JobAsks

LEMMA SingleAsks ==
    ASSUME NEW path \in Seq(CurrentHop), path # <<>>, ~Alone(path), NEW tool
    PROVE  /\ JobParams(path, tool).verify \in Strategy
           /\ \A side \in Side : Asks(JobParams(path, tool).verify, side)
                                 => Asks(HopStrategy(FirstHop(path)), side)
<1>1. Len(path) \in Nat /\ DOMAIN path = 1..Len(path) /\ 1 \in DOMAIN path
  OBVIOUS
<1>2. JobParams(path, tool).verify = PathStrategy(path)
  BY DEF JobParams
<1>3. PathStrategy(path) \in Strategy
  BY <1>1, PathStrategyIsStrategy
<1>4. \A side \in Side : Asks(PathStrategy(path), side) =>
          \A i \in DOMAIN path : Asks(HopStrategy(path[i]), side)
  BY <1>1, PathAsksWhatEveryHopAsks
<1> QED
  BY ONLY <1>1, <1>2, <1>3, <1>4 DEF FirstHop

LEMMA JobsAsk ==
    ASSUME setup \in Setups, row \in [Transfer -> Row], NEW chosen \in SUBSET DOMAIN setup.paths,
           \A p \in chosen : Served(p) # <<>>, NEW j \in JobsOf(chosen)
    PROVE  JobAsks(j)
<1> DEFINE paths == [p \in chosen |-> Current(Served(p))]
           tool == setup.tool
<1>1. DOMAIN paths = chosen
  OBVIOUS
<1>2. /\ \A n \in chosen : paths[n] \in Seq(CurrentHop) /\ paths[n] # <<>>
      /\ IsPath(j, paths, tool) \/ IsGroup(j, paths, tool)
  BY JobsAre
<1>. HIDE DEF paths, tool
<1>3. CASE IsPath(j, paths, tool)
  <2>1. PICK n \in chosen : \E m \in 1..Len(paths[n]) :
            j.params = JobParams(paths[n], tool) /\ j.transfers = SubSeq(paths[n], 1, m)
    BY <1>1, <1>3 DEF IsPath
  <2>2. PICK path : path = paths[n]
    OBVIOUS
  <2>3. PICK m \in 1..Len(path) : j.params = JobParams(path, tool) /\ j.transfers = SubSeq(path, 1, m)
    BY <2>1, <2>2
  <2>4. path \in Seq(CurrentHop)
    BY <1>2, <2>2
  <2> QED
    BY ONLY <2>3, <2>4, PathAsks
<1>4. CASE IsGroup(j, paths, tool)
  <2>1. PICK first \in chosen, m \in Nat \ {0} : \E c \in [1..m -> chosen] :
            /\ ~Alone(paths[first])
            /\ \A i \in 1..m : /\ ~Alone(paths[c[i]])
                               /\ GroupKey(paths[c[i]], tool) = GroupKey(paths[first], tool)
            /\ j.params = JobParams(paths[first], tool)
            /\ j.transfers = FirstHops(paths, c)
    BY <1>1, <1>4 DEF IsGroup
  <2>2. PICK c \in [1..m -> chosen] :
            /\ ~Alone(paths[first])
            /\ \A i \in 1..m : /\ ~Alone(paths[c[i]])
                               /\ GroupKey(paths[c[i]], tool) = GroupKey(paths[first], tool)
            /\ j.params = JobParams(paths[first], tool)
            /\ j.transfers = FirstHops(paths, c)
    BY <2>1
  <2>3. DOMAIN j.transfers = 1..m
        /\ \A i \in 1..m : c[i] \in chosen /\ j.transfers[i] = FirstHop(paths[c[i]])
    BY <2>2 DEF FirstHops
  <2>4. ASSUME NEW p \in chosen, ~Alone(paths[p])
        PROVE  /\ JobParams(paths[p], tool).verify \in Strategy
               /\ \A side \in Side : Asks(JobParams(paths[p], tool).verify, side)
                                     => Asks(HopStrategy(FirstHop(paths[p])), side)
    BY ONLY <1>2, <2>4, p \in chosen, SingleAsks
  <2>5. j.params.verify \in Strategy
    BY <2>2, <2>4
  <2>6. ASSUME NEW i \in 1..m, NEW side \in Side, Asks(j.params.verify, side)
        PROVE  Asks(HopStrategy(j.transfers[i]), side)
    <3>1. GroupKey(paths[c[i]], tool) = GroupKey(paths[first], tool) /\ ~Alone(paths[c[i]])
      BY <2>2
    <3>2. JobParams(paths[c[i]], tool).verify = JobParams(paths[first], tool).verify
      BY ONLY <3>1, SameGroup
    <3>3. Asks(JobParams(paths[c[i]], tool).verify, side)
      BY <2>2, <2>6, <3>2
    <3> QED
      BY <2>3, <2>4, <3>1, <3>3
  <2> QED
    BY <2>3, <2>5, <2>6 DEF JobAsks
<1> QED
  BY <1>2, <1>3, <1>4


\* The check of a file can be made where the strategy asks for it.
FileChecks(file, strategy) ==
    LET asked == {file.checksum} \ {NoChecksum}
    IN /\ Verified(strategy, "source") =>
             LET can == Available(file.sources[1].rse)
             IN can # {} /\ asked \subseteq can
       /\ Verified(strategy, "target") =>
             LET can == Available(file.dst.rse)
             IN can # {} /\ asked \subseteq can

ChecksFit(sub) == \A file \in ToSet(sub.files) : FileChecks(file, sub.params.verify)

LEMMA FileChecksFit ==
    ASSUME NEW hop, NEW strategy \in Strategy, NEW checksum \in Picked(hop, strategy),
           \A side \in Side : Asks(strategy, side) => Asks(HopStrategy(hop), side),
           NEW file, file.sources = hop.sources, file.dst = hop.dst, file.checksum = checksum
    PROVE  FileChecks(file, strategy)
<1>1. checksum # NoChecksum => /\ Asks(strategy, "source") => checksum \in Available(Source(hop).rse)
                               /\ Asks(strategy, "target") => checksum \in Available(hop.dst.rse)
  BY PickedIsSupported
<1>2. /\ Asks(HopStrategy(hop), "source") => Available(Source(hop).rse) # {}
      /\ Asks(HopStrategy(hop), "target") => Available(hop.dst.rse) # {}
  BY HopStrategyIsSupported
<1>3. \A side \in {"source", "target"} : Verified(strategy, side) <=> Asks(strategy, side)
  BY DEF Verified, Asks
<1>4. /\ Source(hop) = file.sources[1] /\ hop.dst = file.dst
      /\ "source" \in Side /\ "target" \in Side
  BY DEF Source, Side
<1>5. CASE checksum = NoChecksum
  BY <1>2, <1>3, <1>4, <1>5 DEF FileChecks
<1>6. CASE checksum # NoChecksum
  BY <1>1, <1>2, <1>3, <1>4, <1>6 DEF FileChecks
<1> QED
  BY <1>5, <1>6

LEMMA SubmissionChecks ==
    ASSUME NEW j, JobAsks(j), NEW token, NEW sub \in Submissions(j, token)
    PROVE  ChecksFit(sub)
<1> DEFINE hops == j.transfers
           picks == [DOMAIN hops -> ChecksumName \cup {NoChecksum}]
           made(c) == [params |-> j.params, oauth2 |-> token,
                       files |-> [i \in DOMAIN hops |-> FileOf(hops[i], c[i], token)]]
<1>1. PICK c \in picks : /\ sub = made(c)
                         /\ \A i \in DOMAIN hops : c[i] \in Picked(hops[i], j.params.verify)
  BY DEF Submissions
<1>2. /\ sub.params = j.params
      /\ sub.files = [i \in DOMAIN hops |-> FileOf(hops[i], c[i], token)]
  BY <1>1
<1>. HIDE DEF made
<1>3. SUFFICES ASSUME NEW i \in DOMAIN hops
               PROVE  FileChecks(sub.files[i], j.params.verify)
  BY <1>2 DEF ChecksFit, ToSet
<1>4. /\ sub.files[i].sources = hops[i].sources /\ sub.files[i].dst = hops[i].dst
      /\ sub.files[i].checksum = c[i]
  <2>1. sub.files[i] = FileOf(hops[i], c[i], token)
    BY <1>2
  <2> QED
    BY ONLY <2>1 DEF FileOf
<1>5. /\ j.params.verify \in Strategy /\ c[i] \in Picked(hops[i], j.params.verify)
      /\ \A side \in Side : Asks(j.params.verify, side) => Asks(HopStrategy(hops[i]), side)
  BY <1>1 DEF JobAsks
<1> QED
  BY ONLY <1>4, <1>5, FileChecksFit

--------------------------------------------------------------------------------
(* What steps do to rows, submissions and jobs.                            *)

AsSet(rows, ids, state, external) ==
    /\ rows \in [Transfer -> Row]
    /\ \A t \in Transfer :
          /\ rows[t].n = row[t].n /\ rows[t].overwrite = row[t].overwrite
          /\ IF CurrentId(t) \in ids /\ row[t].state # "ARCHIVED"
             THEN rows[t].state = state /\ rows[t].external = external
             ELSE rows[t] = row[t]

LEMMA SetRowsLemma ==
    ASSUME row \in [Transfer -> Row], NEW ids, NEW state \in RowState,
           NEW external \in Request \cup {NoJobId}, NEW rows, rows = SetRows(ids, state, external)
    PROVE  AsSet(rows, ids, state, external)
<1>1. rows = [t \in Transfer |->
                 IF CurrentId(t) \in ids /\ row[t].state # "ARCHIVED"
                 THEN [row[t] EXCEPT !.state = state, !.external = external] ELSE row[t]]
  BY DEF SetRows
<1>2. ASSUME NEW t \in Transfer
      PROVE  /\ rows[t] \in Row
             /\ rows[t].n = row[t].n /\ rows[t].overwrite = row[t].overwrite
             /\ IF CurrentId(t) \in ids /\ row[t].state # "ARCHIVED"
                THEN rows[t].state = state /\ rows[t].external = external
                ELSE rows[t] = row[t]
  <2>1. row[t] \in Row
    OBVIOUS
  <2>2. CASE CurrentId(t) \in ids /\ row[t].state # "ARCHIVED"
    <3>1. rows[t] = [row[t] EXCEPT !.state = state, !.external = external]
      BY <1>1, <2>2
    <3> QED
      BY <2>1, <2>2, <3>1 DEF Row
  <2>3. CASE ~(CurrentId(t) \in ids /\ row[t].state # "ARCHIVED")
    BY <1>1, <2>1, <2>3
  <2> QED
    BY <2>2, <2>3
<1>3. rows \in [Transfer -> Row]
  BY <1>1, <1>2
<1> QED
  BY <1>2, <1>3 DEF AsSet

LEMMA ReportedLemma ==
    ASSUME NEW old \in Row, NEW sid \in Request, NEW new \in RowState, NEW file,
           NEW r, r = Reported(old, sid, new, file)
    PROVE  /\ r \in Row /\ r.n = old.n /\ r.state = new /\ r.external = sid
           /\ r.overwrite \in {old.overwrite, "yes"}
BY DEF Reported, Row

\* What a submission is, it is for good.
LEMMA SubOKStays ==
    ASSUME NEW sub, SubOK(sub), setup' = setup
    PROVE  SubOK(sub)'
BY DEF SubOK, IsTape, Hops, Served

LEMMA PostOKStays ==
    ASSUME NEW sid, NEW sub, Posted(sid), PostOK(sid), post[sid].sub = sub, setup' = setup,
           post'[sid] \in PostOf(sub), post'[sid].open => ~post'[sid].adrift
    PROVE  PostOK(sid)' /\ Posted(sid)'
<1>1. SubOK(sub) /\ sid = sub.files[1].id
  BY DEF PostOK
<1>2. SubOK(sub)'
  BY <1>1, SubOKStays
<1>3. post'[sid].sub = sub /\ post'[sid].status \in {"sent", "made", "refused", "dropped"}
  BY DEF PostOf
<1>4. Posted(sid)'
  BY <1>3 DEF Posted, NoPost
<1> QED
  BY <1>1, <1>2, <1>3, <1>4 DEF PostOK

\* Steps that leave the ids of the requests alone, or renew those of a path.
RowStep ==
    /\ row' \in [Transfer -> Row]
    /\ \A t \in Transfer :
          /\ row[t].n <= row'[t].n
          /\ row'[t].n = row[t].n /\ row'[t].state = "QUEUED" => row[t].state = "QUEUED"
          /\ row[t].overwrite = "yes" => row'[t].overwrite = "yes"
    /\ PathsInStep'

\* Steps that submit nothing.
PostStep ==
    /\ DOMAIN post' = Request
    /\ \A sid \in Request :
          /\ ~Posted(sid) => post'[sid] = post[sid]
          /\ Posted(sid) => /\ Posted(sid)' /\ PostOK(sid)'
                            /\ post'[sid].sub = post[sid].sub
                            /\ post[sid].status = "made" => post'[sid].status = "made"

LEMMA RowsStay ==
    ASSUME IInv, setup' = setup, row' \in [Transfer -> Row],
           \A t \in Transfer :
               /\ row'[t].n = row[t].n
               /\ row'[t].state = "QUEUED" => row[t].state = "QUEUED"
               /\ row'[t].overwrite \in {row[t].overwrite, "yes"}
    PROVE  RowStep
<1>1. \A t \in Transfer : row[t].n \in Nat
  BY DEF IInv, Row
<1>2. PathsInStep'
  <2>1. \A p : Served(p)' = Served(p)
    BY DEF Served
  <2>2. \A p \in DOMAIN setup.paths : \A i \in DOMAIN Served(p) : Served(p)[i].id \in Transfer
    BY ServedLemma DEF IInv, Hop
  <2> QED
    BY <2>1, <2>2 DEF IInv, PathsInStep
<1> QED
  BY <1>1, <1>2 DEF RowStep

LEMMA PostsStay ==
    ASSUME IInv, setup' = setup, post' = post
    PROVE  PostStep
<1>1. ASSUME NEW sid \in Request, Posted(sid)
      PROVE  Posted(sid)' /\ PostOK(sid)'
  <2>1. PICK sub : sub = post[sid].sub
    OBVIOUS
  <2>2. PostOK(sid)
    BY <1>1 DEF IInv
  <2>3. post'[sid] \in PostOf(sub) /\ post[sid].sub = sub /\ (post'[sid].open => ~post'[sid].adrift)
    BY <2>1, <2>2 DEF PostOK
  <2> QED
    BY <1>1, <2>2, <2>3, PostOKStays
<1> QED
  BY <1>1 DEF PostStep, IInv

\* One submission of which only the fate changes.
LEMMA OnePostMoves ==
    ASSUME IInv, setup' = setup, NEW sid \in Request, Posted(sid), NEW entry,
           post' = [post EXCEPT ![sid] = entry], entry \in PostOf(post[sid].sub),
           entry.open => ~entry.adrift, post[sid].status = "made" => entry.status = "made"
    PROVE  PostStep
<1>1. DOMAIN post = Request /\ PostOK(sid)
  BY DEF IInv
<1>2. DOMAIN post' = Request /\ post'[sid] = entry /\ \A s \in Request \ {sid} : post'[s] = post[s]
  BY <1>1
<1>3. entry.sub = post[sid].sub
  BY DEF PostOf
<1>4. ASSUME NEW s \in Request, Posted(s)
      PROVE  Posted(s)' /\ PostOK(s)'
  <2>1. PICK sub : sub = post[s].sub
    OBVIOUS
  <2>2. PostOK(s)
    BY <1>4 DEF IInv
  <2>3. post[s] \in PostOf(sub) /\ (post[s].open => ~post[s].adrift)
    BY <2>1, <2>2 DEF PostOK
  <2>4. post'[s] \in PostOf(sub) /\ post[s].sub = sub /\ (post'[s].open => ~post'[s].adrift)
    BY <1>2, <2>1, <2>3
  <2> QED
    BY <1>4, <2>2, <2>4, PostOKStays
<1> QED
  BY <1>2, <1>3, <1>4 DEF PostStep

LEMMA QuietStep ==
    ASSUME IInv, setup' = setup, RowStep, PostStep,
           job' \in [Request -> Job \cup {NoJob}],
           \A sid \in Request : HasJob(sid)' => JobOK(sid)',
           dest' \in [Transfer -> Copy], poll' \in [Request -> Poll \cup {NoPoll}],
           faults' \in 0..setup.maxFaults
    PROVE  IInv'
<1>1. \A sid \in Request : Posted(sid)' => Posted(sid) /\ PostOK(sid)' /\ post'[sid].sub = post[sid].sub
  BY DEF PostStep, Posted
<1>2. ASSUME NEW sid \in Request, Posted(sid)
      PROVE  /\ Ids(sid) \subseteq Request
             /\ \A id \in Ids(sid) : id = <<id[1], id[2]>> /\ id[1] \in Transfer /\ id[2] \in Nat
  <2>1. post[sid].sub.files \in Seq(SubFile)
    BY <1>2 DEF IInv, PostOK, SubOK
  <2>2. \A file \in ToSet(post[sid].sub.files) : file \in SubFile
    BY <2>1 DEF ToSet
  <2>3. Ids(sid) \subseteq Request
    BY <2>2 DEF Ids, SubFile
  <2> QED
    BY <2>3 DEF Request
<1>3. \A sid \in Request : Posted(sid)' => Ids(sid)' = Ids(sid)
  BY <1>1 DEF Ids
<1>4. \A t \in Transfer : row[t].n \in Nat /\ row'[t].n \in Nat
  BY DEF IInv, RowStep, Row
<1>5. IdsApart'
  <2>1. ASSUME NEW sid \in Request, Posted(sid)', NEW id \in Ids(sid)
        PROVE  /\ id[2] <= row'[id[1]].n
               /\ id = CurrentId(id[1])' => row'[id[1]].state # "QUEUED"
    <3> DEFINE t == id[1]
    <3>1. t \in Transfer /\ id = <<t, id[2]>> /\ id[2] \in Nat
      BY <1>1, <1>2, <2>1
    <3>2. id[2] <= row[t].n /\ (id = CurrentId(t) => row[t].state # "QUEUED")
      BY <1>1, <2>1 DEF IInv, IdsApart
    <3>. HIDE DEF t
    <3>3. /\ row[t].n <= row'[t].n
          /\ row'[t].n = row[t].n /\ row'[t].state = "QUEUED" => row[t].state = "QUEUED"
      BY <3>1 DEF RowStep
    <3>4. id[2] <= row'[t].n
      BY <1>4, <3>1, <3>2, <3>3
    <3>5. id = CurrentId(t)' => row'[t].n = row[t].n /\ id = CurrentId(t)
      BY <1>4, <3>1, <3>2, <3>3 DEF CurrentId
    <3> QED
      BY <3>2, <3>3, <3>4, <3>5 DEF t
  <2>2. \A sid, other \in Request :
           Posted(sid)' /\ Posted(other)' /\ Ids(sid) \cap Ids(other) # {} => sid = other
    BY <1>1 DEF IInv, IdsApart
  <2> QED
    BY <1>3, <2>1, <2>2 DEF IdsApart
<1>6. FlagsFit'
  <2> SUFFICES ASSUME NEW sid \in Request, Posted(sid)', NEW id \in Ids(sid)',
                      IsTape(id[1])', ~AllowsOverwrite(id[1])', post'[sid].sub.params.overwrite
               PROVE  row'[id[1]].overwrite = "yes"
    BY DEF FlagsFit
  <2>1. Posted(sid) /\ id \in Ids(sid) /\ post[sid].sub.params.overwrite
    BY <1>1, <1>3
  <2>2. IsTape(id[1]) /\ ~AllowsOverwrite(id[1])
    BY DEF IsTape, AllowsOverwrite, Hops, Served
  <2>3. row[id[1]].overwrite = "yes" /\ id[1] \in Transfer
    BY <1>2, <2>1, <2>2 DEF IInv, FlagsFit
  <2> QED
    BY <2>3 DEF RowStep
<1> QED
  BY <1>1, <1>5, <1>6 DEF IInv, RowStep, PostStep

--------------------------------------------------------------------------------
(* What FTS does to its jobs.                                              *)

\* The same job with files further on.
SameJob(a, b) ==
    /\ b \in Job
    /\ b.type = a.type /\ b.flag = a.flag /\ b.archive = a.archive /\ b.report = a.report
    /\ b.multi = a.multi
    /\ Len(b.files) = Len(a.files) /\ DOMAIN b.files = DOMAIN a.files
    /\ \A i \in DOMAIN a.files : b.files[i].id = a.files[i].id

LEMMA JobFiles ==
    ASSUME NEW j \in Job
    PROVE  /\ j.files \in Seq(File) /\ DOMAIN j.files = 1..Len(j.files) /\ Len(j.files) \in Nat
           /\ \A i \in DOMAIN j.files : j.files[i] \in File
BY DEF Job

LEMMA WithFiles ==
    ASSUME NEW a \in Job, NEW files \in [1..Len(a.files) -> File],
           \A i \in DOMAIN a.files : files[i].id = a.files[i].id,
           NEW b, b = [a EXCEPT !.files = files]
    PROVE  SameJob(a, b) /\ b.files = files
<1>1. DOMAIN a.files = 1..Len(a.files) /\ Len(a.files) \in Nat
  BY JobFiles
<1>2. files \in Seq(File) /\ Len(files) = Len(a.files) /\ DOMAIN files = DOMAIN a.files
  BY <1>1, ToSeq
<1>3. /\ b.type = a.type /\ b.flag = a.flag /\ b.archive = a.archive /\ b.report = a.report
      /\ b.multi = a.multi /\ b.files = files /\ b \in Job
  BY <1>2 DEF Job
<1> QED
  BY <1>2, <1>3 DEF SameJob

LEMMA FilesAfterLemma ==
    ASSUME NEW a \in Job, NEW i \in DOMAIN a.files, a.files[i].state \in Active,
           NEW state \in {"ARCHIVING", "FINISHED", "FAILED"},
           NEW found \in {"nothing", "on_tape", "on_disk", "corrupted"},
           NEW files \in FilesAfter(a, i, state, found)
    PROVE  /\ files \in [1..Len(a.files) -> File]
           /\ files[i].id = a.files[i].id /\ files[i].state = state /\ files[i].found = found
           /\ \/ \A k \in DOMAIN a.files : k # i => files[k] = a.files[k]
              \/ \E n \in DOMAIN a.files :
                    /\ n # i
                    /\ \A k \in DOMAIN a.files : k \notin {i, n} => files[k] = a.files[k]
                    /\ files[n].id = a.files[n].id /\ files[n].state = "SUBMITTED"
                    /\ \/ a.type = "H" /\ state = "FINISHED" /\ n = i + 1
                       \/ a.type = "R" /\ state = "FAILED" /\ a.files[n].state = "NOT_USED"
<1> DEFINE mid == [a.files EXCEPT ![i].state = state, ![i].found = found]
           next == CASE a.type = "H" /\ state = "FINISHED" -> {i + 1} \cap DOMAIN mid
                     [] a.type = "R" /\ state = "FAILED" ->
                            {k \in DOMAIN mid : mid[k].state = "NOT_USED"}
                     [] OTHER -> {}
<1>1. /\ a.files \in [1..Len(a.files) -> File] /\ DOMAIN a.files = 1..Len(a.files)
      /\ Len(a.files) \in Nat /\ i \in 1..Len(a.files)
  BY JobFiles
<1>2. /\ mid \in [1..Len(a.files) -> File]
      /\ mid[i].id = a.files[i].id /\ mid[i].state = state /\ mid[i].found = found
      /\ \A k \in DOMAIN a.files : k # i => mid[k] = a.files[k]
  <2>1. mid[i] = [a.files[i] EXCEPT !.state = state, !.found = found]
        /\ (\A k \in DOMAIN a.files : k # i => mid[k] = a.files[k])
        /\ mid = [k \in 1..Len(a.files) |-> mid[k]]
    BY <1>1
  <2>. HIDE DEF mid
  <2>2. PICK f \in File : f = a.files[i]
    BY <1>1
  <2>3. LET g == [f EXCEPT !.state = state, !.found = found]
        IN g \in File /\ g.id = f.id /\ g.state = state /\ g.found = found
    BY DEF File
  <2>4. mid[i] \in File /\ mid[i].id = a.files[i].id /\ mid[i].state = state /\ mid[i].found = found
    BY <2>1, <2>2, <2>3
  <2>5. \A k \in 1..Len(a.files) : mid[k] \in File
    BY <1>1, <2>1, <2>4
  <2> QED
    BY <1>1, <2>1, <2>4, <2>5
<1>3. files \in IF next = {} THEN {mid} ELSE {[mid EXCEPT ![k].state = "SUBMITTED"] : k \in next}
  BY DEF FilesAfter
<1>4. ASSUME NEW n \in next
      PROVE  /\ n \in DOMAIN a.files
             /\ \/ a.type = "H" /\ state = "FINISHED" /\ n = i + 1
                \/ a.type = "R" /\ state = "FAILED" /\ mid[n].state = "NOT_USED"
  <2>. HIDE DEF mid
  <2>1. DOMAIN mid = DOMAIN a.files
    BY <1>1, <1>2
  <2>2. CASE a.type = "H" /\ state = "FINISHED"
    BY <2>1, <2>2
  <2>3. CASE a.type = "R" /\ state = "FAILED"
    BY <2>1, <2>3
  <2>4. CASE ~(a.type = "H" /\ state = "FINISHED") /\ ~(a.type = "R" /\ state = "FAILED")
    BY <2>4
  <2> QED
    BY <2>2, <2>3, <2>4
<1>. HIDE DEF mid, next
<1>5. CASE next = {}
  BY <1>1, <1>2, <1>3, <1>5
<1>6. CASE next # {}
  <2>1. PICK n \in next : files = [mid EXCEPT ![n].state = "SUBMITTED"]
    BY <1>3, <1>6
  <2>2. /\ n \in DOMAIN a.files
        /\ \/ a.type = "H" /\ state = "FINISHED" /\ n = i + 1
           \/ a.type = "R" /\ state = "FAILED" /\ mid[n].state = "NOT_USED"
    BY <1>4
  <2>4. n # i
    BY <1>1, <1>2, <2>2
  <2>5. /\ files[n] = [a.files[n] EXCEPT !.state = "SUBMITTED"]
        /\ \A k \in DOMAIN a.files : k # n => files[k] = mid[k]
        /\ files = [k \in 1..Len(a.files) |-> files[k]]
    BY <1>1, <1>2, <2>1, <2>2, <2>4
  <2>6. files[n] \in File /\ files[n].id = a.files[n].id /\ files[n].state = "SUBMITTED"
    <3>1. PICK f \in File : f = a.files[n]
      BY <1>1, <2>2
    <3>2. LET g == [f EXCEPT !.state = "SUBMITTED"]
          IN g \in File /\ g.id = f.id /\ g.state = "SUBMITTED"
      BY DEF File
    <3> QED
      BY <2>5, <3>1, <3>2
  <2>7. files \in [1..Len(a.files) -> File]
    <3>1. \A k \in 1..Len(a.files) : files[k] \in File
      BY <1>1, <1>2, <2>5, <2>6
    <3> QED
      BY <2>5, <3>1
  <2>8. files[i].id = a.files[i].id /\ files[i].state = state /\ files[i].found = found
    BY <1>1, <1>2, <2>4, <2>5
  <2>9. \A k \in DOMAIN a.files : k \notin {i, n} => files[k] = a.files[k]
    BY <1>2, <2>5
  <2>10. \/ a.type = "H" /\ state = "FINISHED" /\ n = i + 1
         \/ a.type = "R" /\ state = "FAILED" /\ a.files[n].state = "NOT_USED"
    BY <1>2, <2>2, <2>4
  <2> QED
    BY <2>2, <2>4, <2>6, <2>7, <2>8, <2>9, <2>10
<1> QED
  BY <1>5, <1>6

LEMMA EndFileLemma ==
    ASSUME NEW a \in Job, FilesInTurn(a), NEW i \in DOMAIN a.files, a.files[i].state \in Active,
           NEW state \in {"ARCHIVING", "FINISHED", "FAILED"},
           NEW found \in {"nothing", "on_tape", "on_disk", "corrupted"},
           NEW files \in FilesAfter(a, i, state, found),
           NEW b, b = [a EXCEPT !.files = files]
    PROVE  /\ SameJob(a, b) /\ FilesInTurn(b) /\ b.files = files
           /\ files[i].state = state /\ files[i].found = found
           /\ \A k \in DOMAIN a.files : k # i =>
                 \/ files[k] = a.files[k]
                 \/ /\ a.files[k].state = "NOT_USED" /\ files[k].state = "SUBMITTED"
                    /\ a.type = "H" => state = "FINISHED" /\ k = i + 1
<1>1. /\ a.files \in Seq(File) /\ DOMAIN a.files = 1..Len(a.files) /\ Len(a.files) \in Nat
      /\ \A k \in DOMAIN a.files : a.files[k] \in File
  BY JobFiles
<1>2. /\ files \in [1..Len(a.files) -> File]
      /\ files[i].id = a.files[i].id /\ files[i].state = state /\ files[i].found = found
      /\ \/ \A k \in DOMAIN a.files : k # i => files[k] = a.files[k]
         \/ \E n \in DOMAIN a.files :
               /\ n # i
               /\ \A k \in DOMAIN a.files : k \notin {i, n} => files[k] = a.files[k]
               /\ files[n].id = a.files[n].id /\ files[n].state = "SUBMITTED"
               /\ \/ a.type = "H" /\ state = "FINISHED" /\ n = i + 1
                  \/ a.type = "R" /\ state = "FAILED" /\ a.files[n].state = "NOT_USED"
  BY FilesAfterLemma
<1>3. /\ a.type = "H" => \A k \in DOMAIN a.files : k + 1 \in DOMAIN a.files =>
          (a.files[k].state # "FINISHED" => a.files[k + 1].state = "NOT_USED")
      /\ a.type = "R" => \A k, n \in DOMAIN a.files :
            a.files[k].state \in Active \cup {"FINISHED"} /\ a.files[n].state \in Active => k = n
  BY DEF FilesInTurn
<1>4. ASSUME NEW k \in DOMAIN a.files, k # i
      PROVE  /\ files[k].id = a.files[k].id
             /\ \/ files[k] = a.files[k]
                \/ /\ a.files[k].state = "NOT_USED" /\ files[k].state = "SUBMITTED"
                   /\ a.type = "H" => state = "FINISHED" /\ k = i + 1
  <2>1. CASE files[k] = a.files[k]
    BY <2>1
  <2>2. CASE files[k] # a.files[k]
    <3>1. /\ files[k].id = a.files[k].id /\ files[k].state = "SUBMITTED"
          /\ \/ a.type = "H" /\ state = "FINISHED" /\ k = i + 1
             \/ a.type = "R" /\ state = "FAILED" /\ a.files[k].state = "NOT_USED"
      BY <1>2, <1>4, <2>2
    <3>2. a.files[i].state # "FINISHED"
      BY DEF Active
    <3>3. a.files[k].state = "NOT_USED"
      BY <1>3, <3>1, <3>2
    <3> QED
      BY <3>1, <3>3
  <2> QED
    BY <2>1, <2>2
<1>5. SameJob(a, b) /\ b.files = files
  <2>1. \A k \in DOMAIN a.files : files[k].id = a.files[k].id
    BY <1>2, <1>4
  <2> QED
    BY <1>2, <2>1, WithFiles
<1>6. FilesInTurn(b)
  <2>1. b.type = a.type /\ DOMAIN b.files = DOMAIN a.files /\ b.files = files
    BY <1>5 DEF SameJob
  <2>2. ASSUME a.type = "H", NEW k \in DOMAIN a.files, k + 1 \in DOMAIN a.files,
               files[k].state # "FINISHED"
        PROVE  files[k + 1].state = "NOT_USED"
    <3>1. i \in Int /\ k \in Int /\ k + 1 # k
      BY <1>1
    <3>2. CASE k = i
      <4>1. state # "FINISHED"
        BY <1>2, <2>2, <3>2
      <4>2. a.files[k].state # "FINISHED"
        BY <3>2 DEF Active
      <4>3. a.files[k + 1].state = "NOT_USED"
        BY <1>3, <2>2, <4>2
      <4> QED
        BY <1>4, <2>2, <3>1, <3>2, <4>1, <4>3
    <3>3. CASE k # i
      <4>1. a.files[k].state # "FINISHED"
        BY <1>4, <2>2, <3>3
      <4>2. a.files[k + 1].state = "NOT_USED"
        BY <1>3, <2>2, <4>1
      <4>3. k + 1 # i
        BY <4>2 DEF Active
      <4>4. k + 1 # i + 1
        BY <3>1, <3>3
      <4> QED
        BY <1>4, <2>2, <4>2, <4>3, <4>4
    <3> QED
      BY <3>2, <3>3
  <2>3. ASSUME a.type = "R", NEW k \in DOMAIN a.files, NEW n \in DOMAIN a.files,
               files[k].state \in Active \cup {"FINISHED"}, files[n].state \in Active
        PROVE  k = n
    <3>1. \A l \in DOMAIN a.files : l # i => a.files[l].state \notin Active \cup {"FINISHED"}
      BY <1>3, <2>3
    <3>2. CASE \A l \in DOMAIN a.files : l # i => files[l] = a.files[l]
      BY <2>3, <3>1, <3>2
    <3>3. CASE ~ \A l \in DOMAIN a.files : l # i => files[l] = a.files[l]
      <4>1. PICK m \in DOMAIN a.files :
                /\ m # i /\ state = "FAILED"
                /\ \A l \in DOMAIN a.files : l \notin {i, m} => files[l] = a.files[l]
        BY <1>2, <2>3, <3>3
      <4>2. files[i].state \notin Active \cup {"FINISHED"}
        BY <1>2, <4>1 DEF Active
      <4> QED
        BY <2>3, <3>1, <4>1, <4>2
    <3> QED
      BY <3>2, <3>3
  <2> QED
    BY <2>1, <2>2, <2>3 DEF FilesInTurn
<1> QED
  BY <1>2, <1>4, <1>5, <1>6

LEMMA CancelLemma ==
    ASSUME NEW a \in Job, FilesInTurn(a), NEW files,
           files = [i \in DOMAIN a.files |-> IF a.files[i].state \in Active
                                            THEN [a.files[i] EXCEPT !.state = "CANCELED"]
                                            ELSE a.files[i]],
           NEW b, b = [a EXCEPT !.files = files]
    PROVE  /\ SameJob(a, b) /\ FilesInTurn(b) /\ b.files = files
           /\ \A i \in DOMAIN a.files : IF a.files[i].state \in Active
                                        THEN files[i].state = "CANCELED"
                                        ELSE files[i] = a.files[i]
<1>1. /\ a.files \in Seq(File) /\ DOMAIN a.files = 1..Len(a.files) /\ Len(a.files) \in Nat
      /\ \A k \in DOMAIN a.files : a.files[k] \in File
  BY JobFiles
<1>2. ASSUME NEW i \in DOMAIN a.files
      PROVE  /\ files[i] \in File /\ files[i].id = a.files[i].id
             /\ IF a.files[i].state \in Active THEN files[i].state = "CANCELED"
                ELSE files[i] = a.files[i]
  <2>1. PICK f \in File : f = a.files[i]
    BY <1>1
  <2>2. LET g == [f EXCEPT !.state = "CANCELED"]
        IN g \in File /\ g.id = f.id /\ g.state = "CANCELED"
    BY DEF File
  <2>3. files[i] = IF f.state \in Active THEN [f EXCEPT !.state = "CANCELED"] ELSE f
    BY <2>1
  <2> QED
    BY <2>1, <2>2, <2>3
<1>3. files \in [1..Len(a.files) -> File]
  <2>1. \A i \in 1..Len(a.files) : files[i] \in File
    BY <1>1, <1>2
  <2>2. files = [i \in 1..Len(a.files) |-> files[i]]
    BY <1>1
  <2> QED
    BY ONLY <2>1, <2>2
<1>4. SameJob(a, b) /\ b.files = files
  <2>1. /\ a \in Job /\ b = [a EXCEPT !.files = files]
        /\ \A i \in DOMAIN a.files : files[i].id = a.files[i].id
    BY <1>2
  <2> QED
    BY ONLY <1>3, <2>1, WithFiles
<1>5. \A i \in DOMAIN a.files :
          /\ files[i].state \notin Active
          /\ files[i].state # "FINISHED" => a.files[i].state # "FINISHED"
          /\ a.files[i].state = "NOT_USED" => files[i].state = "NOT_USED"
  <2> SUFFICES ASSUME NEW i \in DOMAIN a.files
               PROVE  /\ files[i].state \notin Active
                      /\ files[i].state # "FINISHED" => a.files[i].state # "FINISHED"
                      /\ a.files[i].state = "NOT_USED" => files[i].state = "NOT_USED"
    OBVIOUS
  <2>1. IF a.files[i].state \in Active THEN files[i].state = "CANCELED"
        ELSE files[i] = a.files[i]
    BY <1>2
  <2> QED
    BY ONLY <2>1 DEF Active
<1>6. FilesInTurn(b)
  <2>1. /\ DOMAIN b.files = DOMAIN a.files /\ b.type = a.type /\ b.files = files
        /\ FilesInTurn(a)
    BY <1>4 DEF SameJob
  <2>2. b.type = "H" => \A i \in DOMAIN b.files : i + 1 \in DOMAIN b.files =>
            (b.files[i].state # "FINISHED" => b.files[i + 1].state = "NOT_USED")
    BY ONLY <1>5, <2>1 DEF FilesInTurn
  <2>3. \A k \in DOMAIN b.files : b.files[k].state \notin Active
    BY ONLY <1>5, <2>1
  <2> QED
    BY ONLY <2>2, <2>3 DEF FilesInTurn
<1> QED
  BY <1>2, <1>4, <1>6

LEMMA ReplicasInTurn ==
    ASSUME NEW b, b.type = "R", NEW entry,
           \A k \in DOMAIN b.files : k # entry => b.files[k].state = "NOT_USED"
    PROVE  FilesInTurn(b)
<1>1. \A k \in DOMAIN b.files : b.files[k].state \in Active \cup {"FINISHED"} => k = entry
  BY DEF Active
<1> QED
  BY <1>1 DEF FilesInTurn

LEMMA HopsInTurn ==
    ASSUME NEW b, b.type # "R", NEW fs, b.files = fs, NEW n \in Nat, DOMAIN fs = 1..n,
           b.type = "H" => \A k \in 1..n : k # 1 => fs[k].state = "NOT_USED"
    PROVE  FilesInTurn(b)
<1>1. \A i \in 1..n : i + 1 # 1
  OBVIOUS
<1> QED
  BY <1>1 DEF FilesInTurn

\* What JobBuilder makes of a submission it accepts.
LEMMA BuiltLemma ==
    ASSUME NEW sub, SubOK(sub), ~TypeRefused(sub), NEW entry, entry \in DOMAIN sub.files[1].sources,
           JobType(sub) = "R" \/ entry = 1, NEW b, b = Built(sub, entry)
    PROVE  /\ b \in Job /\ FilesInTurn(b)
           /\ b.multi <=> b.type = "R"
           /\ b.type = "H" => sub.params.multihop
           /\ b.flag = OverwriteFlag(sub.params)
           /\ b.flag \in {"M", "Q"} => b.type = "H"
           /\ \A i \in DOMAIN b.files : b.files[i].state \in {"SUBMITTED", "STAGING", "NOT_USED"}
           /\ b.type = "R" => /\ \A i \in DOMAIN b.files : b.files[i].id = sub.files[1].id
                              /\ Len(sub.files) = 1 /\ Len(sub.files[1].sources) > 1
           /\ b.type # "R" => /\ Len(b.files) = Len(sub.files)
                              /\ \A i \in DOMAIN b.files : b.files[i].id = sub.files[i].id
<1>1. /\ sub.files \in Seq(SubFile) /\ sub.files # <<>> /\ ParamsOK(sub.params) /\ KindOK(sub)
  BY DEF SubOK
<1>2. /\ Len(sub.files) \in Nat \ {0} /\ DOMAIN sub.files = 1..Len(sub.files)
      /\ \A i \in DOMAIN sub.files : sub.files[i] \in SubFile
  <2> DEFINE fs == sub.files
  <2>. HIDE DEF fs
  <2>1. fs \in Seq(SubFile) /\ fs # <<>>
    BY <1>1 DEF fs
  <2>2. Len(fs) \in Nat \ {0} /\ DOMAIN fs = 1..Len(fs) /\ \A i \in DOMAIN fs : fs[i] \in SubFile
    BY <2>1
  <2> QED
    BY <2>2 DEF fs
<1>3. 1 \in DOMAIN sub.files
  BY <1>2
<1>4. sub.files[1].sources \in Seq(Endpoint)
  BY <1>2, <1>3 DEF SubFile
<1>5. b.type = JobType(sub) /\ b.type \in {"N", "H", "R"}
  BY DEF Built, JobType
<1>6. b.flag = OverwriteFlag(sub.params) /\ b.flag \in {"Y", "M", "D", "Q", "N"}
  BY DEF Built, OverwriteFlag
<1>7. /\ b.archive = (sub.params.archive > 0) /\ b.report = sub.params.report
      /\ b.multi = sub.params.multiSources /\ b.files = FileRows(sub, entry)
      /\ b = [type |-> b.type, flag |-> b.flag, archive |-> b.archive, report |-> b.report,
              multi |-> b.multi, files |-> b.files]
  BY DEF Built
<1>8. b.archive \in BOOLEAN /\ b.report \in BOOLEAN /\ b.multi \in BOOLEAN
  BY <1>1, <1>7 DEF ParamsOK
<1>9. b.type = "R" => /\ ~sub.params.multihop /\ sub.params.multiSources /\ Len(sub.files) = 1
                      /\ Len(sub.files[1].sources) > 1
  <2> SUFFICES ASSUME b.type = "R"
               PROVE  /\ ~sub.params.multihop /\ sub.params.multiSources /\ Len(sub.files) = 1
                      /\ Len(sub.files[1].sources) > 1
    OBVIOUS
  <2>1. ~sub.params.multihop
    BY <1>5 DEF TypeRefused
  <2>2. \E i \in DOMAIN sub.files : Len(sub.files[i].sources) > 1
    BY <1>5 DEF JobType, ToSet
  <2>3. ~(\A i \in DOMAIN sub.files : Len(sub.files[i].sources) = 1)
    <3>1. PICK i \in DOMAIN sub.files : Len(sub.files[i].sources) > 1
      BY <2>2
    <3>2. Len(sub.files[i].sources) \in Nat
      BY <1>2 DEF SubFile
    <3>3. \A n \in Nat : n > 1 => n # 1
      OBVIOUS
    <3>4. Len(sub.files[i].sources) # 1
      BY ONLY <3>1, <3>2, <3>3, Zenon
    <3> QED
      BY <3>4
  <2> QED
    BY <1>1, <2>1, <2>3 DEF KindOK
<1>10. sub.params.multiSources => b.type = "R"
  <2> SUFFICES ASSUME sub.params.multiSources  PROVE JobType(sub) = "R"
    BY <1>5
  <2>1. Len(sub.files[1].sources) > 1
    BY <1>1 DEF KindOK
  <2>2. \E file \in ToSet(sub.files) : Len(file.sources) > 1
    BY <1>3, <2>1 DEF ToSet
  <2> QED
    BY <2>2 DEF JobType
<1>11. b.type = "H" => sub.params.multihop
  BY <1>5 DEF JobType
<1>12. b.flag \in {"M", "Q"} => b.type = "H"
  <2> SUFFICES ASSUME b.flag \in {"M", "Q"}  PROVE b.type = "H"
    OBVIOUS
  <2>1. sub.params.multihop
    BY <1>1, <1>6 DEF ParamsOK, OverwriteFlag
  <2>2. b.type # "R"
    BY <1>5, <2>1 DEF TypeRefused
  <2> QED
    BY <1>5, <2>1, <2>2 DEF JobType
<1> DEFINE used(i, source) == \/ b.type = "N" \/ (b.type = "H" /\ i = 1)
                              \/ (b.type = "R" /\ source = entry)
           file(i, source) == [id |-> sub.files[i].id, source |-> source,
                               state |-> IF used(i, source) THEN InitialState(sub.params)
                                         ELSE "NOT_USED",
                               found |-> "nothing"]
<1>13. b.files = IF b.type = "R" THEN [n \in DOMAIN sub.files[1].sources |-> file(1, n)]
                 ELSE [i \in DOMAIN sub.files |-> file(i, 1)]
  BY <1>5, <1>7 DEF FileRows
<1>14. ASSUME NEW i \in DOMAIN sub.files, NEW source \in Nat \ {0}
       PROVE  /\ file(i, source) \in File
              /\ file(i, source).id = sub.files[i].id
              /\ file(i, source).state \in {"SUBMITTED", "STAGING", "NOT_USED"}
              /\ ~used(i, source) => file(i, source).state = "NOT_USED"
  <2>1. sub.files[i].id \in Request
    BY <1>2 DEF SubFile
  <2>2. InitialState(sub.params) \in {"SUBMITTED", "STAGING"}
    BY DEF InitialState
  <2>. HIDE DEF used
  <2>3. (IF used(i, source) THEN InitialState(sub.params) ELSE "NOT_USED")
        \in {"SUBMITTED", "STAGING", "NOT_USED"}
    BY <2>2
  <2> QED
    BY <2>1, <2>2, <2>3 DEF File
<1>. HIDE DEF file
<1> DEFINE fs == b.files
<1>15. /\ fs = IF b.type = "R" THEN [n \in DOMAIN sub.files[1].sources |-> file(1, n)]
             ELSE [i \in DOMAIN sub.files |-> file(i, 1)]
       /\ b = [type |-> b.type, flag |-> b.flag, archive |-> b.archive, report |-> b.report,
               multi |-> b.multi, files |-> fs]
  BY <1>7, <1>13
<1>. HIDE DEF fs
<1>16. fs \in Seq(File) => b \in Job
  BY <1>5, <1>6, <1>8, <1>15 DEF Job
<1>17. 1 \in Nat \ {0} /\ b.files = fs
  BY DEF fs
<1>18. CASE b.type = "R"
  <2> DEFINE n == Len(sub.files[1].sources)
  <2>1. n \in Nat /\ DOMAIN sub.files[1].sources = 1..n
    BY <1>4
  <2>. HIDE DEF n
  <2>2. fs = [k \in 1..n |-> file(1, k)]
    BY <1>15, <1>18, <2>1
  <2>3. \A k \in 1..n : k \in Nat \ {0}
    BY <2>1
  <2>4. \A k \in 1..n : fs[k] = file(1, k) /\ fs[k] \in File
    BY <1>3, <1>14, <2>2, <2>3
  <2>5. fs \in Seq(File) /\ DOMAIN fs = 1..n
    <3>1. fs \in [1..n -> File]
      BY <2>2, <2>4
    <3> QED
      BY <2>1, <3>1, ToSeq
  <2>6. \A k \in 1..n : fs[k].id = sub.files[1].id
    BY <1>3, <1>14, <2>3, <2>4
  <2>7. \A k \in 1..n : fs[k].state \in {"SUBMITTED", "STAGING", "NOT_USED"}
    BY <1>3, <1>14, <2>3, <2>4
  <2>8. ASSUME NEW k \in 1..n, k # entry  PROVE fs[k].state = "NOT_USED"
    <3>1. ~used(1, k)
      BY <1>18, <2>8
    <3>. HIDE DEF used
    <3> QED
      BY <1>3, <1>14, <2>3, <2>4, <3>1
  <2>9. FilesInTurn(b)
    <3>1. \A k \in DOMAIN b.files : k # entry => b.files[k].state = "NOT_USED"
      BY ONLY <1>17, <2>5, <2>8
    <3> QED
      BY ONLY <1>18, <3>1, ReplicasInTurn
  <2>10. \A k \in DOMAIN b.files : /\ b.files[k].id = sub.files[1].id
                                   /\ b.files[k].state \in {"SUBMITTED", "STAGING", "NOT_USED"}
    BY ONLY <1>17, <2>5, <2>6, <2>7
  <2>11. b.multi
    BY <1>7, <1>9, <1>18
  <2>12. b \in Job /\ Len(sub.files) = 1 /\ Len(sub.files[1].sources) > 1
    BY <1>9, <1>16, <1>18, <2>5
  <2> QED
    BY ONLY <1>6, <1>12, <1>18, <2>9, <2>10, <2>11, <2>12, Zenon
<1>19. CASE b.type # "R"
  <2> DEFINE n == Len(sub.files)
  <2>1. n \in Nat /\ DOMAIN sub.files = 1..n
    BY <1>2
  <2>. HIDE DEF n
  <2>2. fs = [i \in 1..n |-> file(i, 1)]
    BY <1>15, <1>19, <2>1
  <2>3. \A i \in 1..n : fs[i] = file(i, 1) /\ fs[i] \in File
    BY <1>14, <1>17, <2>1, <2>2
  <2>4. fs \in Seq(File) /\ DOMAIN fs = 1..n /\ Len(fs) = n
    <3>1. fs \in [1..n -> File]
      BY <2>2, <2>3
    <3> QED
      BY <2>1, <3>1, ToSeq
  <2>5. \A i \in 1..n : fs[i].id = sub.files[i].id
    BY <1>14, <1>17, <2>1, <2>3
  <2>6. \A i \in 1..n : fs[i].state \in {"SUBMITTED", "STAGING", "NOT_USED"}
    BY <1>14, <1>17, <2>1, <2>3
  <2>7. b.type = "H" => \A i \in 1..n : i # 1 => fs[i].state = "NOT_USED"
    <3> SUFFICES ASSUME b.type = "H", NEW i \in 1..n, i # 1  PROVE fs[i].state = "NOT_USED"
      OBVIOUS
    <3>1. ~used(i, 1)
      OBVIOUS
    <3>2. i \in DOMAIN sub.files
      BY <2>1
    <3>. HIDE DEF used
    <3> QED
      BY <1>14, <1>17, <2>3, <3>1, <3>2
  <2>8. FilesInTurn(b)
    BY ONLY <1>17, <1>19, <2>1, <2>4, <2>7, HopsInTurn
  <2>9. \A i \in DOMAIN b.files : /\ b.files[i].id = sub.files[i].id
                                  /\ b.files[i].state \in {"SUBMITTED", "STAGING", "NOT_USED"}
    BY ONLY <1>17, <2>4, <2>5, <2>6
  <2>10. ~b.multi
    BY <1>7, <1>10, <1>19
  <2>11. b \in Job /\ Len(b.files) = Len(sub.files)
    BY <1>16, <1>17, <2>4 DEF n
  <2> QED
    BY ONLY <1>6, <1>11, <1>12, <1>19, <2>8, <2>9, <2>10, <2>11, Zenon
<1> QED
  BY <1>18, <1>19

LEMMA JobOKStays ==
    ASSUME IInv, setup' = setup, PostStep, NEW sid \in Request, NEW a, NEW b,
           job[sid] = a, HasJob(sid), job'[sid] = b, b \in Job, SameJob(a, b), FilesInTurn(b)
    PROVE  JobOK(sid)'
<1>1. JobOK(sid)
  BY DEF IInv
<1>2. /\ Posted(sid)' /\ post'[sid].sub = post[sid].sub /\ post'[sid].status = "made"
  BY <1>1 DEF PostStep, JobOK
<1> QED
  BY <1>1, <1>2 DEF JobOK, SameJob

LEMMA JobsStay ==
    ASSUME IInv, setup' = setup, PostStep, job' = job
    PROVE  /\ job' \in [Request -> Job \cup {NoJob}]
           /\ \A sid \in Request : HasJob(sid)' => JobOK(sid)'
<1>1. ASSUME NEW sid \in Request, HasJob(sid)  PROVE JobOK(sid)'
  <2>1. PICK a : a = job[sid]
    OBVIOUS
  <2>2. a \in Job /\ FilesInTurn(a)
    BY <1>1, <2>1 DEF IInv, JobOK
  <2>3. SameJob(a, a)
    BY <2>2 DEF SameJob
  <2> QED
    BY <1>1, <2>1, <2>2, <2>3, JobOKStays
<1> QED
  BY <1>1 DEF IInv, HasJob

LEMMA OneJobMoves ==
    ASSUME IInv, setup' = setup, PostStep, NEW sid \in Request, NEW a, NEW b,
           a = job[sid], HasJob(sid), job' = [job EXCEPT ![sid] = b],
           SameJob(a, b), FilesInTurn(b)
    PROVE  /\ job' \in [Request -> Job \cup {NoJob}]
           /\ \A s \in Request : HasJob(s)' => JobOK(s)'
<1>1. /\ job \in [Request -> Job \cup {NoJob}] /\ b \in Job
      /\ job'[sid] = b /\ \A s \in Request \ {sid} : job'[s] = job[s]
  BY DEF IInv, SameJob
<1>2. ASSUME NEW s \in Request, HasJob(s)  PROVE JobOK(s)'
  <2>1. CASE s = sid
    BY <1>1, <2>1, JobOKStays
  <2>2. CASE s # sid
    <3>1. PICK c : c = job[s]
      OBVIOUS
    <3>2. c \in Job /\ FilesInTurn(c)
      BY <1>2, <3>1 DEF IInv, JobOK
    <3>3. SameJob(c, c) /\ job'[s] = c
      BY <1>1, <2>2, <3>1, <3>2 DEF SameJob
    <3> QED
      BY <1>2, <3>1, <3>2, <3>3, JobOKStays
  <2> QED
    BY <2>1, <2>2
<1>3. \A s \in Request : HasJob(s)' => HasJob(s)
  BY <1>1 DEF HasJob
<1> QED
  BY <1>1, <1>2, <1>3

--------------------------------------------------------------------------------
(* The actions.                                                            *)

LEMMA Types ==
    ASSUME IInv
    PROVE  /\ setup \in Setups /\ row \in [Transfer -> Row] /\ dest \in [Transfer -> Copy]
           /\ faults \in 0..setup.maxFaults /\ setup.maxFaults \in Nat
           /\ DOMAIN post = Request
           /\ job \in [Request -> Job \cup {NoJob}]
           /\ poll \in [Request -> Poll \cup {NoPoll}]
BY PathLemma DEF IInv

LEMMA FaultLemma ==
    ASSUME IInv, Fault
    PROVE  faults' \in 0..setup.maxFaults
BY Types DEF Fault

LEMMA RowsSet ==
    ASSUME IInv, setup' = setup, NEW ids, NEW state \in RowState \ {"QUEUED"},
           NEW external \in Request \cup {NoJobId}, row' = SetRows(ids, state, external)
    PROVE  RowStep
<1>1. PICK rows : rows = SetRows(ids, state, external)
  OBVIOUS
<1>2. AsSet(rows, ids, state, external)
  <2>1. row \in [Transfer -> Row] /\ state \in RowState
    BY Types
  <2> QED
    BY ONLY <1>1, <2>1, external \in Request \cup {NoJobId}, SetRowsLemma
<1>3. row' = rows /\ row' \in [Transfer -> Row]
  BY <1>1, <1>2 DEF AsSet
<1>4. \A t \in Transfer : /\ row'[t].n = row[t].n
                          /\ row'[t].state = "QUEUED" => row[t].state = "QUEUED"
                          /\ row'[t].overwrite \in {row[t].overwrite, "yes"}
  BY <1>2, <1>3 DEF AsSet
<1> QED
  BY <1>3, <1>4, RowsStay

LEMMA RowsSame ==
    ASSUME IInv, setup' = setup, row' = row
    PROVE  RowStep
BY Types, RowsStay

LEMMA WithoutAnswerLemma ==
    ASSUME IInv, setup' = setup, NEW sid \in Request, row' = WithoutAnswer(sid)
    PROVE  RowStep
<1>1. "SUBMITTED" \in RowState \ {"QUEUED"} /\ "SUBMISSION_FAILED" \in RowState \ {"QUEUED"}
  BY DEF RowState
<1>2. sid \in Request \cup {NoJobId} /\ NoJobId \in Request \cup {NoJobId}
  OBVIOUS
<1>3. CASE post[sid].known
  BY <1>1, <1>2, <1>3, RowsSet DEF WithoutAnswer
<1>4. CASE ~post[sid].known
  BY <1>1, <1>2, <1>4, RowsSet DEF WithoutAnswer
<1> QED
  BY <1>3, <1>4

LEMMA CloseLemma ==
    ASSUME IInv, setup' = setup, NEW sid \in Request, Open(sid), NEW adrift \in BOOLEAN,
           Close(sid, adrift)
    PROVE  /\ PostStep
           /\ \A s \in Request : post'[s].status = "refused" => post[s].status = "refused"
<1>1. PICK status \in {post[sid].status} \cup (IF post[sid].status = "sent" THEN {"dropped"} ELSE {}) :
          post' = [post EXCEPT ![sid].open = FALSE, ![sid].status = status,
                               ![sid].adrift = adrift /\ status \in {"sent", "made"}]
  BY DEF Close
<1>2. PICK old : old = post[sid]
  OBVIOUS
<1>3. PICK entry : entry = [old EXCEPT !.open = FALSE, !.status = status,
                                       !.adrift = adrift /\ status \in {"sent", "made"}]
  OBVIOUS
<1>4. post' = [post EXCEPT ![sid] = entry]
  BY <1>1, <1>2, <1>3
<1>5. Posted(sid) /\ PostOK(sid)
  BY DEF Open, Posted, IInv
<1>6. old \in PostOf(old.sub)
  BY <1>2, <1>5 DEF PostOK
<1>7. status \in {"sent", "made", "refused", "dropped"} /\ (old.status = "made" => status = "made")
  BY <1>1, <1>2, <1>6 DEF PostOf
<1>8. (adrift /\ status \in {"sent", "made"}) \in BOOLEAN
  OBVIOUS
<1>9. /\ entry \in PostOf(old.sub) /\ entry.open = FALSE /\ entry.status = status
  BY <1>3, <1>6, <1>7, <1>8 DEF PostOf
<1>10. PostStep
  BY <1>2, <1>4, <1>5, <1>7, <1>9, OnePostMoves
<1>11. post'[sid] = entry /\ \A s \in Request \ {sid} : post'[s] = post[s]
  BY <1>4, Types
<1>12. status = "refused" => old.status = "refused"
  BY <1>1, <1>2
<1> QED
  BY <1>2, <1>9, <1>10, <1>11, <1>12

\* Steps of the submitter that end a request it has open.
LEMMA SubmitterSteps ==
    ASSUME IInv, NEW sid \in Request, SubmitterStep(sid)
    PROVE  IInv'
<1>1. Open(sid) /\ UNCHANGED <<setup, job, dest, poll>>
  BY DEF SubmitterStep, Answered, Unanswered, TimesOut, SubmitterDies
<1>2. setup' = setup /\ job' = job /\ dest' = dest /\ poll' = poll
  BY <1>1
<1>3. RowStep
  <2>1. {"SUBMITTED", "SUBMISSION_FAILED", "LOST"} \subseteq RowState \ {"QUEUED"}
        /\ sid \in Request \cup {NoJobId} /\ NoJobId \in Request \cup {NoJobId}
    BY DEF RowState
  <2>2. CASE Answered(sid)
    <3>1. row' = SetRows(Ids(sid), "SUBMITTED", sid) \/ row' = WithoutAnswer(sid)
      BY <2>2 DEF Answered
    <3> QED
      BY <1>2, <2>1, <3>1, RowsSet, WithoutAnswerLemma
  <2>3. CASE Unanswered(sid)
    BY <1>2, <2>3, WithoutAnswerLemma DEF Unanswered
  <2>4. CASE TimesOut(sid)
    BY <1>2, <2>1, <2>4, RowsSet DEF TimesOut
  <2>5. CASE SubmitterDies(sid)
    BY <1>2, <2>1, <2>5, RowsSet DEF SubmitterDies
  <2> QED
    BY <2>2, <2>3, <2>4, <2>5 DEF SubmitterStep
<1>4. PostStep
  <2>1. \E adrift \in BOOLEAN : Close(sid, adrift)
    <3>1. (~post[sid].known) \in BOOLEAN
      OBVIOUS
    <3> QED
      BY <3>1 DEF SubmitterStep, Answered, Unanswered, TimesOut, SubmitterDies
  <2>2. PICK adrift \in BOOLEAN : Close(sid, adrift)
    BY <2>1
  <2> QED
    BY <1>1, <1>2, <2>2, CloseLemma
<1>5. faults' \in 0..setup.maxFaults
  <2>1. Fault \/ faults' = faults
    BY DEF SubmitterStep, Answered, Unanswered, TimesOut, SubmitterDies
  <2> QED
    BY <2>1, FaultLemma, Types
<1>6. /\ job' \in [Request -> Job \cup {NoJob}]
      /\ \A s \in Request : HasJob(s)' => JobOK(s)'
  BY <1>2, <1>4, JobsStay
<1> QED
  BY <1>2, <1>3, <1>4, <1>5, <1>6, Types, QuietStep

LEMMA NoStorageTokenStep ==
    ASSUME IInv, NoStorageToken
    PROVE  IInv'
<1>1. setup' = setup /\ post' = post /\ job' = job /\ dest' = dest /\ poll' = poll
  BY DEF NoStorageToken
<1>2. PICK ids : row' = SetRows(ids, "SUBMISSION_FAILED", NoJobId)
  BY DEF NoStorageToken
<1>3. "SUBMISSION_FAILED" \in RowState \ {"QUEUED"} /\ NoJobId \in Request \cup {NoJobId}
  BY DEF RowState
<1>4. RowStep /\ PostStep
  BY <1>1, <1>2, <1>3, RowsSet, PostsStay
<1>5. faults' \in 0..setup.maxFaults
  BY FaultLemma DEF NoStorageToken
<1>6. /\ job' \in [Request -> Job \cup {NoJob}]
      /\ \A s \in Request : HasJob(s)' => JobOK(s)'
  BY <1>1, <1>4, JobsStay
<1> QED
  BY <1>1, <1>4, <1>5, <1>6, Types, QuietStep

LEMMA ArriveStep ==
    ASSUME IInv, NEW sid \in Request, Arrive(sid)
    PROVE  IInv'
<1>1. /\ setup' = setup /\ row' = row /\ dest' = dest /\ poll' = poll
      /\ Posted(sid) /\ post[sid].status = "sent"
  BY DEF Arrive, Posted
<1>2. PICK sub : sub = post[sid].sub
  OBVIOUS
<1>3. PICK lookup \in BOOLEAN : \E status \in {"refused", "made"} :
          /\ status = IF Refused(sub, setup.fts, lookup) THEN "refused" ELSE "made"
          /\ IF lookup THEN UNCHANGED faults ELSE Fault
          /\ post' = [post EXCEPT ![sid].status = status]
          /\ \/ Refused(sub, setup.fts, lookup) /\ UNCHANGED job
             \/ /\ ~Refused(sub, setup.fts, lookup)
                /\ \E entry \in DOMAIN sub.files[1].sources :
                      /\ JobType(sub) = "R" \/ entry = 1
                      /\ job' = [job EXCEPT ![sid] = Built(sub, entry)]
  BY <1>2 DEF Arrive
<1>4. PICK status \in {"refused", "made"} :
          /\ status = IF Refused(sub, setup.fts, lookup) THEN "refused" ELSE "made"
          /\ IF lookup THEN UNCHANGED faults ELSE Fault
          /\ post' = [post EXCEPT ![sid].status = status]
          /\ \/ Refused(sub, setup.fts, lookup) /\ UNCHANGED job
             \/ /\ ~Refused(sub, setup.fts, lookup)
                /\ \E entry \in DOMAIN sub.files[1].sources :
                      /\ JobType(sub) = "R" \/ entry = 1
                      /\ job' = [job EXCEPT ![sid] = Built(sub, entry)]
  BY <1>3
<1>5. /\ PostOK(sid) /\ SubOK(sub) /\ sid = sub.files[1].id
      /\ post[sid] \in PostOf(sub) /\ (post[sid].open => ~post[sid].adrift)
  BY <1>1, <1>2 DEF IInv, PostOK
<1>6. PostStep /\ post'[sid].status = status /\ post'[sid].sub = sub
  <2>1. PICK old : old = post[sid]
    OBVIOUS
  <2>2. PICK entry : entry = [old EXCEPT !.status = status]
    OBVIOUS
  <2>3. status \in {"refused", "made"}
    BY <1>4
  <2>4. /\ entry \in PostOf(sub) /\ entry.open = old.open /\ entry.adrift = old.adrift
        /\ entry.status = status /\ entry.sub = sub
    BY <1>5, <2>1, <2>2, <2>3 DEF PostOf
  <2>5. post' = [post EXCEPT ![sid] = entry]
    BY <1>4, <2>1, <2>2
  <2>6. PostStep
    <3>1. entry \in PostOf(post[sid].sub) /\ (entry.open => ~entry.adrift)
      BY <1>2, <1>5, <2>1, <2>4
    <3>2. post[sid].status # "made"
      BY <1>1
    <3>3. IInv /\ setup' = setup /\ sid \in Request /\ Posted(sid)
      BY <1>1
    <3> QED
      BY ONLY <2>5, <3>1, <3>2, <3>3, OnePostMoves
  <2>7. post'[sid] = entry
    BY <2>5, Types
  <2> QED
    BY <2>4, <2>6, <2>7
<1>7. RowStep
  BY <1>1, RowsSame
<1>8. faults' \in 0..setup.maxFaults
  BY <1>4, FaultLemma, Types
<1>9. /\ job' \in [Request -> Job \cup {NoJob}]
      /\ \A s \in Request : HasJob(s)' => JobOK(s)'
  <2>1. CASE job' = job
    BY <1>1, <1>6, <2>1, JobsStay
  <2>2. CASE job' # job
    <3>1. ~Refused(sub, setup.fts, lookup) /\ status = "made"
      BY <1>4, <2>2
    <3>2. PICK entry \in DOMAIN sub.files[1].sources :
              /\ JobType(sub) = "R" \/ entry = 1
              /\ job' = [job EXCEPT ![sid] = Built(sub, entry)]
      BY <1>4, <3>1
    <3>3. PICK b : b = Built(sub, entry)
      OBVIOUS
    <3>4. ~TypeRefused(sub)
      BY <3>1 DEF Refused
    <3>5. /\ b \in Job /\ FilesInTurn(b)
          /\ b.multi <=> b.type = "R"
          /\ b.type = "H" => sub.params.multihop
          /\ b.flag = OverwriteFlag(sub.params)
          /\ b.flag \in {"M", "Q"} => b.type = "H"
          /\ b.type = "R" => /\ \A i \in DOMAIN b.files : b.files[i].id = sid
                             /\ Len(sub.files[1].sources) > 1
          /\ b.type # "R" => /\ Len(b.files) = Len(sub.files)
                             /\ \A i \in DOMAIN b.files : b.files[i].id = sub.files[i].id
      BY <1>5, <3>2, <3>3, <3>4, BuiltLemma
    <3>6. job'[sid] = b /\ \A s \in Request \ {sid} : job'[s] = job[s]
      BY <3>2, <3>3, Types
    <3>7. job' \in [Request -> Job \cup {NoJob}]
      BY <3>2, <3>3, <3>5, Types
    <3>8. Posted(sid)'
      BY <1>1, <1>6 DEF PostStep
    <3>9. JobOK(sid)'
      BY <1>6, <3>1, <3>5, <3>6, <3>8 DEF JobOK
    <3>10. ASSUME NEW s \in Request, HasJob(s)', s # sid  PROVE JobOK(s)'
      <4>1. PICK c : c = job[s]
        OBVIOUS
      <4>2. HasJob(s) /\ job'[s] = c
        BY <3>6, <3>10, <4>1 DEF HasJob
      <4>3. c \in Job /\ FilesInTurn(c)
        BY <4>1, <4>2 DEF IInv, JobOK
      <4>4. SameJob(c, c)
        BY <4>3 DEF SameJob
      <4> QED
        BY <1>1, <1>6, <4>1, <4>2, <4>3, <4>4, JobOKStays
    <3> QED
      BY <3>7, <3>9, <3>10
  <2> QED
    BY <2>1, <2>2
<1> QED
  BY <1>1, <1>6, <1>7, <1>8, <1>9, Types, QuietStep

\* A step of FTS that changes the files of one job.
LEMMA JobStep ==
    ASSUME IInv, NEW sid \in Request, HasJob(sid), NEW a, a = job[sid], NEW b, SameJob(a, b),
           FilesInTurn(b), job' = [job EXCEPT ![sid] = b],
           setup' = setup, row' = row, post' = post, poll' = poll,
           dest' \in [Transfer -> Copy], faults' \in 0..setup.maxFaults
    PROVE  IInv'
<1>1. RowStep /\ PostStep
  BY RowsSame, PostsStay
<1>2. /\ job' \in [Request -> Job \cup {NoJob}]
      /\ \A s \in Request : HasJob(s)' => JobOK(s)'
  BY <1>1, OneJobMoves
<1> QED
  BY <1>1, <1>2, Types, QuietStep

LEMMA EndFileStep ==
    ASSUME IInv, NEW sid \in Request, NEW i, InState(sid, i, Active),
           NEW state \in {"ARCHIVING", "FINISHED", "FAILED"},
           NEW found \in {"nothing", "on_tape", "on_disk", "corrupted"},
           EndFile(sid, i, state, found),
           setup' = setup, row' = row, post' = post, poll' = poll,
           dest' \in [Transfer -> Copy], faults' \in 0..setup.maxFaults
    PROVE  IInv'
<1>1. PICK a : a = job[sid]
  OBVIOUS
<1>2. HasJob(sid) /\ i \in DOMAIN a.files /\ a.files[i].state \in Active
  BY <1>1 DEF InState, HasJob
<1>3. a \in Job /\ FilesInTurn(a)
  BY <1>1, <1>2 DEF IInv, JobOK
<1>4. PICK files \in FilesAfter(a, i, state, found) : job' = [job EXCEPT ![sid].files = files]
  BY <1>1 DEF EndFile
<1>5. PICK b : b = [a EXCEPT !.files = files]
  OBVIOUS
<1>6. SameJob(a, b) /\ FilesInTurn(b)
  BY <1>2, <1>3, <1>4, <1>5, EndFileLemma
<1>7. job' = [job EXCEPT ![sid] = b]
  BY <1>1, <1>4, <1>5
<1> QED
  BY <1>1, <1>2, <1>6, <1>7, JobStep

\* The destination of a file is that of a transfer.
LEMMA TargetLemma ==
    ASSUME IInv, NEW sid \in Request, HasJob(sid), NEW i \in DOMAIN job[sid].files
    PROVE  Target(sid, i) \in Transfer /\ dest[Target(sid, i)] \in Copy
<1>1. PICK a : a = job[sid]
  OBVIOUS
<1>2. a \in Job
  BY <1>1 DEF IInv, JobOK
<1>3. a.files[i] \in File
  BY <1>1, <1>2, JobFiles
<1>4. a.files[i].id \in Request
  BY <1>3 DEF File
<1>5. Target(sid, i) = a.files[i].id[1]
  BY <1>1 DEF Target
<1> QED
  BY <1>4, <1>5, Types DEF Request

LEMMA CopyFileStep ==
    ASSUME IInv, NEW sid \in Request, NEW i \in FileNumbers(sid), CopyFile(sid, i)
    PROVE  IInv'
<1>1. /\ setup' = setup /\ row' = row /\ post' = post /\ poll' = poll /\ faults' = faults
      /\ InState(sid, i, {"SUBMITTED", "STAGING"})
  BY DEF CopyFile
<1>2. InState(sid, i, Active) /\ HasJob(sid) /\ i \in DOMAIN job[sid].files
  BY <1>1 DEF InState, Active, HasJob
<1>3. PICK t \in Transfer : t = Target(sid, i) /\ dest[t] \in Copy
  BY <1>2, TargetLemma
<1>4. \/ /\ dest' = [dest EXCEPT ![t] = [content |-> "good", onTape |-> FALSE]]
         /\ EndFile(sid, i, IF Archives(sid, i) THEN "ARCHIVING" ELSE "FINISHED", "nothing")
      \/ /\ dest' = dest
         /\ EndFile(sid, i, "FAILED", IF job[sid].report THEN Found(dest[t]) ELSE "nothing")
  BY <1>3 DEF CopyFile
<1>5. dest' \in [Transfer -> Copy]
  <2>1. [content |-> "good", onTape |-> FALSE] \in Copy
    BY DEF Copy
  <2> QED
    BY <1>4, <2>1, Types
<1>6. Found(dest[t]) \in {"on_tape", "on_disk", "corrupted"}
  BY DEF Found
<1>7. \E state \in {"ARCHIVING", "FINISHED", "FAILED"},
         found \in {"nothing", "on_tape", "on_disk", "corrupted"} : EndFile(sid, i, state, found)
  BY <1>4, <1>6
<1> QED
  BY <1>1, <1>2, <1>5, <1>7, Types, EndFileStep

LEMMA CopyFailsStep ==
    ASSUME IInv, NEW sid \in Request, NEW i \in FileNumbers(sid), CopyFails(sid, i)
    PROVE  IInv'
<1>1. /\ setup' = setup /\ row' = row /\ post' = post /\ poll' = poll /\ Fault
      /\ InState(sid, i, {"SUBMITTED", "STAGING"}) /\ EndFile(sid, i, "FAILED", "nothing")
  BY DEF CopyFails
<1>2. InState(sid, i, Active) /\ HasJob(sid) /\ i \in DOMAIN job[sid].files
  BY <1>1 DEF InState, Active, HasJob
<1>3. PICK t \in Transfer : t = Target(sid, i) /\ dest[t] \in Copy
  BY <1>2, TargetLemma
<1>4. PICK content \in {dest[t].content, "none", "bad"} :
         dest' = dest \/ dest' = [dest EXCEPT ![t] = [content |-> content, onTape |-> FALSE]]
  BY <1>3 DEF CopyFails
<1>5. content \in {"none", "bad", "good"}
  BY <1>3, <1>4 DEF Copy
<1>6. dest' \in [Transfer -> Copy]
  <2>1. [content |-> content, onTape |-> FALSE] \in Copy
    BY <1>5 DEF Copy
  <2> QED
    BY <1>4, <2>1, Types
<1>7. faults' \in 0..setup.maxFaults
  BY <1>1, FaultLemma
<1> QED
  BY <1>1, <1>2, <1>6, <1>7, EndFileStep

LEMMA ArchivingEndsStep ==
    ASSUME IInv, NEW sid \in Request, NEW i \in FileNumbers(sid), ArchivingEnds(sid, i)
    PROVE  IInv'
<1>1. /\ setup' = setup /\ row' = row /\ post' = post /\ poll' = poll /\ dest' = dest
      /\ InState(sid, i, Active)
      /\ EndFile(sid, i, "FINISHED", "nothing") \/ EndFile(sid, i, "FAILED", "nothing")
      /\ faults' = faults \/ Fault
  BY DEF ArchivingEnds, InState, Active
<1>2. faults' \in 0..setup.maxFaults
  BY <1>1, FaultLemma, Types
<1> QED
  BY <1>1, <1>2, Types, EndFileStep

LEMMA ToTapeStep ==
    ASSUME IInv, NEW t \in Transfer, ToTape(t)
    PROVE  IInv'
<1>1. /\ setup' = setup /\ row' = row /\ post' = post /\ job' = job /\ poll' = poll
      /\ faults' = faults /\ dest' = [dest EXCEPT ![t].onTape = TRUE]
  BY DEF ToTape
<1>2. dest' \in [Transfer -> Copy]
  <2>1. PICK copy \in Copy : copy = dest[t]
    BY Types
  <2>2. [copy EXCEPT !.onTape = TRUE] \in Copy
    BY DEF Copy
  <2> QED
    BY <1>1, <2>1, <2>2, Types
<1>3. RowStep /\ PostStep
  BY <1>1, RowsSame, PostsStay
<1>4. /\ job' \in [Request -> Job \cup {NoJob}]
      /\ \A s \in Request : HasJob(s)' => JobOK(s)'
  BY <1>1, <1>3, JobsStay
<1> QED
  BY <1>1, <1>2, <1>3, <1>4, Types, QuietStep

LEMMA CancelStep ==
    ASSUME IInv, NEW sid \in Request, Cancel(sid)
    PROVE  IInv'
<1>1. /\ setup' = setup /\ row' = row /\ post' = post /\ poll' = poll /\ dest' = dest
      /\ HasJob(sid) /\ Fault
  BY DEF Cancel, HasJob
<1>2. PICK a : a = job[sid]
  OBVIOUS
<1>3. a \in Job /\ FilesInTurn(a)
  BY <1>1, <1>2 DEF IInv, JobOK
<1>4. PICK files : files = [i \in DOMAIN a.files |->
                               IF a.files[i].state \in Active
                               THEN [a.files[i] EXCEPT !.state = "CANCELED"] ELSE a.files[i]]
  OBVIOUS
<1>5. PICK b : b = [a EXCEPT !.files = files]
  OBVIOUS
<1>6. SameJob(a, b) /\ FilesInTurn(b)
  BY <1>3, <1>4, <1>5, CancelLemma
<1>7. job' = [job EXCEPT ![sid] = b]
  BY <1>2, <1>4, <1>5 DEF Cancel
<1>8. faults' \in 0..setup.maxFaults
  BY <1>1, FaultLemma
<1> QED
  BY <1>1, <1>2, <1>6, <1>7, <1>8, Types, JobStep

\* What a report does to the rows.
LEMMA RowsReported ==
    ASSUME IInv, setup' = setup, NEW sid \in Request,
           row' = [t \in Transfer |-> row'[t]],
           \A t \in Transfer :
               \/ row'[t] = row[t]
               \/ \E file : \E new \in {"DONE", "FAILED"} : row'[t] = Reported(row[t], sid, new, file)
    PROVE  RowStep
<1>1. ASSUME NEW t \in Transfer
      PROVE  /\ row'[t] \in Row /\ row'[t].n = row[t].n
             /\ row'[t].state = "QUEUED" => row[t].state = "QUEUED"
             /\ row'[t].overwrite \in {row[t].overwrite, "yes"}
  <2>1. PICK old \in Row : old = row[t]
    BY Types
  <2>2. CASE row'[t] = old
    BY <2>1, <2>2
  <2>3. CASE row'[t] # old
    <3>0. PICK file : \E new \in {"DONE", "FAILED"} : row'[t] = Reported(old, sid, new, file)
      BY <2>1, <2>3
    <3>1. PICK new \in {"DONE", "FAILED"} : row'[t] = Reported(old, sid, new, file)
      BY <3>0
    <3>2. new \in RowState /\ new # "QUEUED"
      BY DEF RowState
    <3> QED
      BY <2>1, <3>1, <3>2, ReportedLemma
  <2> QED
    BY <2>2, <2>3
<1>2. row' \in [Transfer -> Row]
  BY <1>1
<1> QED
  BY <1>1, <1>2, RowsStay

LEMMA ApiStates ==
    ASSUME NEW j, NEW file
    PROVE  ApiState(j, file) \in {"DONE", "FAILED", "none"}
BY DEF ApiState, StateOfFailed

LEMMA MessageStates ==
    ASSUME NEW file
    PROVE  MessageState(file) \in {"DONE", "FAILED", "none"}
BY DEF MessageState, StateOfFailed

\* A step of the poller, or of what it reports to.
LEMMA ReportStepLemma ==
    ASSUME IInv, RowStep, setup' = setup, post' = post, job' = job, dest' = dest,
           faults' = faults, poll' \in [Request -> Poll \cup {NoPoll}]
    PROVE  IInv'
<1>1. PostStep
  BY PostsStay
<1>2. /\ job' \in [Request -> Job \cup {NoJob}]
      /\ \A s \in Request : HasJob(s)' => JobOK(s)'
  BY <1>1, JobsStay
<1> QED
  BY <1>1, <1>2, Types, QuietStep

LEMMA ReceiveStep ==
    ASSUME IInv, NEW sid \in Request, NEW i, Receive(sid, i)
    PROVE  IInv'
<1>1. /\ setup' = setup /\ post' = post /\ job' = job /\ dest' = dest /\ poll' = poll
      /\ faults' = faults
  BY DEF Receive
<1>2. PICK file, u : /\ MessageState(file) # "none"
                     /\ row' = [row EXCEPT ![u] = Reported(@, sid, MessageState(file), file)]
  BY DEF Receive, Applies
<1>3. PICK new \in {"DONE", "FAILED"} :
         row' = [row EXCEPT ![u] = Reported(row[u], sid, new, file)]
  BY <1>2, MessageStates
<1>4. \A t \in Transfer : row'[t] = row[t] \/ row'[t] = Reported(row[t], sid, new, file)
  BY <1>3, Types
<1>5. row' = [t \in Transfer |-> row'[t]]
  BY <1>3, Types
<1>6. RowStep
  BY <1>1, <1>4, <1>5, RowsReported
<1> QED
  BY <1>1, <1>6, Types, ReportStepLemma

LEMMA PollRowsStep ==
    ASSUME IInv, NEW sid \in Request, PollRows(sid)
    PROVE  IInv'
<1>1. /\ setup' = setup /\ post' = post /\ job' = job /\ dest' = dest /\ row' = row
      /\ faults' = faults
  BY DEF PollRows
<1>2. PICK ts \in SUBSET Transfer :
         poll' = [poll EXCEPT ![sid] =
                     [rows |-> {<<CurrentId(t), row[t]>> : t \in ts}, asked |-> FALSE,
                      answer |-> NoJob]]
  BY DEF PollRows
<1>3. \A t \in ts : CurrentId(t) \in Request /\ row[t] \in Row
  BY Types DEF CurrentId, Request, Row
<1>4. PICK rows : rows = {<<CurrentId(t), row[t]>> : t \in ts}
  OBVIOUS
<1>5. rows \subseteq Request \X Row
  BY <1>3, <1>4
<1>6. [rows |-> rows, asked |-> FALSE, answer |-> NoJob] \in Poll
  BY <1>5 DEF Poll
<1>7. poll' \in [Request -> Poll \cup {NoPoll}]
  BY <1>2, <1>4, <1>6, Types
<1> QED
  BY <1>1, <1>7, RowsSame, ReportStepLemma

LEMMA PollJobStep ==
    ASSUME IInv, NEW sid \in Request, PollJob(sid)
    PROVE  IInv'
<1>1. /\ setup' = setup /\ post' = post /\ job' = job /\ dest' = dest /\ row' = row
      /\ faults' = faults
  BY DEF PollJob
<1>2. poll[sid] \in Poll /\ job[sid] \in Job \cup {NoJob}
  BY Types DEF PollJob
<1>3. PICK p \in Poll : p = poll[sid]
  BY <1>2
<1>4. PICK q : q = [p EXCEPT !.asked = TRUE, !.answer = job[sid]]
  OBVIOUS
<1>5. q \in Poll
  BY <1>2, <1>4 DEF Poll
<1>6. poll' = [poll EXCEPT ![sid] = q]
  BY <1>3, <1>4 DEF PollJob
<1>7. poll' \in [Request -> Poll \cup {NoPoll}]
  BY <1>5, <1>6, Types
<1> QED
  BY <1>1, <1>7, RowsSame, ReportStepLemma

LEMMA PollAppliedStep ==
    ASSUME IInv, NEW sid \in Request, PollApplied(sid)
    PROVE  IInv'
<1>1. /\ setup' = setup /\ post' = post /\ job' = job /\ dest' = dest /\ faults' = faults
      /\ poll' = [poll EXCEPT ![sid] = NoPoll]
  BY DEF PollApplied
<1>2. PICK p : p = poll[sid]
  OBVIOUS
<1>3. \/ row' = RowsAfter(sid, p.answer, p.rows)
      \/ row' = SetRows({pair[1] : pair \in p.rows}, "LOST", sid)
  BY <1>2 DEF PollApplied
<1>4. ASSUME row' = RowsAfter(sid, p.answer, p.rows)  PROVE RowStep
  <2>1. PICK j, rows : row' = RowsAfter(sid, j, rows)
    BY <1>4
  <2>2. row' = [t \in Transfer |-> row'[t]]
    BY <2>1 DEF RowsAfter
  <2>3. ASSUME NEW t \in Transfer, row'[t] # row[t]
        PROVE  \E file : \E new \in {"DONE", "FAILED"} : row'[t] = Reported(row[t], sid, new, file)
    <3> DEFINE told == {file \in Reporting(j) :
                           /\ file.id = CurrentId(t) /\ row[t].state # "ARCHIVED"
                           /\ \E pair \in rows : /\ pair[1] = file.id
                                                 /\ Applies(pair[2], sid, ApiState(j, file))}
               file == CHOOSE f \in told : TRUE
    <3>1. row'[t] = IF told = {} THEN row[t] ELSE Reported(row[t], sid, ApiState(j, file), file)
      BY <2>1 DEF RowsAfter
    <3>2. told # {} /\ file \in told
      BY <2>3, <3>1
    <3>3. ApiState(j, file) # "none"
      BY <3>2 DEF Applies
    <3>. HIDE DEF file
    <3>4. ApiState(j, file) \in {"DONE", "FAILED"}
      BY <3>3, ApiStates
    <3>. HIDE DEF told
    <3> QED
      BY <3>1, <3>2, <3>4
  <2> QED
    BY <1>1, <2>2, <2>3, RowsReported
<1>5. ASSUME row' = SetRows({pair[1] : pair \in p.rows}, "LOST", sid)  PROVE RowStep
  <2>1. PICK ids : row' = SetRows(ids, "LOST", sid)
    BY <1>5
  <2>2. "LOST" \in RowState \ {"QUEUED"} /\ sid \in Request \cup {NoJobId}
    BY DEF RowState
  <2> QED
    BY <1>1, <2>1, <2>2, RowsSet
<1>6. RowStep
  BY <1>3, <1>4, <1>5
<1>7. poll' \in [Request -> Poll \cup {NoPoll}]
  BY <1>1, Types
<1> QED
  BY <1>1, <1>6, <1>7, ReportStepLemma

LEMMA FinishStep ==
    ASSUME IInv, NEW p \in DOMAIN setup.paths, Finish(p)
    PROVE  IInv'
<1>1. /\ setup' = setup /\ post' = post /\ job' = job /\ dest' = dest /\ faults' = faults
      /\ poll' = poll
  BY DEF Finish
<1> DEFINE ts == {hop.id : hop \in ToSet(Served(p))}
           over == \A t \in ts : row[t].state = "DONE" \/ row[t].n = MaxAttempts
<1>2. /\ row' = [t \in Transfer |->
              CASE t \notin ts -> row[t]
                [] t \in ts /\ over -> [row[t] EXCEPT !.state = "ARCHIVED"]
                [] OTHER -> [row[t] EXCEPT !.state = "QUEUED", !.n = @ + 1,
                                           !.external = NoJobId]]
  BY DEF Finish
<1>3. \A t \in ts : \E i \in DOMAIN Served(p) : t = Served(p)[i].id
  BY DEF ToSet
<1>4. \A i \in DOMAIN Served(p) : Served(p)[i].id \in ts
  BY DEF ToSet
<1>5. ~over => \A t \in ts : row[t].n # MaxAttempts
  <2>1. ASSUME NEW t \in ts, NEW u \in ts  PROVE row[t].n = row[u].n
    <3>1. PICK i \in DOMAIN Served(p) : t = Served(p)[i].id
      BY <1>3
    <3>2. PICK k \in DOMAIN Served(p) : u = Served(p)[k].id
      BY <1>3
    <3> QED
      BY <3>1, <3>2 DEF IInv, PathsInStep
  <2> QED
    BY <2>1
<1>6. \A q \in DOMAIN setup.paths : \A i \in DOMAIN Served(q) : Served(q)[i].id \in ts => q = p
  <2> SUFFICES ASSUME NEW q \in DOMAIN setup.paths, NEW i \in DOMAIN Served(q),
                      Served(q)[i].id \in ts
               PROVE  q = p
    OBVIOUS
  <2>1. PICK k \in DOMAIN Served(p) : Served(q)[i].id = Served(p)[k].id
    BY <1>3
  <2>2. setup \in Setups
    BY Types
  <2>3. /\ i \in DOMAIN setup.paths[q] /\ Served(q)[i] = setup.paths[q][i]
        /\ k \in DOMAIN setup.paths[p] /\ Served(p)[k] = setup.paths[p][k]
    BY <2>2, ServedLemma
  <2> QED
    BY <2>1, <2>2, <2>3, PathLemma
<1>. HIDE DEF ts, over
<1>7. ASSUME NEW t \in Transfer
      PROVE  /\ row'[t] \in Row /\ row[t].n \in Nat
             /\ row'[t].overwrite = row[t].overwrite
             /\ row'[t].n = IF t \in ts /\ ~over THEN row[t].n + 1 ELSE row[t].n
             /\ row'[t].state = "QUEUED" => row[t].state = "QUEUED" \/ (t \in ts /\ ~over)
  <2>1. PICK old \in Row : old = row[t]
    BY Types
  <2>2. old.n \in 1..MaxAttempts /\ MaxAttempts \in Nat
    BY BoundAssumption DEF Row
  <2>3. CASE t \notin ts
    <3>1. row'[t] = old
      BY <1>2, <2>1, <2>3
    <3> QED
      BY <2>1, <2>2, <2>3, <3>1
  <2>4. CASE t \in ts /\ over
    <3>1. row'[t] = [old EXCEPT !.state = "ARCHIVED"]
      BY <1>2, <2>1, <2>4
    <3> QED
      BY <2>1, <2>2, <2>4, <3>1 DEF Row, RowState
  <2>5. CASE t \in ts /\ ~over
    <3>1. row'[t] = [old EXCEPT !.state = "QUEUED", !.n = old.n + 1, !.external = NoJobId]
      BY <1>2, <2>1, <2>5
    <3>2. old.n + 1 \in 1..MaxAttempts
      BY <1>5, <2>1, <2>2, <2>5
    <3>3. PICK new : new = row'[t]
      OBVIOUS
    <3>4. /\ new \in Row /\ new.n = old.n + 1 /\ new.state = "QUEUED"
          /\ new.overwrite = old.overwrite
      BY <3>1, <3>2, <3>3 DEF Row, RowState
    <3> QED
      BY <2>1, <2>2, <2>5, <3>3, <3>4
  <2> QED
    BY <2>3, <2>4, <2>5
<1>8. row' \in [Transfer -> Row]
  BY <1>2, <1>7
<1>9. \A t \in Transfer :
          /\ row[t].n <= row'[t].n
          /\ row'[t].n = row[t].n /\ row'[t].state = "QUEUED" => row[t].state = "QUEUED"
          /\ row[t].overwrite = "yes" => row'[t].overwrite = "yes"
  BY <1>7
<1>10. PathsInStep'
  <2> SUFFICES ASSUME NEW q \in DOMAIN setup.paths, NEW i \in DOMAIN Served(q),
                      NEW k \in DOMAIN Served(q)
               PROVE  row'[Served(q)[i].id].n = row'[Served(q)[k].id].n
    BY <1>1 DEF PathsInStep, Served
  <2>1. Served(q)[i].id \in Transfer /\ Served(q)[k].id \in Transfer
    BY ServedLemma, Types DEF Hop
  <2>2. row[Served(q)[i].id].n = row[Served(q)[k].id].n
    BY DEF IInv, PathsInStep
  <2>3. Served(q)[i].id \in ts <=> Served(q)[k].id \in ts
    BY <1>4, <1>6
  <2> QED
    BY <1>7, <2>1, <2>2, <2>3
<1>11. RowStep
  BY <1>8, <1>9, <1>10 DEF RowStep
<1> QED
  BY <1>1, <1>11, Types, ReportStepLemma

\* What Submit does with the submission of a job.
NewPost(sub, known) == [sub |-> sub, status |-> "sent", open |-> TRUE, known |-> known,
                        adrift |-> FALSE]

Sending(j, sub, known) ==
    /\ post' = [post EXCEPT ![j.transfers[1].id] = NewPost(sub, known)]
    /\ row' = SetRows({file.id : file \in ToSet(sub.files)}, "SUBMITTING", NoJobId)

\* A job of queued requests is sent; they belonged to no submission.
Sends(sid, sub, new) ==
    /\ setup' = setup /\ job' = job /\ dest' = dest /\ poll' = poll
    /\ faults' = faults \/ Fault
    /\ SubOK(sub) /\ ChecksFit(sub) /\ sid = sub.files[1].id
    /\ new = {file.id : file \in ToSet(sub.files)} /\ sid \in new
    /\ \A id \in new :
          /\ id[1] \in Transfer /\ id = CurrentId(id[1]) /\ row[id[1]].state = "QUEUED"
          /\ IsTape(id[1]) /\ ~AllowsOverwrite(id[1]) /\ sub.params.overwrite
             => row[id[1]].overwrite = "yes"
    /\ \A s \in Request : Posted(s) => Ids(s) \cap new = {}
    /\ ~Posted(sid)
    /\ DOMAIN post' = Request /\ \A s \in Request \ {sid} : post'[s] = post[s]
    /\ post'[sid] \in PostOf(sub) /\ post'[sid].sub = sub /\ post'[sid].status = "sent"
    /\ post'[sid].open /\ ~post'[sid].adrift /\ post'[sid] # NoPost
    /\ AsSet(row', new, "SUBMITTING", NoJobId)

LEMMA SubmitSends ==
    ASSUME IInv, Submit
    PROVE  \E sid \in Request : \E sub, new : Sends(sid, sub, new)
<1>1. setup' = setup /\ job' = job /\ dest' = dest /\ poll' = poll
  BY DEF Submit
<1>2. PICK chosen \in SUBSET {p \in DOMAIN setup.paths : Queued(p)} :
          /\ ServedTogether(chosen)
          /\ \E j \in JobsOf(chosen), token, known \in BOOLEAN :
                /\ faults' = faults \/ Fault
                /\ \E sub \in Submissions(j, token) : Sending(j, sub, known)
  BY ZenonT(60) DEF Submit, Sending, NewPost
<1>3. PICK j \in JobsOf(chosen), token \in BOOLEAN, known \in BOOLEAN :
          /\ faults' = faults \/ Fault
          /\ \E sub \in Submissions(j, token) : Sending(j, sub, known)
  BY <1>2
<1>4. PICK sub \in Submissions(j, token) : Sending(j, sub, known)
  BY <1>3
<1>5. /\ chosen \in SUBSET DOMAIN setup.paths /\ \A p \in chosen : Served(p) # <<>>
      /\ setup \in Setups /\ row \in [Transfer -> Row]
  BY <1>2, Types DEF ServedTogether
<1>6. JobFits(j, chosen)
  BY <1>5, JobsFit
<1>7. /\ SubOK(sub)
      /\ j.transfers[1].id = sub.files[1].id /\ sub.files[1].id \in Request
      /\ Fresh(sub, chosen)
  BY ONLY <1>4, <1>5, <1>6, token \in BOOLEAN, SubmissionLemma
<1>8. PICK sid \in Request : sid = sub.files[1].id /\ sid = j.transfers[1].id
  BY <1>7
<1>9. PICK new : new = {file.id : file \in ToSet(sub.files)}
  OBVIOUS
<1>10. ASSUME NEW id \in new
       PROVE  /\ id[1] \in Transfer /\ id = CurrentId(id[1]) /\ row[id[1]].state = "QUEUED"
              /\ IsTape(id[1]) /\ ~AllowsOverwrite(id[1]) /\ sub.params.overwrite
                 => row[id[1]].overwrite = "yes"
  <2>1. PICK i \in DOMAIN sub.files : id = sub.files[i].id
    BY <1>9 DEF ToSet
  <2>2. PICK p \in chosen : \E k \in DOMAIN Served(p) : id[1] = Served(p)[k].id
    BY <1>7, <2>1 DEF Fresh
  <2>3. Queued(p)
    OBVIOUS
  <2>4. row[id[1]].state = "QUEUED"
    BY <2>2, <2>3 DEF Queued, ToSet
  <2> QED
    BY <1>7, <2>1, <2>4 DEF Fresh
<1>11. sid \in new
  <2>1. sub.files \in Seq(SubFile) /\ sub.files # <<>>
    BY <1>7 DEF SubOK
  <2>2. 1 \in DOMAIN sub.files
    BY <2>1
  <2> QED
    BY <1>8, <1>9, <2>2 DEF ToSet
<1>12. \A s \in Request : Posted(s) => Ids(s) \cap new = {}
  BY <1>10 DEF IInv, IdsApart
<1>13. ~Posted(sid)
  <2> SUFFICES ASSUME Posted(sid)  PROVE FALSE
    OBVIOUS
  <2>1. /\ sid = post[sid].sub.files[1].id
        /\ post[sid].sub.files \in Seq(SubFile) /\ post[sid].sub.files # <<>>
    BY DEF IInv, PostOK, SubOK
  <2>2. 1 \in DOMAIN post[sid].sub.files
    <3>1. PICK fs : fs = post[sid].sub.files
      OBVIOUS
    <3> QED
      BY <2>1, <3>1
  <2>3. sid \in Ids(sid)
    BY <2>1, <2>2 DEF Ids, ToSet
  <2> QED
    BY <1>11, <1>12, <2>3
<1>14. PICK entry : entry = NewPost(sub, known)
  OBVIOUS
<1>15. /\ entry \in PostOf(sub) /\ entry.sub = sub /\ entry.status = "sent" /\ entry.open
       /\ ~entry.adrift /\ entry # NoPost
  BY <1>14 DEF NewPost, PostOf, NoPost
<1>16. /\ DOMAIN post' = Request /\ post'[sid] = entry
       /\ \A s \in Request \ {sid} : post'[s] = post[s]
  BY <1>4, <1>8, <1>14, Types DEF Sending
<1>17. AsSet(row', new, "SUBMITTING", NoJobId)
  <2>1. PICK rows : rows = SetRows(new, "SUBMITTING", NoJobId)
    OBVIOUS
  <2>2. "SUBMITTING" \in RowState /\ NoJobId \in Request \cup {NoJobId}
    BY DEF RowState
  <2>3. AsSet(rows, new, "SUBMITTING", NoJobId)
    BY ONLY <1>5, <2>1, <2>2, SetRowsLemma
  <2> QED
    BY <1>4, <1>9, <2>1, <2>3 DEF Sending
<1>18. faults' = faults \/ Fault
  BY <1>3
<1>19. SubOK(sub) /\ ChecksFit(sub) /\ sid = sub.files[1].id
  <2>1. ChecksFit(sub)
    BY <1>5, JobsAsk, SubmissionChecks
  <2> QED
    BY <1>7, <1>8, <2>1
<1>20. Sends(sid, sub, new)
  BY <1>1, <1>9, <1>10, <1>11, <1>12, <1>13, <1>15, <1>16, <1>17, <1>18, <1>19 DEF Sends
<1> QED
  BY <1>20

\* A request that is queued belongs to no submission, and what is sent is queued.
LEMMA SubmitStep ==
    ASSUME IInv, Submit
    PROVE  IInv'
<1>1. PICK sid \in Request : \E sub, new : Sends(sid, sub, new)
  BY SubmitSends
<1>2. PICK sub, new : Sends(sid, sub, new)
  BY <1>1
<1>3. setup' = setup /\ job' = job /\ dest' = dest /\ poll' = poll
  BY <1>2 DEF Sends
<1>4. faults' = faults \/ Fault
  BY <1>2 DEF Sends
<1>5. setup \in Setups /\ row \in [Transfer -> Row]
  BY Types
<1>6. SubOK(sub) /\ sid = sub.files[1].id
  BY <1>2 DEF Sends
<1>7. new = {file.id : file \in ToSet(sub.files)} /\ sid \in new
  BY <1>2 DEF Sends
<1>8. ASSUME NEW id \in new
       PROVE  /\ id[1] \in Transfer /\ id = CurrentId(id[1]) /\ row[id[1]].state = "QUEUED"
              /\ IsTape(id[1]) /\ ~AllowsOverwrite(id[1]) /\ sub.params.overwrite
                 => row[id[1]].overwrite = "yes"
  BY <1>2 DEF Sends
<1>9. \A s \in Request : Posted(s) => Ids(s) \cap new = {}
  BY <1>2 DEF Sends
<1>10. ~Posted(sid)
  BY <1>2 DEF Sends
<1>11. PICK entry : entry = post'[sid]
  OBVIOUS
<1>12. /\ entry \in PostOf(sub) /\ entry.sub = sub /\ entry.status = "sent" /\ ~entry.adrift
       /\ entry # NoPost
  BY <1>2, <1>11 DEF Sends
<1>13. /\ DOMAIN post' = Request /\ post'[sid] = entry
       /\ \A s \in Request \ {sid} : post'[s] = post[s]
  BY <1>2, <1>11 DEF Sends
<1>14. /\ row' \in [Transfer -> Row]
       /\ \A t \in Transfer :
             /\ row'[t].n = row[t].n /\ row'[t].overwrite = row[t].overwrite
             /\ row'[t].state = "QUEUED" => row[t].state = "QUEUED"
             /\ CurrentId(t) \in new => row'[t].state # "QUEUED"
  <2>1. AsSet(row', new, "SUBMITTING", NoJobId)
    BY <1>2 DEF Sends
  <2>2. \A t \in Transfer : CurrentId(t) \in new => row[t].state = "QUEUED"
    BY <1>8 DEF CurrentId
  <2> QED
    BY <2>1, <2>2 DEF AsSet
<1>15. \A s \in Request : Posted(s)' => s = sid \/ (Posted(s) /\ s # sid)
  BY <1>13 DEF Posted
<1>16. Ids(sid)' = new /\ \A s \in Request \ {sid} : Ids(s)' = Ids(s)
  BY <1>7, <1>12, <1>13 DEF Ids
<1>17. ASSUME NEW s \in Request, Posted(s)'  PROVE PostOK(s)'
  <2>1. CASE s = sid
    <3>1. SubOK(sub)'
      BY <1>3, <1>6, SubOKStays
    <3>2. post'[sid] \in PostOf(post'[sid].sub) /\ SubOK(post[sid].sub)'
          /\ ~post'[sid].adrift /\ sid = post'[sid].sub.files[1].id
      BY <1>6, <1>12, <1>13, <3>1
    <3> QED
      BY <2>1, <3>2 DEF PostOK
  <2>2. CASE s # sid
    <3>1. Posted(s) /\ PostOK(s) /\ post'[s] = post[s]
      BY <1>13, <1>15, <1>17, <2>2 DEF IInv
    <3>2. PICK old : old = post[s].sub
      OBVIOUS
    <3>3. post[s] \in PostOf(old) /\ (post[s].open => ~post[s].adrift)
      BY <3>1, <3>2 DEF PostOK
    <3> QED
      BY <1>3, <3>1, <3>2, <3>3, PostOKStays
  <2> QED
    BY <2>1, <2>2
<1>18. ASSUME NEW s \in Request, HasJob(s)'  PROVE JobOK(s)'
  <2>1. HasJob(s) /\ JobOK(s)
    BY <1>3, <1>18 DEF HasJob, IInv
  <2>2. Posted(s) /\ s # sid
    BY <1>10, <2>1 DEF JobOK
  <2>3. post'[s] = post[s] /\ job'[s] = job[s]
    BY <1>3, <1>13, <2>2
  <2> QED
    BY <2>1, <2>3 DEF JobOK, Posted
<1>19. ASSUME NEW s \in Request, Posted(s)', NEW id \in Ids(s)'
       PROVE  /\ id[1] \in Transfer /\ id[2] <= row[id[1]].n
              /\ id = CurrentId(id[1]) => row'[id[1]].state # "QUEUED"
  <2>1. CASE s = sid
    <3>1. id \in new
      BY <1>16, <1>19, <2>1
    <3>2. id[1] \in Transfer /\ id = CurrentId(id[1])
      BY <1>8, <3>1
    <3>3. id[2] = row[id[1]].n /\ row[id[1]].n \in Nat
      BY <3>2, Types DEF CurrentId, Row
    <3> QED
      BY <1>14, <3>1, <3>2, <3>3
  <2>2. CASE s # sid
    <3>1. Posted(s) /\ id \in Ids(s)
      BY <1>15, <1>16, <1>19, <2>2
    <3>2. id[2] <= row[id[1]].n /\ (id = CurrentId(id[1]) => row[id[1]].state # "QUEUED")
      BY <3>1 DEF IInv, IdsApart
    <3>3. id[1] \in Transfer
      <4>1. PICK fs : fs = post[s].sub.files
        OBVIOUS
      <4>2. fs \in Seq(SubFile)
        BY <3>1, <4>1 DEF IInv, PostOK, SubOK
      <4>3. PICK i \in DOMAIN fs : id = fs[i].id
        BY <3>1, <4>1 DEF Ids, ToSet
      <4>4. fs[i] \in SubFile
        BY <4>2
      <4>5. fs[i].id \in Request
        BY <4>4 DEF SubFile
      <4> QED
        BY <4>3, <4>5 DEF Request
    <3> QED
      BY <1>14, <3>2, <3>3
  <2> QED
    BY <2>1, <2>2
<1>20. \A t \in Transfer : CurrentId(t)' = CurrentId(t)
  BY <1>14 DEF CurrentId
<1>21. IdsApart'
  <2>1. ASSUME NEW s \in Request, NEW other \in Request, Posted(s)', Posted(other)',
               (Ids(s) \cap Ids(other))' # {}
        PROVE  s = other
    <3>1. CASE s # sid /\ other # sid
      BY <1>15, <1>16, <2>1, <3>1 DEF IInv, IdsApart
    <3>2. CASE s = sid /\ other # sid
      BY <1>9, <1>15, <1>16, <2>1, <3>2
    <3>3. CASE s # sid /\ other = sid
      BY <1>9, <1>15, <1>16, <2>1, <3>3
    <3> QED
      BY <3>1, <3>2, <3>3
  <2> QED
    BY <1>14, <1>19, <1>20, <2>1 DEF IdsApart
<1>22. PathsInStep'
  <2>1. \A p : Served(p)' = Served(p)
    BY <1>3 DEF Served
  <2>2. \A p \in DOMAIN setup.paths : \A i \in DOMAIN Served(p) : Served(p)[i].id \in Transfer
    BY <1>5, ServedLemma DEF Hop
  <2> QED
    BY <1>3, <1>14, <2>1, <2>2 DEF IInv, PathsInStep
<1>23. FlagsFit'
  <2> SUFFICES ASSUME NEW s \in Request, Posted(s)', NEW id \in Ids(s)',
                      IsTape(id[1])', ~AllowsOverwrite(id[1])', post'[s].sub.params.overwrite
               PROVE  row'[id[1]].overwrite = "yes"
    BY DEF FlagsFit
  <2>1. IsTape(id[1]) /\ ~AllowsOverwrite(id[1])
    BY <1>3 DEF IsTape, AllowsOverwrite, Hops, Served
  <2>2. row[id[1]].overwrite = "yes"
    <3>1. CASE s = sid
      BY <1>8, <1>12, <1>13, <1>16, <2>1, <3>1
    <3>2. CASE s # sid
      BY <1>13, <1>15, <1>16, <2>1, <3>2 DEF IInv, FlagsFit
    <3> QED
      BY <3>1, <3>2
  <2> QED
    BY <1>14, <1>19, <2>2
<1>24. faults' \in 0..setup.maxFaults
  BY <1>4, FaultLemma, Types
<1> QED
  BY <1>3, <1>13, <1>14, <1>17, <1>18, <1>21, <1>22, <1>23, <1>24, Types DEF IInv

--------------------------------------------------------------------------------
(* The inductive invariant.                                                *)

LEMMA InitIInv ==
    ASSUME Init
    PROVE  IInv
<1>1. /\ setup \in Setups /\ faults = 0
      /\ post = [r \in Request |-> NoPost] /\ job = [r \in Request |-> NoJob]
      /\ poll = [r \in Request |-> NoPoll]
      /\ row = [t \in Transfer |->
                   [n |-> 1, external |-> NoJobId, overwrite |-> "unset",
                    state |-> IF \E hop \in Hops : hop.id = t THEN "QUEUED" ELSE "ARCHIVED"]]
      /\ dest \in {d \in [Transfer -> Copy] : \A t \in Transfer : d[t] \in setup.held}
  BY DEF Init
<1>2. ASSUME NEW t \in Transfer
      PROVE  row[t] \in Row /\ row[t].n = 1
  <2>1. PICK state \in {"QUEUED", "ARCHIVED"} :
           row[t] = [n |-> 1, external |-> NoJobId, overwrite |-> "unset", state |-> state]
    BY <1>1
  <2>2. 1 \in 1..MaxAttempts
    BY BoundAssumption
  <2>3. PICK r : r = row[t]
    OBVIOUS
  <2>4. r \in Row /\ r.n = 1
    BY <2>1, <2>2, <2>3 DEF Row, RowState
  <2> QED
    BY <2>3, <2>4
<1>3. row \in [Transfer -> Row]
  BY <1>1, <1>2
<1>4. dest \in [Transfer -> Copy] /\ faults \in 0..setup.maxFaults
  BY <1>1, PathLemma
<1>5. /\ DOMAIN post = Request /\ job \in [Request -> Job \cup {NoJob}]
      /\ poll \in [Request -> Poll \cup {NoPoll}]
      /\ \A sid \in Request : ~Posted(sid) /\ ~HasJob(sid)
  BY <1>1 DEF Posted, HasJob
<1>6. PathsInStep
  <2>1. \A p \in DOMAIN setup.paths : \A i \in DOMAIN Served(p) : Served(p)[i].id \in Transfer
    BY <1>1, ServedLemma DEF Hop
  <2> QED
    BY <1>2, <2>1 DEF PathsInStep
<1>7. IdsApart /\ FlagsFit
  BY <1>5 DEF IdsApart, FlagsFit
<1> QED
  BY <1>1, <1>3, <1>4, <1>5, <1>6, <1>7 DEF IInv

LEMMA FtsSteps ==
    ASSUME IInv, NEW sid \in Request, FtsStep(sid)
    PROVE  IInv'
<1>1. CASE Arrive(sid)
  BY <1>1, ArriveStep
<1>2. CASE \E i \in FileNumbers(sid) : CopyFile(sid, i)
  BY <1>2, CopyFileStep
<1>3. CASE \E i \in FileNumbers(sid) : CopyFails(sid, i)
  BY <1>3, CopyFailsStep
<1>4. CASE \E i \in FileNumbers(sid) : ArchivingEnds(sid, i)
  BY <1>4, ArchivingEndsStep
<1> QED
  BY <1>1, <1>2, <1>3, <1>4 DEF FtsStep

LEMMA ReportSteps ==
    ASSUME IInv, NEW sid \in Request, ReportStep(sid)
    PROVE  IInv'
<1>1. CASE PollRows(sid)
  BY <1>1, PollRowsStep
<1>2. CASE PollJob(sid)
  BY <1>2, PollJobStep
<1>3. CASE PollApplied(sid)
  BY <1>3, PollAppliedStep
<1>4. CASE Cancel(sid)
  BY <1>4, CancelStep
<1>5. CASE \E i \in FileNumbers(sid) : Receive(sid, i)
  BY <1>5, ReceiveStep
<1> QED
  BY <1>1, <1>2, <1>3, <1>4, <1>5 DEF ReportStep

LEMMA NextIInv ==
    ASSUME IInv, [Next]_vars
    PROVE  IInv'
<1>1. CASE Submit
  BY <1>1, SubmitStep
<1>2. CASE NoStorageToken
  BY <1>2, NoStorageTokenStep
<1>3. CASE \E sid \in Request : SubmitterStep(sid)
  BY <1>3, SubmitterSteps
<1>4. CASE \E sid \in Request : FtsStep(sid)
  BY <1>4, FtsSteps
<1>5. CASE \E sid \in Request : ReportStep(sid)
  BY <1>5, ReportSteps
<1>6. CASE \E t \in Transfer : ToTape(t)
  BY <1>6, ToTapeStep
<1>7. CASE \E p \in DOMAIN setup.paths : Finish(p)
  BY <1>7, FinishStep
<1>8. ASSUME UNCHANGED vars  PROVE IInv'
  <2>1. /\ setup' = setup /\ row' = row /\ post' = post /\ job' = job /\ dest' = dest
        /\ poll' = poll /\ faults' = faults
    BY <1>8 DEF vars
  <2> QED
    BY <2>1, RowsSame, Types, ReportStepLemma
<1>9. CASE AllDone
  BY <1>8, <1>9 DEF AllDone
<1> QED
  BY <1>1, <1>2, <1>3, <1>4, <1>5, <1>6, <1>7, <1>8, <1>9 DEF Next

LEMMA SpecIInv == Spec => []IInv
<1>1. Init => IInv
  BY InitIInv
<1>2. IInv /\ [Next]_vars => IInv'
  BY NextIInv
<1> QED
  BY <1>1, <1>2, PTL DEF Spec

--------------------------------------------------------------------------------
(* Types.                                                                  *)

\* The request whose id seeds the id of a job is one of the job's own.
LEMMA OwnId ==
    ASSUME NEW sid, PostOK(sid)
    PROVE  sid \in Ids(sid)
<1>1. PICK fs : fs = post[sid].sub.files
  OBVIOUS
<1>2. fs \in Seq(SubFile) /\ fs # <<>> /\ sid = fs[1].id
  BY <1>1 DEF PostOK, SubOK
<1>3. 1 \in DOMAIN fs
  BY <1>2
<1> QED
  BY <1>1, <1>2, <1>3 DEF Ids, ToSet

\* Types: rows, submissions, jobs, copies and polls are what their names say, whatever the
\* paths, the configuration, the order of events and the failures.
THEOREM FtsTypeOK == Spec => []TypeOK
<1>1. ASSUME IInv  PROVE TypeOK
  <2>1. ASSUME NEW sid \in Request, Posted(sid)
        PROVE  /\ post[sid].status \in {"sent", "made", "refused", "dropped"}
               /\ {post[sid].open, post[sid].known, post[sid].adrift} \subseteq BOOLEAN
               /\ post[sid].sub.files \in Seq(SubFile)
               /\ sid \in Ids(sid)
    <3>1. PostOK(sid)
      BY <1>1, <2>1 DEF IInv
    <3>2. post[sid] \in PostOf(post[sid].sub) /\ post[sid].sub.files \in Seq(SubFile)
      BY <3>1 DEF PostOK, SubOK
    <3>3. PICK p : p = post[sid]
      OBVIOUS
    <3>4. p.status \in {"sent", "made", "refused", "dropped"}
          /\ {p.open, p.known, p.adrift} \subseteq BOOLEAN
      BY <3>2, <3>3 DEF PostOf
    <3> QED
      BY <3>1, <3>2, <3>3, <3>4, OwnId
  <2>2. ASSUME NEW sid \in Request, HasJob(sid)  PROVE job[sid] \in Job
    BY <1>1, <2>2, Types DEF HasJob
  <2>3. ASSUME NEW sid \in Request, poll[sid] # NoPoll
        PROVE  /\ poll[sid].rows \in SUBSET (Request \X Row)
               /\ poll[sid].answer = NoJob \/ poll[sid].answer \in Job
    <3>1. PICK p \in Poll : p = poll[sid]
      BY <1>1, <2>3, Types
    <3> QED
      BY <3>1 DEF Poll
  <2> QED
    BY <1>1, <2>1, <2>2, <2>3, Types DEF TypeOK, Posted, HasJob
<1> QED
  BY <1>1, SpecIInv, PTL

--------------------------------------------------------------------------------
(* Tapes.                                                                  *)

LEMMA FlagY ==
    ASSUME NEW params, OverwriteFlag(params) = "Y"
    PROVE  params.overwrite
BY DEF OverwriteFlag

\* What may overwrite a whole file on a tape: a job whose request found it corrupted.
LEMMA TapeLemma ==
    ASSUME IInv, NEW sid \in Request, HasJob(sid), NEW i \in DOMAIN job[sid].files,
           NEW t, t = Target(sid, i), IsTape(t), ~AllowsOverwrite(t), row[t].overwrite # "yes",
           NEW copy, copy.onTape
    PROVE  ~MayOverwrite(job[sid], i, copy)
<1>1. PICK j, sub : j = job[sid] /\ sub = post[sid].sub
  OBVIOUS
<1>2. /\ Posted(sid) /\ j \in Job
      /\ j.type = "H" => sub.params.multihop
      /\ j.flag = OverwriteFlag(sub.params)
      /\ j.flag \in {"M", "Q"} => j.type = "H"
      /\ j.type = "R" => j.files[i].id = sid
      /\ j.type # "R" => Len(j.files) = Len(sub.files) /\ j.files[i].id = sub.files[i].id
  BY <1>1 DEF IInv, JobOK
<1>3. PostOK(sid) /\ SubOK(sub)
  BY <1>1, <1>2 DEF IInv, PostOK
<1>4. /\ DOMAIN j.files = 1..Len(j.files) /\ Len(j.files) \in Nat /\ i \in 1..Len(j.files)
      /\ t = j.files[i].id[1]
  BY <1>1, <1>2, JobFiles DEF Target
<1>5. j.type # "R" => i \in DOMAIN sub.files
  <2>1. sub.files \in Seq(SubFile)
    BY <1>3 DEF SubOK
  <2>2. PICK fs : fs = sub.files
    OBVIOUS
  <2>3. DOMAIN fs = 1..Len(fs)
    BY <2>1, <2>2
  <2> QED
    BY <1>2, <1>4, <2>2, <2>3
<1>6. j.files[i].id \in Ids(sid)
  <2>1. CASE j.type = "R"
    BY <1>2, <1>3, <2>1, OwnId
  <2>2. CASE j.type # "R"
    BY <1>1, <1>2, <1>5, <2>2 DEF Ids, ToSet
  <2> QED
    BY <2>1, <2>2
<1>7. j.flag # "Y"
  <2>1. PICK id \in Ids(sid) : id = j.files[i].id
    BY <1>6
  <2>2. Posted(sid) /\ IsTape(id[1]) /\ ~AllowsOverwrite(id[1]) /\ row[id[1]].overwrite # "yes"
    BY <1>2, <1>4, <2>1
  <2>3. FlagsFit
    BY DEF IInv
  <2>4. ~sub.params.overwrite
    BY ONLY <1>1, <2>1, <2>2, <2>3, sid \in Request DEF FlagsFit
  <2> QED
    BY <1>2, <2>4, FlagY
<1>8. j.flag \in {"M", "Q"} => ~(i < Len(j.files))
  <2> SUFFICES ASSUME j.flag \in {"M", "Q"}  PROVE i = Len(j.files)
    BY <1>4
  <2>1. sub.params.multihop /\ j.type = "H"
    BY <1>2
  <2>2. sub.files[i].id[1] = t /\ i \in DOMAIN sub.files /\ Len(j.files) = Len(sub.files)
    BY <1>2, <1>4, <1>5, <2>1
  <2> QED
    BY <1>3, <2>1, <2>2 DEF SubOK
<1> QED
  BY <1>1, <1>7, <1>8 DEF MayOverwrite

\* A whole file that is on a tape stays there: no transfer that may not overwrite it, no hop
\* of a path and no retry for other causes writes it (the overwrite flags of a job).
THEOREM FtsTapeCopyKept == Spec => TapeCopyKept
<1> DEFINE Kept == \A t \in Transfer :
                      /\ dest[t].content = "good" /\ dest[t].onTape
                      /\ IsTape(t) /\ ~AllowsOverwrite(t) /\ row[t].overwrite # "yes"
                      => dest'[t] = dest[t]
<1>1. ASSUME IInv, [Next]_vars  PROVE [Kept]_vars
  <2> SUFFICES ASSUME NEW t \in Transfer, dest[t].content = "good", dest[t].onTape,
                      IsTape(t), ~AllowsOverwrite(t), row[t].overwrite # "yes"
               PROVE  dest'[t] = dest[t]
    OBVIOUS
  <2>1. ASSUME NEW sid \in Request, NEW i \in FileNumbers(sid), CopyFile(sid, i) \/ CopyFails(sid, i)
        PROVE  dest'[t] = dest[t]
    <3>1. HasJob(sid) /\ i \in DOMAIN job[sid].files
      BY <2>1 DEF CopyFile, CopyFails, InState, HasJob
    <3>2. PICK u : u = Target(sid, i)
      OBVIOUS
    <3>3. \/ dest' = dest
          \/ /\ dest[u].content = "none" \/ MayOverwrite(job[sid], i, dest[u])
             /\ \E copy : dest' = [dest EXCEPT ![u] = copy]
      BY <2>1, <3>2 DEF CopyFile, CopyFails
    <3>4. CASE u = t
      <4>1. ~MayOverwrite(job[sid], i, dest[t])
        BY <1>1, <3>1, <3>2, <3>4, TapeLemma
      <4> QED
        BY <3>3, <3>4, <4>1
    <3>5. CASE u # t
      BY <1>1, <3>3, <3>5, Types
    <3> QED
      BY <3>4, <3>5
  <2>2. ASSUME NEW u \in Transfer, ToTape(u)
        PROVE  dest'[t] = dest[t]
    <3>1. u # t /\ dest' = [dest EXCEPT ![u].onTape = TRUE]
      BY <2>2 DEF ToTape
    <3> QED
      BY <1>1, <3>1, Types
  <2>3. CASE Submit \/ NoStorageToken
    BY <2>3 DEF Submit, NoStorageToken
  <2>4. CASE \E sid \in Request : SubmitterStep(sid)
    BY <2>4 DEF SubmitterStep, Answered, Unanswered, TimesOut, SubmitterDies
  <2>5. CASE \E sid \in Request : FtsStep(sid)
    <3>1. PICK sid \in Request : FtsStep(sid)
      BY <2>5
    <3>2. CASE Arrive(sid)
      BY <3>2 DEF Arrive
    <3>3. CASE \E i \in FileNumbers(sid) : ArchivingEnds(sid, i)
      BY <3>3 DEF ArchivingEnds
    <3> QED
      BY <2>1, <3>1, <3>2, <3>3 DEF FtsStep
  <2>6. CASE \E sid \in Request : ReportStep(sid)
    BY <2>6 DEF ReportStep, PollRows, PollJob, PollApplied, Cancel, Receive
  <2>7. CASE \E p \in DOMAIN setup.paths : Finish(p)
    BY <2>7 DEF Finish
  <2>8. CASE UNCHANGED vars
    BY <2>8 DEF vars
  <2> QED
    BY <1>1, <2>2, <2>3, <2>4, <2>5, <2>6, <2>7, <2>8 DEF Next, AllDone
<1>2. Spec => [][Kept]_vars
  BY <1>1, SpecIInv, PTL DEF Spec
<1> QED
  BY <1>2 DEF TapeCopyKept

--------------------------------------------------------------------------------
(* Refused submissions.                                                    *)

\* The causes of RefusedForCause.
TokensCause(sub) ==
    /\ sub.oauth2
    /\ \E file \in ToSet(sub.files) :
          \/ MixedSources(file)
          \/ \E e \in ToSet(file.sources) \cup {file.dst} : e.scheme = "s3s"
             /\ (faults > 0 \/ ~e.rse.keyed)

Cause(sub) ==
    \/ sub.params.unmanaged /\ ~setup.fts.allowUnmanaged
    \/ sub.params.multihop /\ \E file \in ToSet(sub.files) : Len(file.sources) > 1
    \/ /\ sub.params.onlyOnDisk
       /\ \/ sub.params.overwrite \/ sub.params.archive = 0
          \/ \E file \in ToSet(sub.files) : file.dst.scheme \notin {"https", "davs", "mock"}
    \/ sub.oauth2 /\ ClaimsRefused(setup.fts.claims, setup.fts)
    \/ TokensCause(sub)

RefusedInv ==
    \A sid \in Request : Posted(sid) /\ post[sid].status = "refused" =>
        \E lookup \in BOOLEAN : /\ Refused(post[sid].sub, setup.fts, lookup)
                                /\ lookup \/ faults > 0

LEMMA SubFiles ==
    ASSUME NEW sub, SubOK(sub), setup \in Setups
    PROVE  /\ Len(sub.files) \in Nat \ {0} /\ DOMAIN sub.files = 1..Len(sub.files)
           /\ \A i \in DOMAIN sub.files :
                 /\ sub.files[i] \in SubFile
                 /\ sub.files[i].sources \in Seq(Endpoint) /\ sub.files[i].sources # <<>>
                 /\ TokensOK(sub, sub.files[i])
<1>1. PICK fs : fs = sub.files
  OBVIOUS
<1>2. fs \in Seq(SubFile) /\ fs # <<>>
  BY <1>1 DEF SubOK
<1>3. /\ Len(fs) \in Nat \ {0} /\ DOMAIN fs = 1..Len(fs) /\ \A i \in DOMAIN fs : fs[i] \in SubFile
  BY <1>2
<1>4. ASSUME NEW i \in DOMAIN fs
      PROVE  fs[i].sources \in Seq(Endpoint) \ {<<>>} /\ TokensOK(sub, fs[i])
  <2>1. PICK p \in DOMAIN setup.paths : \E k \in DOMAIN setup.paths[p] :
            /\ fs[i].id[1] = setup.paths[p][k].id
            /\ fs[i].sources = setup.paths[p][k].sources
    BY <1>1 DEF SubOK
  <2>2. PICK k \in DOMAIN setup.paths[p] : fs[i].sources = setup.paths[p][k].sources
    BY <2>1
  <2>3. setup.paths[p] \in Seq(Hop)
    BY PathLemma
  <2>4. setup.paths[p][k] \in Hop
    BY <2>3
  <2>5. setup.paths[p][k].sources \in Seq(Endpoint) \ {<<>>}
    BY <2>4 DEF Hop
  <2> QED
    BY <1>1, <2>2, <2>5 DEF SubOK
<1> QED
  BY <1>1, <1>3, <1>4

\* A file whose own tokens are refused.
LEMMA OwnTokens ==
    ASSUME NEW sub, sub.oauth2, NEW file, file.sources \in Seq(Endpoint), file.sources # <<>>,
           TokensOK(sub, file), NEW lookup \in BOOLEAN, lookup \/ faults > 0,
           TokensRefused(file, lookup)
    PROVE  \/ MixedSources(file)
           \/ \E e \in ToSet(file.sources) \cup {file.dst} : e.scheme = "s3s"
              /\ (faults > 0 \/ ~e.rse.keyed)
<1>1. PICK s : s = file.sources
  OBVIOUS
<1>2. /\ s \in Seq(Endpoint) /\ DOMAIN s = 1..Len(s) /\ Len(s) \in Nat /\ 1 \in DOMAIN s
      /\ 1 \in Int /\ Len(s) \in Int
  BY <1>1
<1>3. PICK plain : plain = {i \in DOMAIN s : s[i].scheme # "s3s"}
  OBVIOUS
<1>4. /\ file.srcTokens = Cardinality(plain)
      /\ file.dstTokens = IF file.dst.scheme # "s3s" THEN 1 ELSE 0
  BY <1>1, <1>3 DEF TokensOK
<1>5. IsFiniteSet(DOMAIN s) /\ Cardinality(DOMAIN s) = Len(s)
  <2>1. IsFiniteSet(1..Len(s)) /\ Cardinality(1..Len(s)) = IF 1 > Len(s) THEN 0 ELSE Len(s) - 1 + 1
    BY <1>2, FS_Interval
  <2> QED
    BY <1>2, <2>1
<1>6. IsFiniteSet(plain) /\ (Cardinality(plain) = 0 <=> plain = {})
  <2>1. IsFiniteSet(plain)
    BY <1>3, <1>5, FS_Subset
  <2> QED
    BY <2>1, FS_EmptySet
<1>7. ASSUME NEW e \in ToSet(s) \cup {file.dst}, e.scheme = "s3s", ~lookup \/ ~e.rse.keyed
      PROVE  \E d \in ToSet(file.sources) \cup {file.dst} :
                d.scheme = "s3s" /\ (faults > 0 \/ ~d.rse.keyed)
  BY <1>1, <1>7
<1>8. CASE ~Keyed(s, lookup) /\ file.srcTokens = 0
  <2>1. \A i \in DOMAIN s : s[i].scheme = "s3s"
    BY <1>3, <1>4, <1>6, <1>8
  <2>2. ~lookup \/ \E e \in ToSet(s) : ~e.rse.keyed
    BY <1>1, <1>8 DEF Keyed
  <2>3. \E e \in ToSet(s) : e.scheme = "s3s" /\ (~lookup \/ ~e.rse.keyed)
    BY <1>2, <2>1, <2>2 DEF ToSet
  <2> QED
    BY <1>7, <2>3
<1>9. CASE ~Keyed(<<file.dst>>, lookup) /\ file.dstTokens = 0
  <2>1. file.dst.scheme = "s3s"
    BY <1>4, <1>9
  <2>2. <<file.dst>> # <<>> /\ \A e \in ToSet(<<file.dst>>) : e = file.dst
    BY DEF ToSet
  <2>3. ~lookup \/ ~file.dst.rse.keyed
    BY <1>9, <2>2 DEF Keyed
  <2> QED
    BY <1>7, <2>1, <2>3
<1>10. CASE file.srcTokens \notin {0, Len(s)}
  <2>1. plain # {} /\ plain # DOMAIN s
    BY <1>4, <1>5, <1>6, <1>10
  <2>2. PICK i \in DOMAIN s, k \in DOMAIN s : s[i].scheme # "s3s" /\ s[k].scheme = "s3s"
    BY <1>3, <2>1
  <2>3. MixedSources(file)
    BY <1>1, <2>2 DEF MixedSources, ToSet
  <2> QED
    BY <2>3
<1>11. file.dstTokens \in {0, 1}
  BY <1>4
<1> QED
  BY <1>1, <1>8, <1>9, <1>10, <1>11 DEF TokensRefused

LEMMA TokensLemma ==
    ASSUME NEW sub, SubOK(sub), setup \in Setups, sub.oauth2,
           NEW lookup \in BOOLEAN, lookup \/ faults > 0,
           NEW file \in ToSet(WithMissingTokens(sub)), TokensRefused(file, lookup)
    PROVE  TokensCause(sub)
<1>1. \A i \in DOMAIN sub.files :
         /\ sub.files[i] \in SubFile
         /\ sub.files[i].sources \in Seq(Endpoint) /\ sub.files[i].sources # <<>>
         /\ TokensOK(sub, sub.files[i])
  BY SubFiles
<1>2. CASE \A other \in ToSet(sub.files) : ~HasTokens(other)
  <2>1. WithMissingTokens(sub) =
           [i \in DOMAIN sub.files |->
               [sub.files[i] EXCEPT !.srcTokens = Len(sub.files[i].sources), !.dstTokens = 1]]
    BY <1>2 DEF WithMissingTokens
  <2>2. PICK i \in DOMAIN sub.files :
           file = [sub.files[i] EXCEPT !.srcTokens = Len(sub.files[i].sources), !.dstTokens = 1]
    BY <2>1 DEF ToSet
  <2>3. PICK old \in SubFile : /\ old = sub.files[i] /\ old.sources \in Seq(Endpoint)
                               /\ old.sources # <<>>
    BY <1>1
  <2>4. /\ file.srcTokens = Len(old.sources) /\ file.dstTokens = 1
        /\ file.sources = old.sources
    BY <2>2, <2>3 DEF SubFile
  <2>5. Len(old.sources) # 0
    BY <2>3
  <2>6. ~TokensRefused(file, lookup)
    BY <2>4, <2>5 DEF TokensRefused
  <2> QED
    BY <2>6
<1>3. CASE ~ \A other \in ToSet(sub.files) : ~HasTokens(other)
  <2>1. file \in ToSet(sub.files)
    BY <1>3 DEF WithMissingTokens
  <2>2. file.sources \in Seq(Endpoint) /\ file.sources # <<>> /\ TokensOK(sub, file)
    BY <1>1, <2>1 DEF ToSet
  <2>3. \/ MixedSources(file)
        \/ \E e \in ToSet(file.sources) \cup {file.dst} : e.scheme = "s3s"
           /\ (faults > 0 \/ ~e.rse.keyed)
    BY <2>2, OwnTokens
  <2> QED
    BY <2>1, <2>3 DEF TokensCause
<1> QED
  BY <1>2, <1>3

LEMMA CauseLemma ==
    ASSUME NEW sub, SubOK(sub), setup \in Setups, NEW lookup \in BOOLEAN, lookup \/ faults > 0,
           Refused(sub, setup.fts, lookup)
    PROVE  Cause(sub)
<1>1. /\ Len(sub.files) \in Nat \ {0} /\ DOMAIN sub.files = 1..Len(sub.files)
      /\ \A i \in DOMAIN sub.files : sub.files[i] \in SubFile
  BY SubFiles
<1>2. ParamsOK(sub.params) /\ KindOK(sub)
  BY DEF SubOK
<1>3. CASE sub.oauth2 /\ \E file \in ToSet(WithMissingTokens(sub)) : TokensRefused(file, lookup)
  BY <1>3, TokensLemma DEF Cause
<1>4. CASE sub.oauth2 /\ ClaimsRefused(setup.fts.claims, setup.fts)
  BY <1>4 DEF Cause
<1>5. CASE sub.params.unmanaged /\ ~setup.fts.allowUnmanaged
  BY <1>5 DEF Cause
<1>6. CASE FlagsRefused(sub.params)
  BY <1>2, <1>6 DEF Cause, ParamsOK
<1>7. CASE DiskFlagRefused(sub)
  <2>1. OverwriteFlag(sub.params) \in {"D", "Q"} => sub.params.onlyOnDisk
    BY DEF OverwriteFlag
  <2>2. PICK i \in DOMAIN sub.files : sub.files[i].dst.scheme \notin {"https", "davs", "mock"}
    BY <1>1, <1>7 DEF DiskFlagRefused
  <2>3. sub.params.onlyOnDisk
    BY <1>7, <2>1 DEF DiskFlagRefused
  <2> QED
    BY <2>2, <2>3 DEF Cause, ToSet
<1>8. ~HopFlagRefused(sub)
  BY <1>2 DEF ParamsOK, OverwriteFlag, HopFlagRefused
<1>9. CASE TypeRefused(sub)
  <2>1. JobType(sub) = "R" /\ (sub.params.multihop \/ Len(sub.files) > 1)
    BY <1>9 DEF TypeRefused
  <2>2. PICK i \in DOMAIN sub.files : Len(sub.files[i].sources) > 1
    BY <2>1 DEF JobType, ToSet
  <2>3. Len(sub.files[i].sources) # 1
    <3>1. sub.files[i] \in SubFile
      BY <1>1
    <3>2. Len(sub.files[i].sources) \in Nat
      BY <3>1 DEF SubFile
    <3>3. \A n \in Nat : n > 1 => n # 1
      OBVIOUS
    <3> QED
      BY ONLY <2>2, <3>2, <3>3, Zenon
  <2>4. Len(sub.files) > 1 => Len(sub.files) # 1
    BY <1>1
  <2>5. sub.params.multihop
    BY <1>2, <2>1, <2>3, <2>4 DEF KindOK
  <2> QED
    BY <2>2, <2>5 DEF Cause, ToSet
<1> QED
  BY <1>3, <1>4, <1>5, <1>6, <1>7, <1>8, <1>9 DEF Refused

\* A submission that is refused now was so before, unless it has just arrived.
LEMMA StatusLemma ==
    ASSUME IInv, [Next]_vars, NEW sid \in Request, Posted(sid)', post'[sid].status = "refused"
    PROVE  \/ Posted(sid) /\ post[sid].status = "refused" /\ post'[sid].sub = post[sid].sub
           \/ Arrive(sid)
<1>1. ASSUME post' = post
      PROVE  Posted(sid) /\ post[sid].status = "refused" /\ post'[sid].sub = post[sid].sub
  BY <1>1 DEF Posted
<1>2. CASE Submit
  <2>1. PICK other \in Request : \E sub, new : Sends(other, sub, new)
    BY <1>2, SubmitSends
  <2>2. post'[other].status = "sent" /\ \A s \in Request \ {other} : post'[s] = post[s]
    BY <2>1 DEF Sends
  <2>3. post'[sid] = post[sid]
    BY <2>2
  <2> QED
    BY <2>3 DEF Posted
<1>3. CASE \E other \in Request : SubmitterStep(other)
  <2>1. PICK other \in Request : SubmitterStep(other)
    BY <1>3
  <2>2. Open(other) /\ setup' = setup
    BY <2>1 DEF SubmitterStep, Answered, Unanswered, TimesOut, SubmitterDies
  <2>3. PICK adrift \in BOOLEAN : Close(other, adrift)
    <3>1. (~post[other].known) \in BOOLEAN
      OBVIOUS
    <3> QED
      BY <2>1, <3>1 DEF SubmitterStep, Answered, Unanswered, TimesOut, SubmitterDies
  <2>4. PostStep /\ post[sid].status = "refused"
    BY <2>2, <2>3, CloseLemma
  <2>5. Posted(sid)
    BY <2>4 DEF PostStep, Posted
  <2> QED
    BY <2>4, <2>5 DEF PostStep
<1>4. CASE \E other \in Request : FtsStep(other)
  <2>1. PICK other \in Request : FtsStep(other)
    BY <1>4
  <2>2. CASE Arrive(other)
    <3>1. CASE other = sid
      BY <2>2, <3>1
    <3>2. CASE other # sid
      <4>1. post'[sid] = post[sid]
        <5>1. PICK status : post' = [post EXCEPT ![other].status = status]
          BY <2>2 DEF Arrive
        <5> QED
          BY <3>2, <5>1, Types
      <4> QED
        BY <4>1 DEF Posted
    <3> QED
      BY <3>1, <3>2
  <2>3. CASE \E i \in FileNumbers(other) :
                CopyFile(other, i) \/ CopyFails(other, i) \/ ArchivingEnds(other, i)
    BY <1>1, <2>3 DEF CopyFile, CopyFails, ArchivingEnds
  <2> QED
    BY <2>1, <2>2, <2>3 DEF FtsStep
<1>5. CASE \E other \in Request : ReportStep(other)
  BY <1>1, <1>5 DEF ReportStep, PollRows, PollJob, PollApplied, Cancel, Receive
<1>6. CASE NoStorageToken \/ (\E t \in Transfer : ToTape(t)) \/ (\E p \in DOMAIN setup.paths : Finish(p))
  BY <1>1, <1>6 DEF NoStorageToken, ToTape, Finish
<1>7. CASE UNCHANGED vars
  BY <1>1, <1>7 DEF vars
<1> QED
  BY <1>2, <1>3, <1>4, <1>5, <1>6, <1>7 DEF Next, AllDone

LEMMA FaultsGrow ==
    ASSUME IInv, [Next]_vars
    PROVE  setup' = setup /\ (faults > 0 => faults' > 0)
<1>1. faults \in Nat
  BY Types
<1>2. ASSUME faults' = faults \/ Fault
      PROVE  faults > 0 => faults' > 0
  BY <1>1, <1>2 DEF Fault
<1>3. CASE Submit \/ NoStorageToken
  BY <1>2, <1>3 DEF Submit, NoStorageToken
<1>4. CASE \E sid \in Request : SubmitterStep(sid)
  BY <1>2, <1>4 DEF SubmitterStep, Answered, Unanswered, TimesOut, SubmitterDies
<1>5. CASE \E sid \in Request : FtsStep(sid)
  BY <1>2, <1>5 DEF FtsStep, Arrive, CopyFile, CopyFails, ArchivingEnds
<1>6. CASE \E sid \in Request : ReportStep(sid)
  BY <1>2, <1>6 DEF ReportStep, PollRows, PollJob, PollApplied, Cancel, Receive
<1>7. CASE (\E t \in Transfer : ToTape(t)) \/ (\E p \in DOMAIN setup.paths : Finish(p))
  BY <1>2, <1>7 DEF ToTape, Finish
<1>8. CASE UNCHANGED vars
  BY <1>2, <1>8 DEF vars
<1> QED
  BY <1>3, <1>4, <1>5, <1>6, <1>7, <1>8 DEF Next, AllDone

LEMMA RefusedStep ==
    ASSUME IInv, RefusedInv, [Next]_vars
    PROVE  RefusedInv'
<1> SUFFICES ASSUME NEW sid \in Request, Posted(sid)', post'[sid].status = "refused"
             PROVE  \E lookup \in BOOLEAN : /\ Refused(post'[sid].sub, setup'.fts, lookup)
                                            /\ lookup \/ faults' > 0
  BY DEF RefusedInv
<1>1. setup' = setup /\ (faults > 0 => faults' > 0)
  BY FaultsGrow
<1>2. CASE Posted(sid) /\ post[sid].status = "refused" /\ post'[sid].sub = post[sid].sub
  BY <1>1, <1>2 DEF RefusedInv
<1>3. CASE Arrive(sid)
  <2>1. PICK sub : sub = post[sid].sub
    OBVIOUS
  <2>2. Posted(sid) /\ PostOK(sid)
    BY <1>3 DEF Arrive, Posted, IInv
  <2>3. PICK lookup \in BOOLEAN :
            /\ IF lookup THEN UNCHANGED faults ELSE Fault
            /\ post' = [post EXCEPT ![sid].status =
                           IF Refused(sub, setup.fts, lookup) THEN "refused" ELSE "made"]
    BY <1>3, <2>1 DEF Arrive
  <2>4. PICK status : status = IF Refused(sub, setup.fts, lookup) THEN "refused" ELSE "made"
    OBVIOUS
  <2>5. PICK old : old = post[sid]
    OBVIOUS
  <2>6. post'[sid] = [old EXCEPT !.status = status]
    BY <2>3, <2>4, <2>5, Types
  <2>7. post'[sid].sub = sub /\ post'[sid].status = status
    BY <2>1, <2>2, <2>5, <2>6 DEF PostOK, PostOf
  <2>8. Refused(sub, setup.fts, lookup)
    BY <2>4, <2>7
  <2>9. lookup \/ faults' > 0
    BY <2>3, Types DEF Fault
  <2> QED
    BY <1>1, <2>7, <2>8, <2>9
<1> QED
  BY <1>2, <1>3, StatusLemma

\* FTS refuses a job of Rucio only for the causes on which the two programs are known to
\* disagree, or are configured to: a flag, a token or a number of sources that does not fit.
THEOREM FtsRefusedForCause == Spec => []RefusedForCause
<1>1. ASSUME Init  PROVE RefusedInv
  BY <1>1 DEF Init, RefusedInv, Posted
<1>2. ASSUME IInv, RefusedInv, [Next]_vars  PROVE RefusedInv'
  BY <1>2, RefusedStep
<1>3. ASSUME IInv, RefusedInv  PROVE RefusedForCause
  <2>1. ASSUME NEW sid \in Request, post[sid] # NoPost, post[sid].status = "refused"
        PROVE  Cause(post[sid].sub)
    <3>1. Posted(sid) /\ PostOK(sid)
      BY <1>3, <2>1 DEF Posted, IInv
    <3>2. SubOK(post[sid].sub)
      BY <3>1 DEF PostOK
    <3>3. PICK lookup \in BOOLEAN : /\ Refused(post[sid].sub, setup.fts, lookup)
                                    /\ lookup \/ faults > 0
      BY <1>3, <2>1, <3>1 DEF RefusedInv
    <3> QED
      BY <1>3, <3>2, <3>3, Types, CauseLemma
  <2> QED
    BY <2>1 DEF RefusedForCause, Cause, TokensCause
<1> QED
  BY <1>1, <1>2, <1>3, SpecIInv, PTL DEF Spec

--------------------------------------------------------------------------------
(* Requests and the jobs they wait for.                                    *)

\* b is what job a has come to: nothing that has ended changes any more.
Older(a, b) ==
    /\ a.type = b.type /\ a.multi = b.multi /\ Len(a.files) = Len(b.files)
    /\ \A i \in DOMAIN a.files :
          /\ a.files[i].id = b.files[i].id
          /\ a.files[i].state \in {"FINISHED", "FAILED", "CANCELED"} => b.files[i] = a.files[i]
    /\ JobState(a) \in FinalJob => a = b

\* No two files of a job are of one request, but for replicas.
DistinctIds(j) ==
    j.multi \/ \A i, k \in DOMAIN j.files : j.files[i].id = j.files[k].id => i = k

\* What a polled answer says of a request.
Reports(j, id, state) ==
    \E file \in Reporting(j) : file.id = id /\ ApiState(j, file) = state

\* Messages are not read where files have a choice of sources: with them, a request may fail
\* while its job goes on (MultiSourceWaits).
NoReplicasReceived ==
    \A s \in Setups : s.receiver =>
        \A p \in DOMAIN s.paths : \A i \in DOMAIN s.paths[p] : Len(s.paths[p][i].sources) = 1

\* While the submitter waits for an answer, nothing else happens to its requests.
OpenWaits ==
    \A sid \in Request : Open(sid) =>
        \A id \in Ids(sid) : /\ id = CurrentId(id[1])
                             /\ row[id[1]].state = "SUBMITTING" /\ row[id[1]].external = NoJobId

\* What a row says of its job.
RowFits(t) ==
    LET sid == row[t].external
    IN /\ sid # NoJobId =>
             /\ Posted(sid) /\ ~post[sid].open /\ CurrentId(t) \in Ids(sid)
             /\ row[t].state \in {"SUBMITTED", "DONE", "FAILED", "LOST", "ARCHIVED"}
             /\ row[t].state = "LOST" => ~HasJob(sid) /\ post[sid].status # "sent"
       /\ row[t].state \in {"DONE", "FAILED"} =>
             sid # NoJobId /\ HasJob(sid) /\ Reports(job[sid], CurrentId(t), row[t].state)

\* The result of a request is open: FTS has not looked at the submission, or has work to do.
Undecided(sid, id) ==
    \/ post[sid].status = "sent"
    \/ \E file \in LiveFiles(sid) : file.id = id

Waits(sid, id) ==
    LET t == id[1]
    IN /\ CurrentId(t) = id
       /\ \/ row[t].state = "SUBMITTING"
          \/ row[t].state = "SUBMITTED" /\ row[t].external = sid

Followed ==
    \A sid \in Request : Posted(sid) /\ ~post[sid].adrift =>
        \A id \in Ids(sid) : Undecided(sid, id) => Waits(sid, id)

\* What the poller has read was true, and what had ended has not changed since.
PollFits(sid) ==
    /\ Posted(sid) /\ ~post[sid].open /\ post[sid].status # "sent"
    /\ \A pair \in poll[sid].rows :
          /\ pair[1] \in Ids(sid) /\ pair[2].state = "SUBMITTED" /\ pair[2].external = sid
          /\ pair[1] = CurrentId(pair[1][1]) => row[pair[1][1]].external = sid
    /\ poll[sid].asked => IF poll[sid].answer = NoJob THEN ~HasJob(sid)
                          ELSE HasJob(sid) /\ Older(poll[sid].answer, job[sid])

RInv ==
    /\ OpenWaits
    /\ \A t \in Transfer : RowFits(t)
    /\ Followed
    /\ \A sid \in Request : poll[sid] # NoPoll => PollFits(sid)

--------------------------------------------------------------------------------
(* What jobs report.                                                       *)

LEMMA NotFinal ==
    ASSUME NEW j, NEW i \in DOMAIN j.files, j.files[i].state \in Active
    PROVE  JobState(j) \notin FinalJob
<1>1. j.files[i].state \in States(j)
  BY DEF States, ToSet
<1>2. JobState(j) = "ACTIVE"
  BY <1>1 DEF JobState
<1> QED
  BY <1>2 DEF FinalJob

LEMMA Final ==
    ASSUME NEW j, \A i \in DOMAIN j.files : j.files[i].state \notin Active
    PROVE  JobState(j) \in FinalJob
<1>1. States(j) \cap Active = {}
  BY DEF States, ToSet
<1> QED
  BY <1>1 DEF JobState, FinalJob

LEMMA OlderSelf ==
    ASSUME NEW j
    PROVE  Older(j, j)
BY DEF Older

LEMMA OlderTrans ==
    ASSUME NEW a \in Job, NEW b \in Job, NEW c \in Job, Older(a, b), Older(b, c)
    PROVE  Older(a, c)
<1>1. DOMAIN a.files = DOMAIN b.files
  BY JobFiles DEF Older
<1> QED
  BY <1>1 DEF Older

\* A job in which something is at work goes on.
LEMMA OlderStep ==
    ASSUME NEW a, NEW b, SameJob(a, b), NEW i \in DOMAIN a.files, a.files[i].state \in Active,
           \A k \in DOMAIN a.files :
               a.files[k].state \in {"FINISHED", "FAILED", "CANCELED"} => b.files[k] = a.files[k]
    PROVE  Older(a, b)
BY NotFinal DEF SameJob, Older

\* A report of a polled file is told again by any later answer.
LEMMA ReportsLater ==
    ASSUME NEW a \in Job, NEW b \in Job, Older(a, b), NEW id, NEW state \in {"DONE", "FAILED"},
           Reports(a, id, state)
    PROVE  Reports(b, id, state)
<1>1. CASE JobState(a) \in FinalJob
  BY <1>1 DEF Older
<1>2. CASE JobState(a) \notin FinalJob
  <2>1. PICK file \in Reporting(a) : file.id = id /\ ApiState(a, file) = state
    BY DEF Reports
  <2>2. ~a.multi
    BY <1>2, <2>1 DEF Reporting
  <2>3. PICK i \in DOMAIN a.files : file = a.files[i]
    BY <2>1, <2>2 DEF Reporting, ToSet
  <2>4. \/ file.state = "FINISHED" /\ state = "DONE"
        \/ file.state = "FAILED" /\ state = StateOfFailed(file)
    BY <1>2, <2>1 DEF ApiState
  <2>5. b.files[i] = file /\ i \in DOMAIN b.files /\ ~b.multi
    BY <2>2, <2>3, <2>4, JobFiles DEF Older
  <2>6. file \in Reporting(b)
    BY <2>5 DEF Reporting, ToSet
  <2>7. ApiState(b, file) = state
    BY <2>4, <2>5 DEF ApiState
  <2> QED
    BY <2>1, <2>6, <2>7 DEF Reports
<1> QED
  BY <1>1, <1>2

LEMMA ReportsOnce ==
    ASSUME NEW j \in Job, DistinctIds(j), NEW id, NEW one \in {"DONE", "FAILED"},
           NEW other \in {"DONE", "FAILED"}, Reports(j, id, one), Reports(j, id, other)
    PROVE  one = other
<1>1. PICK f \in Reporting(j) : f.id = id /\ ApiState(j, f) = one
  BY DEF Reports
<1>2. PICK g \in Reporting(j) : g.id = id /\ ApiState(j, g) = other
  BY DEF Reports
<1>3. f = g
  <2>1. CASE ~j.multi
    <3>1. f \in ToSet(j.files) /\ g \in ToSet(j.files)
      BY <2>1 DEF Reporting
    <3> QED
      BY <1>1, <1>2, <2>1, <3>1 DEF ToSet, DistinctIds
  <2>2. CASE j.multi
    <3> DEFINE used == {i \in DOMAIN j.files : j.files[i].state # "NOT_USED"}
               made == {i \in used : j.files[i].state = "FINISHED"}
    <3>1. Reporting(j) \subseteq {j.files[i] : i \in IF made # {} THEN {k \in made : \A m \in made : k <= m}
                                                     ELSE {k \in used : \A m \in used : k >= m}}
      BY <2>2 DEF Reporting
    <3>2. \A k, m \in DOMAIN j.files : k <= m /\ m <= k => k = m
      BY JobFiles
    <3>3. made \subseteq DOMAIN j.files /\ used \subseteq DOMAIN j.files
      OBVIOUS
    <3>. HIDE DEF used, made
    <3>4. CASE made # {}
      BY <3>1, <3>2, <3>3, <3>4
    <3>5. CASE made = {}
      <4>1. PICK k \in used : f = j.files[k] /\ \A m \in used : k >= m
        BY <3>1, <3>5
      <4>2. PICK n \in used : g = j.files[n] /\ \A m \in used : n >= m
        BY <3>1, <3>5
      <4>3. k \in Int /\ n \in Int
        BY <3>3, JobFiles
      <4> QED
        BY <4>1, <4>2, <4>3
    <3> QED
      BY <3>4, <3>5
  <2> QED
    BY <2>1, <2>2
<1> QED
  BY <1>1, <1>2, <1>3

\* Of what is at work, or still to come, there is no report.
LEMMA ReportsEnded ==
    ASSUME NEW sid, HasJob(sid), DistinctIds(job[sid]), NEW id, NEW state \in {"DONE", "FAILED"},
           Reports(job[sid], id, state), NEW live \in LiveFiles(sid)
    PROVE  live.id # id
<1>1. PICK j : j = job[sid]
  OBVIOUS
<1>2. /\ live \in ToSet(j.files) /\ live.state \in Active \cup {"NOT_USED"}
      /\ JobState(j) \notin FinalJob
  BY <1>1 DEF LiveFiles, HasJob
<1>3. PICK file \in Reporting(j) : file.id = id /\ ApiState(j, file) = state
  BY <1>1 DEF Reports
<1>4. ~j.multi /\ file \in ToSet(j.files)
  BY <1>2, <1>3 DEF Reporting
<1>5. file.state \in {"FINISHED", "FAILED"}
  BY <1>2, <1>3 DEF ApiState
<1>6. file # live
  BY <1>2, <1>5 DEF Active
<1> QED
  BY <1>1, <1>2, <1>3, <1>4, <1>6 DEF ToSet, DistinctIds

\* The files of a job are those of the requests submitted with it.
LEMMA FilesOfJob ==
    ASSUME IInv, NEW sid \in Request, HasJob(sid)
    PROVE  /\ job[sid] \in Job /\ Posted(sid) /\ post[sid].status = "made"
           /\ DistinctIds(job[sid])
           /\ \A i \in DOMAIN job[sid].files : job[sid].files[i].id \in Ids(sid)
           /\ setup.receiver /\ NoReplicasReceived => ~job[sid].multi
<1>1. PICK j, sub : j = job[sid] /\ sub = post[sid].sub
  OBVIOUS
<1>2. /\ j \in Job /\ Posted(sid) /\ post[sid].status = "made"
      /\ j.multi <=> j.type = "R"
      /\ j.type = "R" => /\ \A i \in DOMAIN j.files : j.files[i].id = sid
                         /\ Len(sub.files[1].sources) > 1
      /\ j.type # "R" => /\ Len(j.files) = Len(sub.files)
                         /\ \A i \in DOMAIN j.files : j.files[i].id = sub.files[i].id
  BY <1>1 DEF IInv, JobOK
<1>3. PostOK(sid) /\ SubOK(sub)
  BY <1>1, <1>2 DEF IInv, PostOK
<1>4. PICK fs : fs = sub.files
  OBVIOUS
<1>5. fs \in Seq(SubFile) /\ fs # <<>>
  BY <1>3, <1>4 DEF SubOK
<1>6. DOMAIN fs = 1..Len(fs) /\ 1 \in DOMAIN fs
  BY <1>5
<1>7. \A i \in DOMAIN fs : \A k \in DOMAIN fs : fs[k].id[1] = fs[i].id[1] => k = i
  BY <1>3, <1>4 DEF SubOK
<1>8. j.type # "R" => DOMAIN j.files = DOMAIN fs
  BY <1>2, <1>4, <1>6, JobFiles
<1>9. DistinctIds(j)
  BY <1>2, <1>4, <1>7, <1>8 DEF DistinctIds
<1>10. \A i \in DOMAIN j.files : j.files[i].id \in Ids(sid)
  <2>1. CASE j.type = "R"
    BY <1>2, <1>3, <2>1, OwnId
  <2>2. CASE j.type # "R"
    <3>1. \A i \in DOMAIN fs : fs[i].id \in Ids(sid)
      BY <1>1, <1>4 DEF Ids, ToSet
    <3> QED
      BY <1>2, <1>4, <1>8, <2>2, <3>1
  <2> QED
    BY <2>1, <2>2
<1>11. ASSUME setup.receiver, NoReplicasReceived  PROVE ~j.multi
  <2>1. PICK p \in DOMAIN setup.paths : \E k \in DOMAIN setup.paths[p] :
           fs[1].sources = setup.paths[p][k].sources
    BY <1>3, <1>4, <1>6 DEF SubOK
  <2>2. Len(fs[1].sources) = 1
    BY <1>11, <2>1, Types DEF NoReplicasReceived
  <2> QED
    BY <1>2, <1>4, <2>2
<1> QED
  BY <1>1, <1>2, <1>9, <1>10, <1>11

--------------------------------------------------------------------------------
(* What each part of the system leaves of that.                            *)

LEMMA IdsLemma ==
    ASSUME IInv, NEW sid \in Request, Posted(sid), NEW id \in Ids(sid)
    PROVE  /\ id \in Request /\ id[1] \in Transfer /\ id[2] \in Nat /\ id = <<id[1], id[2]>>
           /\ id[2] <= row[id[1]].n
           /\ id = CurrentId(id[1]) => row[id[1]].state # "QUEUED"
           /\ \A other \in Request : Posted(other) /\ id \in Ids(other) => other = sid
<1>1. PICK fs : fs = post[sid].sub.files
  OBVIOUS
<1>2. fs \in Seq(SubFile)
  BY <1>1 DEF IInv, PostOK, SubOK
<1>3. PICK i \in DOMAIN fs : id = fs[i].id
  BY <1>1 DEF Ids, ToSet
<1>4. id \in Request
  <2>1. fs[i] \in SubFile
    BY <1>2
  <2> QED
    BY <1>3, <2>1 DEF SubFile
<1>5. id[1] \in Transfer /\ id[2] \in Nat /\ id = <<id[1], id[2]>>
  BY <1>4 DEF Request
<1>6. id[2] <= row[id[1]].n /\ (id = CurrentId(id[1]) => row[id[1]].state # "QUEUED")
  BY DEF IInv, IdsApart
<1>7. \A other \in Request : Posted(other) /\ id \in Ids(other) => other = sid
  BY DEF IInv, IdsApart
<1> QED
  BY <1>4, <1>5, <1>6, <1>7

LEMMA CurrentIds ==
    ASSUME IInv, NEW t \in Transfer
    PROVE  /\ CurrentId(t) \in Request /\ CurrentId(t)[1] = t /\ CurrentId(t)[2] = row[t].n
           /\ row[t] \in Row /\ row[t].n \in Nat /\ row[t].external \in Request \cup {NoJobId}
           /\ NoJobId \notin Request
BY Types, NamesAssumption DEF CurrentId, Request, Row

LEMMA ReportsSame ==
    ASSUME setup' = setup, NEW j, NEW id, NEW state
    PROVE  Reports(j, id, state)' <=> Reports(j, id, state)
<1>1. \A t : IsTape(t)' <=> IsTape(t)
  BY DEF IsTape, Hops, Served
<1>2. \A file : StateOfFailed(file)' = StateOfFailed(file)
  BY <1>1 DEF StateOfFailed, Recoverable
<1>3. \A file : ApiState(j, file)' = ApiState(j, file)
  BY <1>2 DEF ApiState
<1> QED
  BY <1>3 DEF Reports

\* Steps of FTS: it looks at submissions, and what its jobs have come to stays.
FtsMoves ==
    /\ setup' = setup /\ row' = row /\ poll' = poll
    /\ job' \in [Request -> Job \cup {NoJob}]
    /\ \A s \in Request :
          /\ Posted(s)' <=> Posted(s)
          /\ Posted(s) => /\ post'[s].sub = post[s].sub /\ post'[s].open = post[s].open
                          /\ post'[s].adrift = post[s].adrift
                          /\ post'[s].status = "sent" => post[s].status = "sent"
    /\ \A s \in Request : HasJob(s) => HasJob(s)' /\ Older(job[s], job'[s])
    /\ \A s \in Request : HasJob(s)' => HasJob(s) \/ post[s].status = "sent"
    /\ \A s \in Request : Posted(s) => \A id : Undecided(s, id)' => Undecided(s, id)

LEMMA FtsKeeps ==
    ASSUME IInv, RInv, FtsMoves
    PROVE  RInv'
<1>1. \A s \in Request : Posted(s)' => Posted(s) /\ Ids(s)' = Ids(s)
  BY DEF FtsMoves, Ids
<1>2. \A t : CurrentId(t)' = CurrentId(t) /\ row'[t] = row[t]
  BY DEF FtsMoves, CurrentId
<1>3. OpenWaits'
  <2>1. \A s \in Request : Open(s)' => Open(s) /\ Posted(s)'
    BY DEF Open, FtsMoves, Posted
  <2> QED
    BY <1>1, <1>2, <2>1 DEF RInv, OpenWaits
<1>4. ASSUME NEW t \in Transfer  PROVE RowFits(t)'
  <2>1. PICK sid : sid = row[t].external /\ sid = row'[t].external
    BY <1>2
  <2>2. sid \in Request \cup {NoJobId}
    BY <2>1, CurrentIds
  <2>3. RowFits(t)
    BY DEF RInv
  <2>4. ASSUME sid # NoJobId
        PROVE  /\ Posted(sid)' /\ ~post'[sid].open /\ CurrentId(t) \in Ids(sid)'
               /\ row[t].state \in {"SUBMITTED", "DONE", "FAILED", "LOST", "ARCHIVED"}
               /\ row[t].state = "LOST" => ~HasJob(sid)' /\ post'[sid].status # "sent"
    <3>1. /\ Posted(sid) /\ ~post[sid].open /\ CurrentId(t) \in Ids(sid)
          /\ row[t].state \in {"SUBMITTED", "DONE", "FAILED", "LOST", "ARCHIVED"}
          /\ row[t].state = "LOST" => ~HasJob(sid) /\ post[sid].status # "sent"
      BY <2>1, <2>3, <2>4 DEF RowFits
    <3> QED
      BY <1>1, <2>2, <2>4, <3>1 DEF FtsMoves
  <2>5. ASSUME row[t].state \in {"DONE", "FAILED"}
        PROVE  sid # NoJobId /\ HasJob(sid)' /\ Reports(job'[sid], CurrentId(t), row[t].state)
    <3>1. sid # NoJobId /\ HasJob(sid) /\ Reports(job[sid], CurrentId(t), row[t].state)
      BY <2>1, <2>3, <2>5 DEF RowFits
    <3>2. HasJob(sid)' /\ Older(job[sid], job'[sid])
      BY <2>2, <3>1 DEF FtsMoves
    <3>3. job[sid] \in Job /\ job'[sid] \in Job
      BY <2>2, <3>1, <3>2, Types DEF FtsMoves, HasJob
    <3> QED
      BY <2>5, <3>1, <3>2, <3>3, ReportsLater
  <2>6. row'[t] = row[t] /\ CurrentId(t)' = CurrentId(t)
    BY <1>2
  <2>7. Reports(job'[sid], CurrentId(t), row[t].state)
        => Reports(job[sid], CurrentId(t), row[t].state)'
    <3>1. PICK j, id, state : j = job'[sid] /\ id = CurrentId(t) /\ state = row[t].state
      OBVIOUS
    <3>2. Reports(j, id, state)' <=> Reports(j, id, state)
      BY ReportsSame DEF FtsMoves
    <3> QED
      BY <2>6, <3>1, <3>2
  <2> QED
    BY <2>1, <2>4, <2>5, <2>6, <2>7 DEF RowFits
<1>5. Followed'
  <2> SUFFICES ASSUME NEW sid \in Request, Posted(sid)', ~post'[sid].adrift, NEW id \in Ids(sid)',
                      Undecided(sid, id)'
               PROVE  Waits(sid, id)'
    BY DEF Followed
  <2>1. Posted(sid) /\ ~post[sid].adrift /\ id \in Ids(sid) /\ Undecided(sid, id)
    BY <1>1 DEF FtsMoves
  <2>2. Waits(sid, id)
    BY <2>1 DEF RInv, Followed
  <2> QED
    BY <1>2, <2>2 DEF Waits
<1>6. ASSUME NEW sid \in Request, poll'[sid] # NoPoll  PROVE PollFits(sid)'
  <2>1. poll'[sid] = poll[sid] /\ PollFits(sid)
    BY <1>6 DEF FtsMoves, RInv
  <2>2. /\ Posted(sid)' /\ ~post'[sid].open /\ post'[sid].status # "sent" /\ Ids(sid)' = Ids(sid)
    BY <1>1, <2>1 DEF PollFits, FtsMoves
  <2>3. poll[sid].answer # NoJob /\ poll[sid].asked => HasJob(sid)' /\ Older(poll[sid].answer, job'[sid])
    <3> SUFFICES ASSUME poll[sid].answer # NoJob, poll[sid].asked
                 PROVE  HasJob(sid)' /\ Older(poll[sid].answer, job'[sid])
      OBVIOUS
    <3>1. HasJob(sid) /\ Older(poll[sid].answer, job[sid])
      BY <2>1 DEF PollFits
    <3>2. HasJob(sid)' /\ Older(job[sid], job'[sid])
      BY <3>1 DEF FtsMoves
    <3>3. job[sid] \in Job /\ job'[sid] \in Job
      BY <3>1, <3>2, Types DEF FtsMoves, HasJob
    <3>4. poll[sid].answer \in Job
      <4>1. PICK p \in Poll : p = poll[sid]
        BY <1>6, <2>1, Types
      <4> QED
        BY <4>1 DEF Poll
    <3> QED
      BY <3>1, <3>2, <3>3, <3>4, OlderTrans
  <2>4. poll[sid].answer = NoJob /\ poll[sid].asked => ~HasJob(sid)'
    BY <2>1 DEF PollFits, FtsMoves
  <2>5. Older(poll[sid].answer, job'[sid]) => Older(poll[sid].answer, job[sid])'
    BY <2>1 DEF Older, JobState, States
  <2>6. \A pair \in poll[sid].rows :
           /\ pair[1] \in Ids(sid) /\ pair[2].state = "SUBMITTED" /\ pair[2].external = sid
           /\ pair[1] = CurrentId(pair[1][1]) => row[pair[1][1]].external = sid
    BY <2>1 DEF PollFits
  <2>7. \A t : CurrentId(t)' = CurrentId(t) /\ row'[t] = row[t]
    BY <1>2
  <2> QED
    BY <2>1, <2>2, <2>3, <2>4, <2>5, <2>6, <2>7 DEF PollFits
<1> QED
  BY <1>3, <1>4, <1>5, <1>6 DEF RInv

LEMMA LiveSame ==
    ASSUME NEW s, job'[s] = job[s]
    PROVE  LiveFiles(s)' = LiveFiles(s)
BY DEF LiveFiles, JobState, States

\* One job moves on; it has nothing at work, or to come, that it had not before.
LEMMA OneJobKeeps ==
    ASSUME IInv, RInv, setup' = setup, row' = row, poll' = poll, post' = post,
           NEW sid \in Request, HasJob(sid), NEW a, a = job[sid], NEW b, SameJob(a, b), Older(a, b),
           job' = [job EXCEPT ![sid] = b],
           JobState(b) \notin FinalJob =>
               /\ JobState(a) \notin FinalJob
               /\ \A k \in DOMAIN a.files :
                     b.files[k].state \in Active \cup {"NOT_USED"}
                     => a.files[k].state \in Active \cup {"NOT_USED"}
    PROVE  RInv'
<1>1. b \in Job /\ job \in [Request -> Job \cup {NoJob}] /\ b # NoJob
  BY Types, NamesAssumption DEF SameJob
<1>2. job' \in [Request -> Job \cup {NoJob}] /\ job'[sid] = b
      /\ \A s \in Request \ {sid} : job'[s] = job[s]
  BY <1>1
<1>3. \A s \in Request : /\ HasJob(s)' <=> HasJob(s)
                         /\ HasJob(s) => Older(job[s], job'[s])
  BY <1>1, <1>2, OlderSelf DEF HasJob
<1>4. ASSUME NEW s \in Request, Posted(s), NEW id, Undecided(s, id)'  PROVE Undecided(s, id)
  <2>1. CASE s # sid
    <3>1. LiveFiles(s)' = LiveFiles(s)
      BY <1>2, <2>1, LiveSame
    <3> QED
      BY <1>4, <3>1 DEF Undecided
  <2>2. CASE s = sid /\ post[s].status = "sent"
    BY <2>2 DEF Undecided
  <2>3. CASE s = sid /\ post[s].status # "sent"
    <3>1. PICK file \in LiveFiles(s)' : file.id = id
      BY <1>4, <2>3 DEF Undecided
    <3>2. /\ file \in ToSet(b.files) /\ file.state \in Active \cup {"NOT_USED"}
          /\ JobState(b) \notin FinalJob
      BY <1>1, <1>2, <2>3, <3>1 DEF LiveFiles, JobState, States
    <3>3. PICK k \in DOMAIN b.files : file = b.files[k]
      BY <3>2 DEF ToSet
    <3>4. k \in DOMAIN a.files /\ a.files[k].id = id
      BY <3>1, <3>3 DEF SameJob
    <3>5. JobState(a) \notin FinalJob /\ a.files[k].state \in Active \cup {"NOT_USED"}
      BY <3>2, <3>3, <3>4
    <3>6. a.files[k] \in LiveFiles(s)
      BY <2>3, <3>4, <3>5 DEF LiveFiles, HasJob, ToSet
    <3> QED
      BY <3>4, <3>6 DEF Undecided
  <2> QED
    BY <2>1, <2>2, <2>3
<1>5. FtsMoves
  BY <1>2, <1>3, <1>4 DEF FtsMoves, Posted
<1> QED
  BY <1>5, FtsKeeps

LEMMA EndFileKeeps ==
    ASSUME IInv, RInv, NEW sid \in Request, NEW i, InState(sid, i, Active),
           NEW state \in {"ARCHIVING", "FINISHED", "FAILED"},
           NEW found \in {"nothing", "on_tape", "on_disk", "corrupted"},
           EndFile(sid, i, state, found),
           setup' = setup, row' = row, post' = post, poll' = poll
    PROVE  RInv'
<1>1. PICK a : a = job[sid]
  OBVIOUS
<1>2. HasJob(sid) /\ i \in DOMAIN a.files /\ a.files[i].state \in Active
  BY <1>1 DEF InState, HasJob
<1>3. a \in Job /\ FilesInTurn(a)
  BY <1>1, <1>2 DEF IInv, JobOK
<1>4. PICK files \in FilesAfter(a, i, state, found) : job' = [job EXCEPT ![sid].files = files]
  BY <1>1 DEF EndFile
<1>5. PICK b : b = [a EXCEPT !.files = files]
  OBVIOUS
<1>6. /\ SameJob(a, b) /\ b.files = files
      /\ \A k \in DOMAIN a.files : k # i =>
            \/ files[k] = a.files[k]
            \/ a.files[k].state = "NOT_USED" /\ files[k].state = "SUBMITTED"
  BY <1>2, <1>3, <1>4, <1>5, EndFileLemma
<1>7. job' = [job EXCEPT ![sid] = b]
  BY <1>1, <1>4, <1>5
<1>8. Older(a, b)
  <2>1. \A k \in DOMAIN a.files :
           a.files[k].state \in {"FINISHED", "FAILED", "CANCELED"} => b.files[k] = a.files[k]
    BY <1>2, <1>6 DEF Active
  <2> QED
    BY <1>2, <1>6, <2>1, OlderStep
<1>9. JobState(a) \notin FinalJob
  BY <1>2, NotFinal
<1>10. \A k \in DOMAIN a.files : b.files[k].state \in Active \cup {"NOT_USED"}
                                 => a.files[k].state \in Active \cup {"NOT_USED"}
  BY <1>2, <1>6
<1> QED
  BY <1>1, <1>2, <1>6, <1>7, <1>8, <1>9, <1>10, OneJobKeeps

LEMMA CancelKeeps ==
    ASSUME IInv, RInv, NEW sid \in Request, Cancel(sid)
    PROVE  RInv'
<1>1. setup' = setup /\ row' = row /\ post' = post /\ poll' = poll /\ HasJob(sid)
  BY DEF Cancel, HasJob
<1>2. PICK a : a = job[sid]
  OBVIOUS
<1>3. a \in Job /\ FilesInTurn(a)
  BY <1>1, <1>2 DEF IInv, JobOK
<1>4. PICK files : files = [i \in DOMAIN a.files |->
                               IF a.files[i].state \in Active
                               THEN [a.files[i] EXCEPT !.state = "CANCELED"] ELSE a.files[i]]
  OBVIOUS
<1>5. PICK b : b = [a EXCEPT !.files = files]
  OBVIOUS
<1>6. /\ SameJob(a, b) /\ b.files = files
      /\ \A i \in DOMAIN a.files : IF a.files[i].state \in Active THEN files[i].state = "CANCELED"
                                   ELSE files[i] = a.files[i]
  BY <1>3, <1>4, <1>5, CancelLemma
<1>7. job' = [job EXCEPT ![sid] = b]
  BY <1>2, <1>4, <1>5 DEF Cancel
<1>8. JobState(b) \in FinalJob
  <2>1. \A i \in DOMAIN b.files : b.files[i].state \notin Active
    BY <1>6 DEF SameJob, Active
  <2> QED
    BY <2>1, Final
<1>9. Older(a, b)
  <2>1. CASE \E i \in DOMAIN a.files : a.files[i].state \in Active
    <3>1. \A k \in DOMAIN a.files :
             a.files[k].state \in {"FINISHED", "FAILED", "CANCELED"} => b.files[k] = a.files[k]
      BY <1>6 DEF Active
    <3> QED
      BY <1>6, <2>1, <3>1, OlderStep
  <2>2. CASE \A i \in DOMAIN a.files : a.files[i].state \notin Active
    <3>1. files = [i \in DOMAIN a.files |-> a.files[i]]
      BY <1>4, <2>2
    <3>2. files = a.files
      BY <1>3, <3>1, JobFiles
    <3>3. b = a
      BY <1>3, <1>5, <3>2 DEF Job
    <3> QED
      BY <3>3, OlderSelf
  <2> QED
    BY <2>1, <2>2
<1> QED
  BY <1>1, <1>2, <1>6, <1>7, <1>8, <1>9, OneJobKeeps

LEMMA ArriveKeeps ==
    ASSUME IInv, RInv, NEW sid \in Request, Arrive(sid)
    PROVE  RInv'
<1>1. setup' = setup /\ row' = row /\ poll' = poll /\ Posted(sid) /\ post[sid].status = "sent"
  BY DEF Arrive, Posted
<1>2. PICK status \in {"refused", "made"} : post' = [post EXCEPT ![sid].status = status]
  BY DEF Arrive
<1>3. PICK old : old = post[sid]
  OBVIOUS
<1>4. PICK entry : entry = [old EXCEPT !.status = status]
  OBVIOUS
<1>5. post' = [post EXCEPT ![sid] = entry]
  BY <1>2, <1>3, <1>4
<1>6. old \in PostOf(old.sub)
  BY <1>1, <1>3 DEF IInv, PostOK
<1>7. /\ entry.sub = old.sub /\ entry.open = old.open /\ entry.adrift = old.adrift
      /\ entry.status = status /\ entry # NoPost
  BY <1>4, <1>6 DEF PostOf, NoPost
<1>8. /\ post'[sid] = entry /\ \A s \in Request \ {sid} : post'[s] = post[s]
  BY <1>5, Types
<1>9. \A s \in Request \ {sid} : job'[s] = job[s]
  BY Types DEF Arrive
<1>10. ~HasJob(sid)
  BY <1>1 DEF IInv, JobOK
<1>11. job' \in [Request -> Job \cup {NoJob}]
  <2>1. IInv'
    BY ArriveStep
  <2> QED
    BY <2>1 DEF IInv
<1>12. \A s \in Request : /\ Posted(s)' <=> Posted(s)
                          /\ Posted(s) => /\ post'[s].sub = post[s].sub
                                          /\ post'[s].open = post[s].open
                                          /\ post'[s].adrift = post[s].adrift
                                          /\ post'[s].status = "sent" => post[s].status = "sent"
  BY <1>1, <1>3, <1>7, <1>8 DEF Posted
<1>13. \A s \in Request : /\ HasJob(s) => HasJob(s)' /\ Older(job[s], job'[s])
                          /\ HasJob(s)' => HasJob(s) \/ post[s].status = "sent"
  BY <1>1, <1>9, <1>10, OlderSelf DEF HasJob
<1>14. ASSUME NEW s \in Request, Posted(s), NEW id, Undecided(s, id)'  PROVE Undecided(s, id)
  <2>1. CASE s = sid
    BY <1>1, <2>1 DEF Undecided
  <2>2. CASE s # sid
    <3>1. LiveFiles(s)' = LiveFiles(s)
      BY <1>9, <2>2, LiveSame
    <3> QED
      BY <1>8, <1>14, <2>2, <3>1 DEF Undecided
  <2> QED
    BY <2>1, <2>2
<1>15. FtsMoves
  BY <1>1, <1>11, <1>12, <1>13, <1>14 DEF FtsMoves
<1> QED
  BY <1>15, FtsKeeps

LEMMA StillKeeps ==
    ASSUME IInv, RInv, setup' = setup, row' = row, post' = post, job' = job, poll' = poll
    PROVE  RInv'
<1>1. \A s : LiveFiles(s)' = LiveFiles(s)
  BY LiveSame
<1>2. \A s, id : Undecided(s, id)' => Undecided(s, id)
  BY <1>1 DEF Undecided
<1>3. FtsMoves
  BY <1>2, OlderSelf, Types DEF FtsMoves, Posted, HasJob
<1> QED
  BY <1>3, FtsKeeps

LEMMA FtsStepKeeps ==
    ASSUME IInv, RInv, NEW sid \in Request, FtsStep(sid)
    PROVE  RInv'
<1>1. ASSUME NEW i \in FileNumbers(sid), CopyFile(sid, i) \/ CopyFails(sid, i) \/ ArchivingEnds(sid, i)
      PROVE  RInv'
  <2>1. setup' = setup /\ row' = row /\ post' = post /\ poll' = poll /\ InState(sid, i, Active)
    BY <1>1 DEF CopyFile, CopyFails, ArchivingEnds, InState, Active
  <2>2. \E state \in {"ARCHIVING", "FINISHED", "FAILED"} :
           \E found \in {"nothing", "on_tape", "on_disk", "corrupted"} : EndFile(sid, i, state, found)
    <3>1. CASE CopyFile(sid, i)
      BY <3>1 DEF CopyFile, Found
    <3>2. CASE CopyFails(sid, i)
      BY <3>2 DEF CopyFails
    <3>3. CASE ArchivingEnds(sid, i)
      BY <3>3 DEF ArchivingEnds
    <3> QED
      BY <1>1, <3>1, <3>2, <3>3
  <2> QED
    BY <2>1, <2>2, EndFileKeeps
<1> QED
  BY <1>1, ArriveKeeps DEF FtsStep

\* A submission is closed, and its requests take a state: they wait for the job, or are given
\* up; what may arrive all the same is then adrift.
Closes(sid, state) ==
    /\ setup' = setup /\ job' = job /\ poll' = poll
    /\ AsSet(row', Ids(sid), state, IF state = "SUBMITTED" THEN sid ELSE NoJobId)
    /\ \A s \in Request : s # sid => post'[s] = post[s]
    /\ Posted(sid)' /\ post'[sid].sub = post[sid].sub /\ ~post'[sid].open
    /\ post'[sid].status = "sent" => post[sid].status = "sent"
    /\ post'[sid].status = "made" => post[sid].status = "made"
    /\ state # "SUBMITTED" /\ ~post'[sid].adrift => post'[sid].status \notin {"sent", "made"}

LEMMA SubmitterCloses ==
    ASSUME IInv, NEW sid \in Request, SubmitterStep(sid)
    PROVE  /\ Open(sid)
           /\ \E state \in {"SUBMITTED", "SUBMISSION_FAILED", "LOST"} : Closes(sid, state)
<1>1. Open(sid) /\ setup' = setup /\ job' = job /\ poll' = poll
  BY DEF SubmitterStep, Answered, Unanswered, TimesOut, SubmitterDies
<1>2. \E state \in {"SUBMITTED", "SUBMISSION_FAILED", "LOST"}, adrift \in BOOLEAN :
         /\ row' = SetRows(Ids(sid), state, IF state = "SUBMITTED" THEN sid ELSE NoJobId)
         /\ Close(sid, adrift)
         /\ state = "SUBMITTED" \/ adrift \/ post[sid].status = "refused"
  <2>1. CASE Answered(sid)
    <3>1. /\ post[sid].status \in {"made", "refused"} /\ Close(sid, FALSE)
          /\ row' = IF post[sid].status = "made" THEN SetRows(Ids(sid), "SUBMITTED", sid)
                    ELSE WithoutAnswer(sid)
      BY <2>1 DEF Answered
    <3>2. CASE post[sid].status = "made" \/ post[sid].known
      <4>1. row' = SetRows(Ids(sid), "SUBMITTED", sid)
        BY <3>1, <3>2 DEF WithoutAnswer
      <4> QED
        BY <3>1, <4>1
    <3>3. CASE post[sid].status = "refused" /\ ~post[sid].known
      <4>1. row' = SetRows(Ids(sid), "SUBMISSION_FAILED", NoJobId)
        BY <3>1, <3>3 DEF WithoutAnswer
      <4> QED
        BY <3>1, <3>3, <4>1
    <3> QED
      BY <3>1, <3>2, <3>3
  <2>2. CASE Unanswered(sid)
    <3>1. Close(sid, ~post[sid].known) /\ row' = WithoutAnswer(sid) /\ (~post[sid].known) \in BOOLEAN
      BY <2>2 DEF Unanswered
    <3>2. CASE post[sid].known
      BY <3>1, <3>2 DEF WithoutAnswer
    <3>3. CASE ~post[sid].known
      <4>1. row' = SetRows(Ids(sid), "SUBMISSION_FAILED", NoJobId)
        BY <3>1, <3>3 DEF WithoutAnswer
      <4> QED
        BY <3>1, <3>3, <4>1
    <3> QED
      BY <3>2, <3>3
  <2>3. CASE TimesOut(sid)
    BY <2>3 DEF TimesOut
  <2>4. CASE SubmitterDies(sid)
    BY <2>4 DEF SubmitterDies
  <2> QED
    BY <2>1, <2>2, <2>3, <2>4 DEF SubmitterStep
<1>3. PICK state \in {"SUBMITTED", "SUBMISSION_FAILED", "LOST"}, adrift \in BOOLEAN :
         /\ row' = SetRows(Ids(sid), state, IF state = "SUBMITTED" THEN sid ELSE NoJobId)
         /\ Close(sid, adrift)
         /\ state = "SUBMITTED" \/ adrift \/ post[sid].status = "refused"
  BY <1>2
<1>4. PICK external : external = IF state = "SUBMITTED" THEN sid ELSE NoJobId
  OBVIOUS
<1>5. AsSet(row', Ids(sid), state, external)
  <2>1. PICK ids, rows : ids = Ids(sid) /\ rows = SetRows(ids, state, external)
    OBVIOUS
  <2>2. /\ row \in [Transfer -> Row] /\ state \in RowState
        /\ external \in Request \cup {NoJobId}
    BY <1>4, Types DEF RowState
  <2>3. AsSet(rows, ids, state, external)
    BY ONLY <2>1, <2>2, SetRowsLemma
  <2>4. row' = rows
    BY <1>3, <1>4, <2>1
  <2> QED
    BY <2>1, <2>3, <2>4
<1>6. PICK status \in {post[sid].status} \cup (IF post[sid].status = "sent" THEN {"dropped"} ELSE {}) :
          post' = [post EXCEPT ![sid].open = FALSE, ![sid].status = status,
                               ![sid].adrift = adrift /\ status \in {"sent", "made"}]
  BY <1>3 DEF Close
<1>7. PICK old : old = post[sid]
  OBVIOUS
<1>8. PICK entry : entry = [old EXCEPT !.open = FALSE, !.status = status,
                                       !.adrift = adrift /\ status \in {"sent", "made"}]
  OBVIOUS
<1>9. post' = [post EXCEPT ![sid] = entry]
  BY <1>6, <1>7, <1>8
<1>10. old \in PostOf(old.sub)
  BY <1>1, <1>7 DEF Open, Posted, IInv, PostOK
<1>11. /\ entry.sub = old.sub /\ entry.open = FALSE /\ entry.status = status /\ entry # NoPost
       /\ entry.adrift = (adrift /\ status \in {"sent", "made"})
  BY <1>8, <1>10 DEF PostOf, NoPost
<1>12. post'[sid] = entry /\ \A s \in Request : s # sid => post'[s] = post[s]
  BY <1>9, Types
<1>13. status = old.status \/ status = "dropped"
  BY <1>6, <1>7
<1>14. state # "SUBMITTED" /\ ~entry.adrift => status \notin {"sent", "made"}
  BY <1>3, <1>7, <1>11, <1>13
<1>15. Closes(sid, state)
  BY <1>1, <1>4, <1>5, <1>7, <1>11, <1>12, <1>13, <1>14 DEF Closes, Posted
<1> QED
  BY <1>1, <1>15

\* The rows of a submission whose answer is waited for are its own.
LEMMA OpenRows ==
    ASSUME IInv, RInv, NEW sid \in Request, Open(sid), NEW t \in Transfer
    PROVE  CurrentId(t) \in Ids(sid) =>
              row[t].state = "SUBMITTING" /\ row[t].external = NoJobId
<1>1. CurrentId(t)[1] = t
  BY CurrentIds
<1> QED
  BY <1>1 DEF RInv, OpenWaits

LEMMA SubmitterKeeps ==
    ASSUME IInv, RInv, NEW sid \in Request, SubmitterStep(sid)
    PROVE  RInv'
<1>1. Open(sid) /\ Posted(sid)
  BY SubmitterCloses DEF Open, Posted
<1>2. PICK state \in {"SUBMITTED", "SUBMISSION_FAILED", "LOST"} : Closes(sid, state)
  BY SubmitterCloses
<1>3. PICK external : external = IF state = "SUBMITTED" THEN sid ELSE NoJobId
  OBVIOUS
<1>4. \A t \in Transfer :
         /\ CurrentId(t)' = CurrentId(t)
         /\ CurrentId(t) \in Ids(sid) => row'[t].state = state /\ row'[t].external = external
         /\ CurrentId(t) \notin Ids(sid) => row'[t] = row[t]
  <2>1. AsSet(row', Ids(sid), state, external)
    BY <1>2, <1>3 DEF Closes
  <2>2. \A t \in Transfer : CurrentId(t) \in Ids(sid) => row[t].state # "ARCHIVED"
    BY <1>1, OpenRows
  <2> QED
    BY <2>1, <2>2 DEF AsSet, CurrentId
<1>5. \A s \in Request : Posted(s)' => Posted(s) /\ Ids(s)' = Ids(s)
  <2>1. \A s \in Request \ {sid} : Posted(s)' => Posted(s) /\ Ids(s)' = Ids(s)
    BY <1>2 DEF Closes, Posted, Ids
  <2>2. Ids(sid)' = Ids(sid)
    BY <1>2 DEF Closes, Ids
  <2> QED
    BY <1>1, <2>1, <2>2
<1>6. /\ job' = job /\ poll' = poll /\ setup' = setup
      /\ \A s \in Request : s # sid => post'[s] = post[s]
      /\ Posted(sid)' /\ ~post'[sid].open
      /\ post'[sid].status = "sent" => post[sid].status = "sent"
      /\ post'[sid].status = "made" => post[sid].status = "made"
      /\ state # "SUBMITTED" /\ ~post'[sid].adrift => post'[sid].status \notin {"sent", "made"}
  BY <1>2 DEF Closes
<1>7. \A s \in Request : s # sid /\ Posted(s) => Ids(s) \cap Ids(sid) = {}
  BY <1>1, IdsLemma
<1>8. OpenWaits'
  <2> SUFFICES ASSUME NEW s \in Request, Open(s)', NEW id \in Ids(s)'
               PROVE  /\ id = CurrentId(id[1])'
                      /\ row'[id[1]].state = "SUBMITTING" /\ row'[id[1]].external = NoJobId
    BY DEF OpenWaits
  <2>1. s # sid /\ Open(s) /\ Posted(s) /\ id \in Ids(s)
    BY <1>5, <1>6 DEF Open, Posted
  <2>2. id = CurrentId(id[1]) /\ row[id[1]].state = "SUBMITTING" /\ row[id[1]].external = NoJobId
    BY <2>1 DEF RInv, OpenWaits
  <2>3. id[1] \in Transfer /\ id \notin Ids(sid)
    BY <1>7, <2>1, IdsLemma
  <2> QED
    BY <1>4, <2>2, <2>3
<1>9. ASSUME NEW t \in Transfer  PROVE RowFits(t)'
  <2>1. CASE CurrentId(t) \in Ids(sid)
    <3>1. /\ row'[t].state = state /\ row'[t].external = external /\ CurrentId(t)' = CurrentId(t)
          /\ Ids(sid)' = Ids(sid)
      BY <1>4, <1>5, <1>6, <2>1
    <3> QED
      BY <1>3, <1>6, <2>1, <3>1 DEF RowFits
  <2>2. CASE CurrentId(t) \notin Ids(sid)
    <3>1. row'[t] = row[t] /\ CurrentId(t)' = CurrentId(t)
      BY <1>4, <2>2
    <3>2. PICK e, id, st : e = row[t].external /\ id = CurrentId(t) /\ st = row[t].state
      OBVIOUS
    <3>3. RowFits(t)
      BY DEF RInv
    <3>4. e # NoJobId => /\ e # sid /\ e \in Request /\ Posted(e) /\ ~post[e].open /\ id \in Ids(e)
                         /\ st \in {"SUBMITTED", "DONE", "FAILED", "LOST", "ARCHIVED"}
                         /\ st = "LOST" => ~HasJob(e) /\ post[e].status # "sent"
      BY <2>2, <3>2, <3>3, CurrentIds DEF RowFits
    <3>5. e # NoJobId => Posted(e)' /\ ~post'[e].open /\ id \in Ids(e)' /\ post'[e] = post[e]
      BY <1>5, <1>6, <3>4 DEF Posted
    <3>6. st \in {"DONE", "FAILED"} => e # NoJobId /\ HasJob(e) /\ Reports(job[e], id, st)
      BY <3>2, <3>3 DEF RowFits
    <3>7. PICK j : j = job[e]
      OBVIOUS
    <3>8. Reports(j, id, st)' <=> Reports(j, id, st)
      BY <1>6, ReportsSame
    <3> QED
      BY <1>6, <3>1, <3>2, <3>4, <3>5, <3>6, <3>7, <3>8 DEF RowFits, HasJob
  <2> QED
    BY <2>1, <2>2
<1>10. Followed'
  <2> SUFFICES ASSUME NEW s \in Request, Posted(s)', ~post'[s].adrift, NEW id \in Ids(s)',
                      Undecided(s, id)'
               PROVE  Waits(s, id)'
    BY DEF Followed
  <2>1. Posted(s) /\ id \in Ids(s)
    BY <1>5
  <2>2. LiveFiles(s)' = LiveFiles(s)
    BY <1>6, LiveSame
  <2>3. CASE s = sid
    <3>1. state = "SUBMITTED"
      <4> SUFFICES ASSUME state # "SUBMITTED"  PROVE FALSE
        OBVIOUS
      <4>1. post'[sid].status \notin {"sent", "made"}
        BY <1>6, <2>3
      <4>2. PICK file \in LiveFiles(sid) : TRUE
        BY <2>2, <2>3, <4>1 DEF Undecided
      <4>3. HasJob(sid)
        BY <4>2 DEF LiveFiles, HasJob
      <4>4. IInv'
        BY SubmitterSteps
      <4>5. HasJob(sid)'
        BY <1>6, <4>3 DEF HasJob
      <4> QED
        BY <4>1, <4>4, <4>5 DEF IInv, JobOK
    <3>2. id = CurrentId(id[1]) /\ id[1] \in Transfer
      BY <1>1, <2>1, <2>3, IdsLemma DEF RInv, OpenWaits
    <3> QED
      BY <1>3, <1>4, <2>1, <2>3, <3>1, <3>2 DEF Waits
  <2>4. CASE s # sid
    <3>1. post'[s] = post[s] /\ Undecided(s, id)
      BY <1>6, <2>2, <2>4 DEF Undecided
    <3>2. Waits(s, id)
      BY <2>1, <3>1 DEF RInv, Followed
    <3>3. id[1] \in Transfer /\ id \notin Ids(sid)
      BY <1>7, <2>1, <2>4, IdsLemma
    <3> QED
      BY <1>4, <3>2, <3>3 DEF Waits
  <2> QED
    BY <2>3, <2>4
<1>11. ASSUME NEW s \in Request, poll'[s] # NoPoll  PROVE PollFits(s)'
  <2>1. poll'[s] = poll[s] /\ PollFits(s)
    BY <1>6, <1>11 DEF RInv
  <2>2. s # sid /\ post'[s] = post[s]
    BY <1>1, <1>6, <2>1 DEF PollFits, Open
  <2>3. Posted(s)' /\ Posted(s) /\ Ids(s)' = Ids(s)
    BY <1>5, <2>1, <2>2 DEF PollFits, Posted
  <2>4. ASSUME NEW pair \in poll[s].rows
        PROVE  /\ pair[1] \in Ids(s) /\ pair[2].state = "SUBMITTED" /\ pair[2].external = s
               /\ pair[1] = CurrentId(pair[1][1])' => row'[pair[1][1]].external = s
    <3>1. /\ pair[1] \in Ids(s) /\ pair[2].state = "SUBMITTED" /\ pair[2].external = s
          /\ pair[1] = CurrentId(pair[1][1]) => row[pair[1][1]].external = s
      BY <2>1, <2>4 DEF PollFits
    <3>2. pair[1][1] \in Transfer /\ pair[1] \notin Ids(sid)
      BY <1>7, <2>2, <2>3, <3>1, IdsLemma
    <3> QED
      BY <1>4, <3>1, <3>2
  <2>5. /\ ~post'[s].open /\ post'[s].status # "sent"
        /\ poll[s].asked => IF poll[s].answer = NoJob THEN ~HasJob(s)
                            ELSE HasJob(s) /\ Older(poll[s].answer, job[s])
    BY <2>1, <2>2 DEF PollFits
  <2>6. job'[s] = job[s] /\ (HasJob(s)' <=> HasJob(s))
        /\ (Older(poll[s].answer, job[s])' <=> Older(poll[s].answer, job[s]))
    BY <1>6, <2>1 DEF HasJob, Older, JobState, States
  <2> QED
    BY <2>1, <2>3, <2>4, <2>5, <2>6 DEF PollFits
<1> QED
  BY <1>8, <1>9, <1>10, <1>11 DEF RInv

\* Steps that take queued requests: their rows have no job, and no other row changes.
TakesQueued(state, ids) ==
    \A t \in Transfer :
        /\ row'[t].n = row[t].n
        /\ CurrentId(t) \in ids => /\ row[t].state = "QUEUED"
                                   /\ row'[t].state = state /\ row'[t].external = NoJobId
        /\ CurrentId(t) \notin ids => row'[t] = row[t]

LEMMA QueuedKeeps ==
    ASSUME IInv, RInv, setup' = setup, job' = job, poll' = poll,
           NEW state \in {"SUBMITTING", "SUBMISSION_FAILED"}, NEW ids, TakesQueued(state, ids),
           \A s \in Request : Posted(s) => post'[s] = post[s],
           \A s \in Request : Posted(s)' /\ ~Posted(s) =>
               /\ state = "SUBMITTING" /\ Ids(s)' = ids
               /\ \A id \in ids : id[1] \in Transfer /\ id = CurrentId(id[1])
    PROVE  RInv'
<1>1. \A t \in Transfer :
         /\ CurrentId(t)' = CurrentId(t)
         /\ row[t].state # "QUEUED" => row'[t] = row[t]
         /\ \/ row'[t] = row[t]
            \/ CurrentId(t) \in ids /\ row'[t].state = state /\ row'[t].external = NoJobId
         /\ CurrentId(t) \in ids => row'[t].state = state /\ row'[t].external = NoJobId
  BY DEF TakesQueued, CurrentId
<1>2. \A s \in Request : Posted(s) => Posted(s)' /\ Ids(s)' = Ids(s)
  BY DEF Posted, Ids
<1>3. ASSUME NEW s \in Request, Posted(s)', ~Posted(s), NEW id \in Ids(s)'
      PROVE  /\ id[1] \in Transfer /\ id = CurrentId(id[1])' /\ id = CurrentId(id[1])
             /\ row'[id[1]].state = "SUBMITTING" /\ row'[id[1]].external = NoJobId
  <2>1. state = "SUBMITTING" /\ id \in ids /\ id[1] \in Transfer /\ id = CurrentId(id[1])
    BY <1>3
  <2> QED
    BY <1>1, <2>1
<1>4. OpenWaits'
  <2> SUFFICES ASSUME NEW s \in Request, Open(s)', NEW id \in Ids(s)'
               PROVE  /\ id = CurrentId(id[1])'
                      /\ row'[id[1]].state = "SUBMITTING" /\ row'[id[1]].external = NoJobId
    BY DEF OpenWaits
  <2>1. Posted(s)'
    BY DEF Open, Posted
  <2>2. CASE ~Posted(s)
    BY <1>3, <2>1, <2>2
  <2>3. CASE Posted(s)
    <3>1. Open(s) /\ id \in Ids(s)
      BY <1>2, <2>3 DEF Open
    <3>2. id = CurrentId(id[1]) /\ row[id[1]].state = "SUBMITTING" /\ row[id[1]].external = NoJobId
      BY <3>1 DEF RInv, OpenWaits
    <3>3. id[1] \in Transfer
      BY <2>3, <3>1, IdsLemma
    <3> QED
      BY <1>1, <3>2, <3>3
  <2> QED
    BY <2>2, <2>3
<1>5. ASSUME NEW t \in Transfer  PROVE RowFits(t)'
  <2>1. CASE row'[t].state = state /\ row'[t].external = NoJobId
    BY <2>1 DEF RowFits
  <2>2. CASE row'[t] = row[t]
    <3>1. CurrentId(t)' = CurrentId(t)
      BY <1>1
    <3>2. PICK e, id, st : e = row[t].external /\ id = CurrentId(t) /\ st = row[t].state
      OBVIOUS
    <3>3. RowFits(t)
      BY DEF RInv
    <3>4. e # NoJobId => /\ e \in Request /\ Posted(e) /\ ~post[e].open /\ id \in Ids(e)
                         /\ st \in {"SUBMITTED", "DONE", "FAILED", "LOST", "ARCHIVED"}
                         /\ st = "LOST" => ~HasJob(e) /\ post[e].status # "sent"
      BY <3>2, <3>3, CurrentIds DEF RowFits
    <3>5. e # NoJobId => Posted(e)' /\ ~post'[e].open /\ id \in Ids(e)' /\ post'[e] = post[e]
      BY <1>2, <3>4
    <3>6. st \in {"DONE", "FAILED"} => e # NoJobId /\ HasJob(e) /\ Reports(job[e], id, st)
      BY <3>2, <3>3 DEF RowFits
    <3>7. PICK j : j = job[e]
      OBVIOUS
    <3>8. Reports(j, id, st)' <=> Reports(j, id, st)
      BY ReportsSame
    <3> QED
      BY <2>2, <3>1, <3>2, <3>4, <3>5, <3>6, <3>7, <3>8 DEF RowFits, HasJob
  <2> QED
    BY <1>1, <2>1, <2>2
<1>6. Followed'
  <2> SUFFICES ASSUME NEW s \in Request, Posted(s)', ~post'[s].adrift, NEW id \in Ids(s)',
                      Undecided(s, id)'
               PROVE  Waits(s, id)'
    BY DEF Followed
  <2>1. CASE ~Posted(s)
    BY <1>3, <2>1 DEF Waits
  <2>2. CASE Posted(s)
    <3>1. LiveFiles(s)' = LiveFiles(s)
      BY LiveSame
    <3>2. Undecided(s, id) /\ ~post[s].adrift /\ id \in Ids(s)
      BY <1>2, <2>2, <3>1 DEF Undecided
    <3>3. Waits(s, id)
      BY <2>2, <3>2 DEF RInv, Followed
    <3>4. id[1] \in Transfer /\ row[id[1]].state # "QUEUED"
      BY <2>2, <3>2, <3>3, IdsLemma DEF Waits
    <3> QED
      BY <1>1, <3>3, <3>4 DEF Waits
  <2> QED
    BY <2>1, <2>2
<1>7. ASSUME NEW s \in Request, poll'[s] # NoPoll  PROVE PollFits(s)'
  <2>1. poll'[s] = poll[s] /\ PollFits(s)
    BY <1>7 DEF RInv
  <2>2. Posted(s) /\ post'[s] = post[s] /\ Posted(s)' /\ Ids(s)' = Ids(s)
    BY <1>2, <2>1 DEF PollFits
  <2>3. ASSUME NEW pair \in poll[s].rows
        PROVE  /\ pair[1] \in Ids(s) /\ pair[2].state = "SUBMITTED" /\ pair[2].external = s
               /\ pair[1] = CurrentId(pair[1][1])' => row'[pair[1][1]].external = s
    <3>1. /\ pair[1] \in Ids(s) /\ pair[2].state = "SUBMITTED" /\ pair[2].external = s
          /\ pair[1] = CurrentId(pair[1][1]) => row[pair[1][1]].external = s
      BY <2>1, <2>3 DEF PollFits
    <3>2. /\ pair[1][1] \in Transfer
          /\ pair[1] = CurrentId(pair[1][1]) => row[pair[1][1]].state # "QUEUED"
      BY <2>2, <3>1, IdsLemma
    <3> QED
      BY <1>1, <3>1, <3>2
  <2>4. /\ ~post'[s].open /\ post'[s].status # "sent"
        /\ poll[s].asked => IF poll[s].answer = NoJob THEN ~HasJob(s)
                            ELSE HasJob(s) /\ Older(poll[s].answer, job[s])
    BY <2>1, <2>2 DEF PollFits
  <2>5. job'[s] = job[s] /\ (HasJob(s)' <=> HasJob(s))
        /\ (Older(poll[s].answer, job[s])' <=> Older(poll[s].answer, job[s]))
    BY <2>1 DEF HasJob, Older, JobState, States
  <2> QED
    BY <2>1, <2>2, <2>3, <2>4, <2>5 DEF PollFits
<1> QED
  BY <1>4, <1>5, <1>6, <1>7 DEF RInv

LEMMA SubmitTakes ==
    ASSUME NEW sid \in Request, NEW sub, NEW new, Sends(sid, sub, new)
    PROVE  TakesQueued("SUBMITTING", new)
<1>1. AsSet(row', new, "SUBMITTING", NoJobId)
      /\ \A t \in Transfer : CurrentId(t) \in new => row[t].state = "QUEUED"
  BY DEF Sends, CurrentId
<1> QED
  BY <1>1 DEF AsSet, TakesQueued

LEMMA SubmitKeeps ==
    ASSUME IInv, RInv, Submit
    PROVE  RInv'
<1>1. PICK sid \in Request : \E sub, new : Sends(sid, sub, new)
  BY SubmitSends
<1>2. PICK sub, new : Sends(sid, sub, new)
  BY <1>1
<1>3. TakesQueued("SUBMITTING", new)
  BY <1>2, SubmitTakes
<1>4. /\ setup' = setup /\ job' = job /\ poll' = poll
      /\ ~Posted(sid) /\ \A s \in Request \ {sid} : post'[s] = post[s]
      /\ \A id \in new : id[1] \in Transfer /\ id = CurrentId(id[1])
  BY <1>2 DEF Sends
<1>5. Ids(sid)' = new
  BY <1>2 DEF Sends, Ids
<1>6. \A s \in Request : Posted(s) => post'[s] = post[s]
  BY <1>4
<1>7. \A s \in Request : Posted(s)' /\ ~Posted(s) => s = sid
  BY <1>4 DEF Posted
<1> QED
  BY <1>3, <1>4, <1>5, <1>6, <1>7, QueuedKeeps

LEMMA NoStorageTokenTakes ==
    ASSUME IInv, NoStorageToken
    PROVE  \E ids : TakesQueued("SUBMISSION_FAILED", ids)
<1>1. PICK chosen \in SUBSET {p \in DOMAIN setup.paths : Queued(p)} :
         /\ ServedTogether(chosen)
         /\ \E j \in JobsOf(chosen) :
               row' = SetRows({hop.id : hop \in ToSet(j.transfers)}, "SUBMISSION_FAILED", NoJobId)
  BY DEF NoStorageToken
<1>2. PICK j \in JobsOf(chosen) :
         row' = SetRows({hop.id : hop \in ToSet(j.transfers)}, "SUBMISSION_FAILED", NoJobId)
  BY <1>1
<1>3. /\ chosen \in SUBSET DOMAIN setup.paths /\ \A p \in chosen : Served(p) # <<>>
      /\ setup \in Setups /\ row \in [Transfer -> Row]
  BY <1>1, Types DEF ServedTogether
<1>4. JobFits(j, chosen)
  BY <1>3, JobsFit
<1>5. PICK ids, rows : /\ ids = {hop.id : hop \in ToSet(j.transfers)}
                       /\ rows = SetRows(ids, "SUBMISSION_FAILED", NoJobId)
  OBVIOUS
<1>6. ASSUME NEW t \in Transfer, CurrentId(t) \in ids
      PROVE  row[t].state = "QUEUED"
  <2>1. PICK i \in DOMAIN j.transfers : CurrentId(t) = j.transfers[i].id
    BY <1>5, <1>6 DEF ToSet
  <2>2. PICK p \in chosen : \E k \in DOMAIN Served(p) : j.transfers[i].id[1] = Served(p)[k].id
    BY <1>4 DEF JobFits
  <2>3. Queued(p)
    OBVIOUS
  <2>4. \E k \in DOMAIN Served(p) : t = Served(p)[k].id
    BY <2>1, <2>2 DEF CurrentId
  <2> QED
    BY <2>3, <2>4 DEF Queued, ToSet
<1>7. "SUBMISSION_FAILED" \in RowState /\ NoJobId \in Request \cup {NoJobId}
  BY DEF RowState
<1>8. AsSet(rows, ids, "SUBMISSION_FAILED", NoJobId)
  BY ONLY <1>3, <1>5, <1>7, SetRowsLemma
<1>9. row' = rows
  BY <1>2, <1>5
<1>10. TakesQueued("SUBMISSION_FAILED", ids)
  BY <1>6, <1>8, <1>9 DEF AsSet, TakesQueued
<1> QED
  BY <1>10

LEMMA NoStorageTokenKeeps ==
    ASSUME IInv, RInv, NoStorageToken
    PROVE  RInv'
<1>1. PICK ids : TakesQueued("SUBMISSION_FAILED", ids)
  BY NoStorageTokenTakes
<1>2. setup' = setup /\ post' = post /\ job' = job /\ poll' = poll
  BY DEF NoStorageToken
<1>3. \A s \in Request : Posted(s)' => Posted(s)
  BY <1>2 DEF Posted
<1> QED
  BY <1>1, <1>2, <1>3, QueuedKeeps

\* What a report or the finisher does to a row.
RowKept(t) ==
    row'[t].n = row[t].n /\ row'[t].state = row[t].state /\ row'[t].external = row[t].external

RowEnds(t) ==
    LET sid == row[t].external
    IN /\ sid # NoJobId /\ row[t].state = "SUBMITTED"
       /\ row'[t].n = row[t].n /\ row'[t].external = sid
       /\ \/ /\ row'[t].state \in {"DONE", "FAILED"} /\ HasJob(sid)
             /\ Reports(job[sid], CurrentId(t), row'[t].state)
          \/ row'[t].state = "LOST" /\ ~HasJob(sid) /\ post[sid].status # "sent"

RowCloses(t) ==
    /\ row[t].state \in Ended
    /\ \/ row'[t].n = row[t].n /\ row'[t].state = "ARCHIVED" /\ row'[t].external = row[t].external
       \/ row'[t].n = row[t].n + 1 /\ row'[t].state = "QUEUED" /\ row'[t].external = NoJobId

RowsMove ==
    /\ setup' = setup /\ post' = post /\ job' = job
    /\ \A t \in Transfer : RowKept(t) \/ RowEnds(t) \/ RowCloses(t)

\* Only requests of one job are reported on.
ReportsOf(sid) ==
    /\ setup' = setup /\ post' = post /\ job' = job
    /\ \A t \in Transfer : RowKept(t) \/ (RowEnds(t) /\ row[t].external = sid)

LEMMA ReportsMove ==
    ASSUME NEW sid, ReportsOf(sid)
    PROVE  RowsMove
BY DEF ReportsOf, RowsMove

LEMMA MovesKeep ==
    ASSUME IInv, RInv, RowsMove
    PROVE  /\ OpenWaits'
           /\ \A t \in Transfer : RowFits(t)'
           /\ Followed'
           /\ \A s \in Request : poll[s] # NoPoll /\ poll'[s] = poll[s] => PollFits(s)'
<1>1. /\ setup' = setup /\ post' = post /\ job' = job
      /\ \A t \in Transfer : RowKept(t) \/ RowEnds(t) \/ RowCloses(t)
  BY DEF RowsMove
<1>2. \A s : (Posted(s)' <=> Posted(s)) /\ Ids(s)' = Ids(s) /\ (HasJob(s)' <=> HasJob(s))
  BY <1>1 DEF Posted, Ids, HasJob
<1>3. \A t \in Transfer : row'[t].n = row[t].n => CurrentId(t)' = CurrentId(t)
  BY DEF CurrentId
<1>4. ASSUME NEW t \in Transfer, row[t].state = "SUBMITTING"  PROVE RowKept(t)
  BY <1>1, <1>4 DEF RowEnds, RowCloses, Ended
<1>5. OpenWaits'
  <2> SUFFICES ASSUME NEW s \in Request, Open(s)', NEW id \in Ids(s)'
               PROVE  /\ id = CurrentId(id[1])'
                      /\ row'[id[1]].state = "SUBMITTING" /\ row'[id[1]].external = NoJobId
    BY DEF OpenWaits
  <2>1. Open(s) /\ Posted(s) /\ id \in Ids(s)
    BY <1>1, <1>2 DEF Open, Posted
  <2>2. id = CurrentId(id[1]) /\ row[id[1]].state = "SUBMITTING" /\ row[id[1]].external = NoJobId
    BY <2>1 DEF RInv, OpenWaits
  <2>3. id[1] \in Transfer
    BY <2>1, IdsLemma
  <2> QED
    BY <1>3, <1>4, <2>2, <2>3 DEF RowKept
<1>6. ASSUME NEW t \in Transfer  PROVE RowFits(t)'
  <2>1. PICK e, id, st : e = row[t].external /\ id = CurrentId(t) /\ st = row[t].state
    OBVIOUS
  <2>2. RowFits(t)
    BY DEF RInv
  <2>3. e # NoJobId => /\ e \in Request /\ Posted(e) /\ ~post[e].open /\ id \in Ids(e)
                       /\ st \in {"SUBMITTED", "DONE", "FAILED", "LOST", "ARCHIVED"}
                       /\ st = "LOST" => ~HasJob(e) /\ post[e].status # "sent"
    BY <2>1, <2>2, CurrentIds DEF RowFits
  <2>4. st \in {"DONE", "FAILED"} => e # NoJobId /\ HasJob(e) /\ Reports(job[e], id, st)
    BY <2>1, <2>2 DEF RowFits
  <2>5. PICK j, new : j = job[e] /\ new = row'[t].state
    OBVIOUS
  <2>6. Reports(j, id, new)' <=> Reports(j, id, new)
    BY <1>1, ReportsSame
  <2>7. CASE RowKept(t)
    <3>1. row'[t].external = e /\ new = st /\ CurrentId(t)' = id
      BY <1>3, <2>1, <2>5, <2>7 DEF RowKept
    <3> QED
      BY <1>1, <1>2, <2>3, <2>4, <2>5, <2>6, <3>1 DEF RowFits
  <2>8. CASE RowEnds(t)
    <3>1. /\ row'[t].external = e /\ CurrentId(t)' = id /\ e # NoJobId
          /\ \/ new \in {"DONE", "FAILED"} /\ HasJob(e) /\ Reports(job[e], id, new)
             \/ new = "LOST" /\ ~HasJob(e) /\ post[e].status # "sent"
      BY <1>3, <2>1, <2>5, <2>8 DEF RowEnds
    <3> QED
      BY <1>1, <1>2, <2>3, <2>5, <2>6, <3>1 DEF RowFits
  <2>9. CASE RowCloses(t)
    <3>1. \/ new = "ARCHIVED" /\ row'[t].external = e /\ CurrentId(t)' = id
          \/ new = "QUEUED" /\ row'[t].external = NoJobId
      BY <1>3, <2>1, <2>5, <2>9 DEF RowCloses
    <3> QED
      BY <1>1, <1>2, <2>3, <2>5, <3>1 DEF RowFits
  <2> QED
    BY <1>1, <2>7, <2>8, <2>9
<1>7. Followed'
  <2> SUFFICES ASSUME NEW s \in Request, Posted(s)', ~post'[s].adrift, NEW id \in Ids(s)',
                      Undecided(s, id)'
               PROVE  Waits(s, id)'
    BY DEF Followed
  <2>1. LiveFiles(s)' = LiveFiles(s)
    BY <1>1, LiveSame
  <2>2. Undecided(s, id) /\ ~post[s].adrift /\ id \in Ids(s) /\ Posted(s)
    BY <1>1, <1>2, <2>1 DEF Undecided
  <2>3. PICK t \in Transfer : t = id[1]
    BY <2>2, IdsLemma
  <2>4. /\ CurrentId(t) = id
        /\ \/ row[t].state = "SUBMITTING"
           \/ row[t].state = "SUBMITTED" /\ row[t].external = s
    BY <2>2, <2>3 DEF RInv, Followed, Waits
  <2>5. RowKept(t)
    <3>1. ~RowCloses(t)
      BY <2>4 DEF RowCloses, Ended
    <3>2. ASSUME RowEnds(t)  PROVE FALSE
      <4>1. row[t].external = s
        BY <2>4, <3>2 DEF RowEnds
      <4>2. CASE HasJob(s)
        <5>1. post[s].status = "made" /\ DistinctIds(job[s])
          BY <4>2, FilesOfJob
        <5>2. PICK file \in LiveFiles(s) : file.id = id
          BY <2>2, <5>1 DEF Undecided
        <5>3. PICK new \in {"DONE", "FAILED"} : Reports(job[s], id, new)
          BY <2>4, <3>2, <4>1, <4>2 DEF RowEnds
        <5> QED
          BY <4>2, <5>1, <5>2, <5>3, ReportsEnded
      <4>3. CASE ~HasJob(s)
        <5>1. post[s].status # "sent"
          BY <3>2, <4>1, <4>3 DEF RowEnds
        <5>2. LiveFiles(s) # {}
          BY <2>2, <5>1 DEF Undecided
        <5> QED
          BY <4>3, <5>2 DEF LiveFiles, HasJob
      <4> QED
        BY <4>2, <4>3
    <3> QED
      BY <1>1, <3>1, <3>2
  <2> QED
    BY <1>3, <2>3, <2>4, <2>5 DEF Waits, RowKept
<1>8. ASSUME NEW s \in Request, poll[s] # NoPoll, poll'[s] = poll[s]  PROVE PollFits(s)'
  <2>1. PollFits(s)
    BY <1>8 DEF RInv
  <2>2. ASSUME NEW pair \in poll[s].rows
        PROVE  /\ pair[1] \in Ids(s) /\ pair[2].state = "SUBMITTED" /\ pair[2].external = s
               /\ pair[1] = CurrentId(pair[1][1])' => row'[pair[1][1]].external = s
    <3>1. /\ pair[1] \in Ids(s) /\ pair[2].state = "SUBMITTED" /\ pair[2].external = s
          /\ pair[1] = CurrentId(pair[1][1]) => row[pair[1][1]].external = s
          /\ Posted(s)
      BY <2>1, <2>2 DEF PollFits
    <3>2. PICK t \in Transfer : /\ t = pair[1][1] /\ pair[1][2] \in Nat
                                /\ pair[1][2] <= row[t].n /\ row[t].n \in Nat
      BY <3>1, IdsLemma, CurrentIds
    <3>3. ASSUME pair[1] = CurrentId(t)'  PROVE row'[t].external = s
      <4>1. pair[1][2] = row'[t].n
        BY <3>3 DEF CurrentId
      <4>2. row'[t].n # row[t].n + 1
        BY <3>2, <4>1
      <4>3. row'[t].n = row[t].n /\ row'[t].external = row[t].external
        BY <1>1, <4>2 DEF RowKept, RowEnds, RowCloses
      <4> QED
        BY <1>3, <3>1, <3>2, <3>3, <4>3
    <3> QED
      BY <3>1, <3>2, <3>3
  <2>3. /\ Posted(s) /\ ~post[s].open /\ post[s].status # "sent"
        /\ poll[s].asked => IF poll[s].answer = NoJob THEN ~HasJob(s)
                            ELSE HasJob(s) /\ Older(poll[s].answer, job[s])
    BY <2>1 DEF PollFits
  <2>4. Older(poll[s].answer, job[s])' <=> Older(poll[s].answer, job[s])
    BY <1>1, <1>8 DEF Older, JobState, States
  <2> QED
    BY <1>1, <1>2, <1>8, <2>2, <2>3, <2>4 DEF PollFits
<1> QED
  BY <1>5, <1>6, <1>7, <1>8

LEMMA KeptRows ==
    ASSUME setup' = setup, post' = post, job' = job, row' = row
    PROVE  RowsMove
BY DEF RowsMove, RowKept

\* A report about a request that has a result says the same again.
LEMMA ReportOnRow ==
    ASSUME IInv, RInv, NEW t \in Transfer, row[t].state # "ARCHIVED",
           NEW sid \in Request, row[t].external = sid, HasJob(sid),
           NEW new \in {"DONE", "FAILED"}, Reports(job[sid], CurrentId(t), new),
           row'[t].n = row[t].n, row'[t].state = new, row'[t].external = sid
    PROVE  IF row[t].state = new THEN RowKept(t) ELSE RowEnds(t)
<1>1. sid # NoJobId /\ RowFits(t)
  BY CurrentIds DEF RInv
<1>2. row[t].state \in {"SUBMITTED", "DONE", "FAILED"}
  BY <1>1 DEF RowFits
<1>3. CASE row[t].state = "SUBMITTED"
  BY <1>1, <1>3 DEF RowEnds
<1>4. CASE row[t].state # "SUBMITTED"
  <2>1. row[t].state \in {"DONE", "FAILED"} /\ Reports(job[sid], CurrentId(t), row[t].state)
    BY <1>1, <1>2, <1>4 DEF RowFits
  <2>2. job[sid] \in Job /\ DistinctIds(job[sid])
    BY FilesOfJob
  <2>3. row[t].state = new
    BY <2>1, <2>2, ReportsOnce
  <2> QED
    BY <2>3 DEF RowKept
<1> QED
  BY <1>3, <1>4

LEMMA ReceiveMoves ==
    ASSUME NoReplicasReceived, IInv, RInv, NEW sid \in Request, NEW i, Receive(sid, i)
    PROVE  ReportsOf(sid) /\ poll' = poll
<1>1. /\ setup' = setup /\ post' = post /\ job' = job /\ poll' = poll /\ setup.receiver
      /\ HasJob(sid) /\ i \in DOMAIN job[sid].files
  BY DEF Receive, InState, HasJob
<1>2. PICK j, file : j = job[sid] /\ file = j.files[i]
  OBVIOUS
<1>3. j \in Job /\ ~j.multi
  BY <1>1, <1>2, FilesOfJob
<1>4. file \in File
  BY <1>1, <1>2, <1>3, JobFiles
<1>5. PICK t \in Transfer : t = file.id[1]
  BY <1>4 DEF File, Request
<1>6. PICK new : new = MessageState(file)
  OBVIOUS
<1>7. /\ CurrentId(t) = file.id /\ row[t].state # "ARCHIVED"
      /\ new # "none" /\ row[t].external = sid /\ row[t].state # new
      /\ row' = [row EXCEPT ![t] = Reported(row[t], sid, new, file)]
  BY <1>2, <1>5, <1>6 DEF Receive, Applies
<1>8. new \in {"DONE", "FAILED"} /\ new \in RowState
  BY <1>6, <1>7, MessageStates DEF RowState
<1>9. Reports(j, CurrentId(t), new)
  <2>1. file \in Reporting(j)
    BY <1>1, <1>2, <1>3 DEF Reporting, ToSet
  <2>2. ApiState(j, file) = new
    BY <1>3, <1>6, <1>7 DEF ApiState, MessageState
  <2> QED
    BY <1>7, <2>1, <2>2 DEF Reports
<1>10. row'[t].n = row[t].n /\ row'[t].state = new /\ row'[t].external = sid
  <2>1. PICK old \in Row : old = row[t]
    BY Types
  <2>2. PICK r : r = Reported(old, sid, new, file)
    OBVIOUS
  <2>3. r.n = old.n /\ r.state = new /\ r.external = sid
    BY <1>8, <2>2, ReportedLemma
  <2> QED
    BY <1>7, <2>1, <2>2, <2>3, Types
<1>11. RowEnds(t)
  BY <1>1, <1>2, <1>7, <1>8, <1>9, <1>10, ReportOnRow
<1>12. \A u \in Transfer : u # t => RowKept(u)
  BY <1>7, Types DEF RowKept
<1> QED
  BY <1>1, <1>7, <1>11, <1>12 DEF ReportsOf

LEMMA PollAppliedMoves ==
    ASSUME IInv, RInv, NEW sid \in Request, PollApplied(sid)
    PROVE  ReportsOf(sid) /\ poll' = [poll EXCEPT ![sid] = NoPoll]
<1>1. /\ setup' = setup /\ post' = post /\ job' = job
      /\ poll' = [poll EXCEPT ![sid] = NoPoll] /\ poll[sid] # NoPoll
  BY DEF PollApplied
<1>2. PICK answer, rows : answer = poll[sid].answer /\ rows = poll[sid].rows
  OBVIOUS
<1>3. /\ Posted(sid) /\ ~post[sid].open /\ post[sid].status # "sent"
      /\ \A pair \in rows :
            /\ pair[1] \in Ids(sid) /\ pair[2].state = "SUBMITTED" /\ pair[2].external = sid
            /\ pair[1] = CurrentId(pair[1][1]) => row[pair[1][1]].external = sid
      /\ IF answer = NoJob THEN ~HasJob(sid) ELSE HasJob(sid) /\ Older(answer, job[sid])
  <2>1. PollFits(sid) /\ poll[sid].asked
    BY <1>1 DEF RInv, PollApplied
  <2> QED
    BY <1>2, <2>1 DEF PollFits
<1>4. ASSUME NEW t \in Transfer, NEW pair \in rows, pair[1] = CurrentId(t)
      PROVE  row[t].external = sid
  <2>1. CurrentId(t)[1] = t
    BY CurrentIds
  <2> QED
    BY <1>3, <1>4, <2>1
<1>5. CASE answer # NoJob
  <2>1. row' = RowsAfter(sid, answer, rows)
    BY <1>2, <1>5 DEF PollApplied
  <2>2. answer \in Job
    <3>1. PICK p \in Poll : p = poll[sid]
      BY <1>1, Types
    <3> QED
      BY <1>2, <1>5, <3>1 DEF Poll
  <2>3. ASSUME NEW t \in Transfer, row'[t] # row[t]
        PROVE  RowKept(t) \/ (RowEnds(t) /\ row[t].external = sid)
    <3> DEFINE told == {file \in Reporting(answer) :
                           /\ file.id = CurrentId(t) /\ row[t].state # "ARCHIVED"
                           /\ \E pair \in rows : /\ pair[1] = file.id
                                                 /\ Applies(pair[2], sid, ApiState(answer, file))}
               chosen == CHOOSE f \in told : TRUE
    <3>1. row'[t] = IF told = {} THEN row[t]
                    ELSE Reported(row[t], sid, ApiState(answer, chosen), chosen)
      BY <2>1 DEF RowsAfter
    <3>2. told # {} /\ chosen \in told
      BY <2>3, <3>1
    <3>3. PICK file : file = chosen
      OBVIOUS
    <3>4. PICK new : new = ApiState(answer, file)
      OBVIOUS
    <3>5. /\ file \in Reporting(answer) /\ file.id = CurrentId(t) /\ row[t].state # "ARCHIVED"
          /\ \E pair \in rows : pair[1] = file.id /\ Applies(pair[2], sid, new)
          /\ row'[t] = Reported(row[t], sid, new, file)
      BY <3>1, <3>2, <3>3, <3>4
    <3>. HIDE DEF told, chosen
    <3>6. new \in {"DONE", "FAILED"} /\ new \in RowState
      BY <3>4, <3>5, ApiStates DEF Applies, RowState
    <3>7. row[t].external = sid
      BY <1>4, <3>5
    <3>8. HasJob(sid) /\ Older(answer, job[sid]) /\ job[sid] \in Job
      BY <1>3, <1>5, FilesOfJob
    <3>9. Reports(answer, CurrentId(t), new)
      BY <3>4, <3>5 DEF Reports
    <3>10. Reports(job[sid], CurrentId(t), new)
      BY <2>2, <3>6, <3>8, <3>9, ReportsLater
    <3>11. row'[t].n = row[t].n /\ row'[t].state = new /\ row'[t].external = sid
      <4>1. PICK old \in Row : old = row[t]
        BY Types
      <4>2. PICK r : r = Reported(old, sid, new, file)
        OBVIOUS
      <4>3. r.n = old.n /\ r.state = new /\ r.external = sid
        BY <3>6, <4>2, ReportedLemma
      <4> QED
        BY <3>5, <4>1, <4>2, <4>3
    <3> QED
      BY <3>5, <3>6, <3>7, <3>8, <3>10, <3>11, ReportOnRow
  <2>4. \A t \in Transfer : row'[t] = row[t] => RowKept(t)
    BY DEF RowKept
  <2> QED
    BY <1>1, <2>3, <2>4 DEF ReportsOf
<1>6. CASE answer = NoJob
  <2>1. PICK ids : ids = {pair[1] : pair \in rows}
    OBVIOUS
  <2>2. AsSet(row', ids, "LOST", sid)
    <3>1. PICK all : all = SetRows(ids, "LOST", sid)
      OBVIOUS
    <3>2. row \in [Transfer -> Row] /\ "LOST" \in RowState /\ sid \in Request \cup {NoJobId}
      BY Types DEF RowState
    <3>3. AsSet(all, ids, "LOST", sid)
      BY ONLY <3>1, <3>2, SetRowsLemma
    <3>4. row' = all
      BY <1>2, <1>6, <2>1, <3>1 DEF PollApplied
    <3> QED
      BY <3>3, <3>4
  <2>3. ASSUME NEW t \in Transfer, CurrentId(t) \in ids, row[t].state # "ARCHIVED"
        PROVE  RowKept(t) \/ (RowEnds(t) /\ row[t].external = sid)
    <3>1. row[t].external = sid /\ sid # NoJobId
      BY <1>4, <2>1, <2>3, CurrentIds
    <3>2. row'[t].n = row[t].n /\ row'[t].state = "LOST" /\ row'[t].external = sid
      BY <2>2, <2>3 DEF AsSet
    <3>3. RowFits(t) /\ ~HasJob(sid)
      BY <1>3, <1>6 DEF RInv
    <3>4. row[t].state \in {"SUBMITTED", "LOST"}
      BY <2>3, <3>1, <3>3 DEF RowFits
    <3> QED
      BY <1>3, <3>1, <3>2, <3>3, <3>4 DEF RowKept, RowEnds
  <2>4. ASSUME NEW t \in Transfer, ~(CurrentId(t) \in ids /\ row[t].state # "ARCHIVED")
        PROVE  RowKept(t)
    BY <2>2, <2>4 DEF AsSet, RowKept
  <2> QED
    BY <1>1, <2>3, <2>4 DEF ReportsOf
<1> QED
  BY <1>1, <1>5, <1>6

LEMMA FinishMoves ==
    ASSUME IInv, NEW p \in DOMAIN setup.paths, Finish(p)
    PROVE  RowsMove /\ poll' = poll
<1> DEFINE ts == {hop.id : hop \in ToSet(Served(p))}
           over == \A t \in ts : row[t].state = "DONE" \/ row[t].n = MaxAttempts
<1>1. /\ setup' = setup /\ post' = post /\ job' = job /\ poll' = poll
      /\ \A t \in ts : row[t].state \in Ended
      /\ row' = [t \in Transfer |->
              CASE t \notin ts -> row[t]
                [] t \in ts /\ over -> [row[t] EXCEPT !.state = "ARCHIVED"]
                [] OTHER -> [row[t] EXCEPT !.state = "QUEUED", !.n = @ + 1,
                                           !.external = NoJobId]]
  BY DEF Finish
<1>. HIDE DEF ts, over
<1>2. ASSUME NEW t \in Transfer
      PROVE  RowKept(t) \/ RowCloses(t)
  <2>1. PICK old \in Row : old = row[t]
    BY Types
  <2>2. CASE t \notin ts
    BY <1>1, <2>2 DEF RowKept
  <2>3. CASE t \in ts /\ over
    <3>1. PICK new : new = [old EXCEPT !.state = "ARCHIVED"]
      OBVIOUS
    <3>2. new.n = old.n /\ new.state = "ARCHIVED" /\ new.external = old.external
      BY <3>1 DEF Row
    <3>3. row'[t] = new /\ row[t].state \in Ended
      BY <1>1, <2>1, <2>3, <3>1
    <3> QED
      BY <2>1, <3>2, <3>3 DEF RowCloses
  <2>4. CASE t \in ts /\ ~over
    <3>1. PICK new : new = [old EXCEPT !.state = "QUEUED", !.n = old.n + 1, !.external = NoJobId]
      OBVIOUS
    <3>2. new.n = old.n + 1 /\ new.state = "QUEUED" /\ new.external = NoJobId
      BY <3>1 DEF Row
    <3>3. row'[t] = new /\ row[t].state \in Ended
      BY <1>1, <2>1, <2>4, <3>1
    <3> QED
      BY <2>1, <3>2, <3>3 DEF RowCloses
  <2> QED
    BY <2>2, <2>3, <2>4
<1> QED
  BY <1>1, <1>2 DEF RowsMove

\* The poller has read what is true, and remembers what it is told.
LEMMA PollRowsKeeps ==
    ASSUME IInv, RInv, NEW sid \in Request, PollRows(sid)
    PROVE  RInv'
<1>1. /\ setup' = setup /\ post' = post /\ job' = job /\ row' = row
      /\ Posted(sid) /\ post[sid].status # "sent"
  BY DEF PollRows, Posted
<1>2. PICK ts : /\ ts = {t \in Transfer : row[t].state = "SUBMITTED" /\ row[t].external = sid}
                /\ ts # {}
                /\ poll' = [poll EXCEPT ![sid] =
                               [rows |-> {<<CurrentId(t), row[t]>> : t \in ts}, asked |-> FALSE,
                                answer |-> NoJob]]
  BY DEF PollRows
<1>3. RowsMove
  BY <1>1, KeptRows
<1>4. /\ OpenWaits' /\ \A t \in Transfer : RowFits(t)'
      /\ Followed' /\ \A s \in Request : poll[s] # NoPoll /\ poll'[s] = poll[s] => PollFits(s)'
  BY <1>3, MovesKeep
<1>5. ASSUME NEW t \in ts
      PROVE  /\ t \in Transfer /\ CurrentId(t)[1] = t /\ CurrentId(t) \in Ids(sid)
             /\ row[t].state = "SUBMITTED" /\ row[t].external = sid /\ ~post[sid].open
  <2>1. t \in Transfer /\ row[t].state = "SUBMITTED" /\ row[t].external = sid
    BY <1>2
  <2>2. sid # NoJobId /\ CurrentId(t)[1] = t
    BY <2>1, CurrentIds
  <2> QED
    BY <2>1, <2>2 DEF RInv, RowFits
<1>6. ~post[sid].open
  BY <1>2, <1>5
<1>7. PICK rows, new : /\ rows = {<<CurrentId(t), row[t]>> : t \in ts}
                       /\ new = [rows |-> rows, asked |-> FALSE, answer |-> NoJob]
  OBVIOUS
<1>8. /\ poll'[sid] = new /\ new.rows = rows /\ ~new.asked
      /\ \A s \in Request : s # sid => poll'[s] = poll[s]
  BY <1>2, <1>7, Types
<1>9. ASSUME NEW pair \in rows
      PROVE  /\ pair[1] \in Ids(sid) /\ pair[2].state = "SUBMITTED" /\ pair[2].external = sid
             /\ row[pair[1][1]].external = sid
  <2>1. PICK t \in ts : pair = <<CurrentId(t), row[t]>>
    BY <1>7
  <2> QED
    BY <1>5, <2>1
<1>10. Ids(sid)' = Ids(sid) /\ Posted(sid)'
  BY <1>1 DEF Ids, Posted
<1>11. PollFits(sid)'
  BY <1>1, <1>6, <1>8, <1>9, <1>10 DEF PollFits
<1> QED
  BY <1>4, <1>8, <1>11 DEF RInv

LEMMA PollJobKeeps ==
    ASSUME IInv, RInv, NEW sid \in Request, PollJob(sid)
    PROVE  RInv'
<1>1. /\ setup' = setup /\ post' = post /\ job' = job /\ row' = row
      /\ poll[sid] # NoPoll
  BY DEF PollJob
<1>2. PICK old \in Poll : old = poll[sid]
  BY <1>1, Types
<1>3. PICK new, j : j = job[sid] /\ new = [old EXCEPT !.asked = TRUE, !.answer = j]
  OBVIOUS
<1>4. new.rows = old.rows /\ new.asked = TRUE /\ new.answer = j
  BY <1>3 DEF Poll
<1>5. /\ poll'[sid] = new /\ \A s \in Request : s # sid => poll'[s] = poll[s]
  BY <1>2, <1>3, Types DEF PollJob
<1>6. RowsMove
  BY <1>1, KeptRows
<1>7. /\ OpenWaits' /\ \A t \in Transfer : RowFits(t)'
      /\ Followed' /\ \A s \in Request : poll[s] # NoPoll /\ poll'[s] = poll[s] => PollFits(s)'
  BY <1>6, MovesKeep
<1>8. PollFits(sid)
  BY <1>1 DEF RInv
<1>9. Ids(sid)' = Ids(sid) /\ (Posted(sid)' <=> Posted(sid)) /\ (HasJob(sid)' <=> HasJob(sid))
  BY <1>1 DEF Ids, Posted, HasJob
<1>10. \A t : CurrentId(t)' = CurrentId(t)
  BY <1>1 DEF CurrentId
<1>11. HasJob(sid) <=> j # NoJob
  BY <1>3 DEF HasJob
<1>12. Older(poll'[sid].answer, job'[sid])
  BY <1>1, <1>3, <1>4, <1>5, OlderSelf
<1>13. Older(poll[sid].answer, job[sid])'
  BY <1>12 DEF Older, JobState, States
<1>14. PollFits(sid)'
  BY <1>1, <1>2, <1>4, <1>5, <1>8, <1>9, <1>10, <1>11, <1>13 DEF PollFits
<1> QED
  BY <1>5, <1>7, <1>14 DEF RInv

LEMMA PollAppliedKeeps ==
    ASSUME IInv, RInv, NEW sid \in Request, PollApplied(sid)
    PROVE  RInv'
<1>1. RowsMove /\ poll' = [poll EXCEPT ![sid] = NoPoll]
  BY PollAppliedMoves, ReportsMove
<1>2. \A s \in Request : poll'[s] # NoPoll => poll[s] # NoPoll /\ poll'[s] = poll[s]
  BY <1>1, Types
<1> QED
  BY <1>1, <1>2, MovesKeep DEF RInv

LEMMA InitRInv ==
    ASSUME Init
    PROVE  RInv
<1>1. /\ post = [r \in Request |-> NoPost] /\ poll = [r \in Request |-> NoPoll]
      /\ row = [t \in Transfer |->
                   [n |-> 1, external |-> NoJobId, overwrite |-> "unset",
                    state |-> IF \E hop \in Hops : hop.id = t THEN "QUEUED" ELSE "ARCHIVED"]]
  BY DEF Init
<1>2. \A s \in Request : ~Posted(s) /\ ~Open(s) /\ poll[s] = NoPoll
  BY <1>1 DEF Posted, Open
<1>3. ASSUME NEW t \in Transfer  PROVE RowFits(t)
  <2>1. PICK state \in {"QUEUED", "ARCHIVED"} :
           row[t] = [n |-> 1, external |-> NoJobId, overwrite |-> "unset", state |-> state]
    BY <1>1
  <2> QED
    BY <2>1 DEF RowFits
<1> QED
  BY <1>2, <1>3 DEF RInv, OpenWaits, Followed

LEMMA NextRInv ==
    ASSUME NoReplicasReceived, IInv, RInv, [Next]_vars
    PROVE  RInv'
<1>1. CASE Submit \/ NoStorageToken
  BY <1>1, SubmitKeeps, NoStorageTokenKeeps
<1>2. CASE \E sid \in Request : SubmitterStep(sid)
  BY <1>2, SubmitterKeeps
<1>3. CASE \E sid \in Request : FtsStep(sid)
  BY <1>3, FtsStepKeeps
<1>4. ASSUME NEW sid \in Request, ReportStep(sid)  PROVE RInv'
  <2>1. CASE \E i \in FileNumbers(sid) : Receive(sid, i)
    <3>1. RowsMove /\ poll' = poll
      BY <2>1, ReceiveMoves, ReportsMove
    <3> QED
      BY <3>1, MovesKeep DEF RInv
  <2>2. CASE PollRows(sid)
    BY <2>2, PollRowsKeeps
  <2>3. CASE PollJob(sid)
    BY <2>3, PollJobKeeps
  <2>4. CASE PollApplied(sid)
    BY <2>4, PollAppliedKeeps
  <2>5. CASE Cancel(sid)
    BY <2>5, CancelKeeps
  <2> QED
    BY <1>4, <2>1, <2>2, <2>3, <2>4, <2>5 DEF ReportStep
<1>5. ASSUME NEW t \in Transfer, ToTape(t)  PROVE RInv'
  BY <1>5, StillKeeps DEF ToTape
<1>6. ASSUME NEW p \in DOMAIN setup.paths, Finish(p)  PROVE RInv'
  <2>1. RowsMove /\ poll' = poll
    BY <1>6, FinishMoves
  <2> QED
    BY <2>1, MovesKeep DEF RInv
<1>7. CASE UNCHANGED vars
  BY <1>7, StillKeeps DEF vars
<1> QED
  BY <1>1, <1>2, <1>3, <1>4, <1>5, <1>6, <1>7 DEF Next, AllDone

\* Who waits for what, whatever the order of answers, messages, polls and failures.
LEMMA SpecRInv ==
    ASSUME NoReplicasReceived
    PROVE  Spec => [](IInv /\ RInv)
<1>1. Init => IInv /\ RInv
  BY InitIInv, InitRInv
<1>2. IInv /\ RInv /\ [Next]_vars => (IInv /\ RInv)'
  BY NextIInv, NextRInv
<1> QED
  BY <1>1, <1>2, PTL DEF Spec

\* A job that may still write a destination is the job of the latest request there, which waits
\* for it, unless Rucio lost sight of the job: no report, late, stale or told twice, and no step
\* of the finisher lets a retry run beside it (fts3.py: submission, messages and polling).
THEOREM FtsLiveJobsAreFollowed ==
    ASSUME NoReplicasReceived
    PROVE  Spec => []LiveJobsAreFollowed
<1>1. ASSUME IInv, RInv  PROVE LiveJobsAreFollowed
  <2> SUFFICES ASSUME NEW sid \in Request, post[sid] # NoPost, ~post[sid].adrift,
                      NEW file \in LiveFiles(sid)
               PROVE  Waits(sid, file.id)
    BY DEF LiveJobsAreFollowed, Waits
  <2>1. HasJob(sid) /\ file \in ToSet(job[sid].files)
    BY DEF LiveFiles, HasJob
  <2>2. file.id \in Ids(sid)
    BY <1>1, <2>1, FilesOfJob DEF ToSet
  <2>3. Undecided(sid, file.id) /\ Posted(sid)
    BY DEF Undecided, Posted
  <2> QED
    BY <1>1, <2>2, <2>3 DEF RInv, Followed
<1> QED
  BY <1>1, SpecRInv, PTL

--------------------------------------------------------------------------------
(* The steps of requests are those of RequestLifecycle.                    *)

\* A row of which the lifecycle shows nothing new.
RowSeen(t) == row'[t].n = row[t].n /\ PhaseOf(row'[t].state) = PhaseOf(row[t].state)

\* What the lifecycle sees of some rows that move together, while the others stay.
RowsGo(ts, from, to) ==
    /\ ts \subseteq Transfer
    /\ \A t \in ts : row[t].state \in from /\ row'[t].state \in to
    /\ \A t \in Transfer \ ts : RowSeen(t)

Counted(ts) == \A t \in ts : row'[t].n = row[t].n

LEMMA SeenIsStutter ==
    ASSUME \A t \in Transfer : RowSeen(t)
    PROVE  UNCHANGED Lifecycle!lifecycleVars
BY DEF RowSeen, PhaseOf, Lifecycle!lifecycleVars

LEMMA GoesGive ==
    ASSUME NEW ts, RowsGo(ts, {"QUEUED"}, {"SUBMITTING"}), Counted(ts)
    PROVE  Lifecycle!LifecycleNext
<1>1. Lifecycle!Give(ts)
  BY DEF RowsGo, RowSeen, Counted, PhaseOf, Lifecycle!Give, Lifecycle!Move
<1> QED
  BY <1>1 DEF RowsGo, Lifecycle!LifecycleNext

LEMMA GoesLose ==
    ASSUME NEW ts, RowsGo(ts, {"QUEUED", "SUBMITTING", "SUBMITTED"}, {"SUBMISSION_FAILED", "LOST"}),
           Counted(ts)
    PROVE  Lifecycle!LifecycleNext
<1>1. Lifecycle!Lose(ts)
  BY DEF RowsGo, RowSeen, Counted, PhaseOf, Lifecycle!Lose, Lifecycle!Move
<1> QED
  BY <1>1 DEF RowsGo, Lifecycle!LifecycleNext

LEMMA GoesSettle ==
    ASSUME NEW ts, RowsGo(ts, {"SUBMITTED"}, {"DONE", "FAILED"}), Counted(ts)
    PROVE  Lifecycle!LifecycleNext
<1>1. Lifecycle!Settle(ts)
  BY DEF RowsGo, RowSeen, Counted, PhaseOf, Lifecycle!Settle, Lifecycle!Move
<1> QED
  BY <1>1 DEF RowsGo, Lifecycle!LifecycleNext

LEMMA GoesClose ==
    ASSUME NEW ts, RowsGo(ts, Ended, {"ARCHIVED"}), Counted(ts)
    PROVE  Lifecycle!LifecycleNext
<1>1. Lifecycle!CloseAll(ts)
  BY DEF RowsGo, RowSeen, Counted, Ended, PhaseOf, Lifecycle!CloseAll, Lifecycle!Move
<1> QED
  BY <1>1 DEF RowsGo, Lifecycle!LifecycleNext

LEMMA GoesAgain ==
    ASSUME NEW ts, RowsGo(ts, Ended, {"QUEUED"}),
           \E t \in ts : row[t].state # "DONE",
           \A t \in ts : row[t].n < MaxAttempts /\ row'[t].n = row[t].n + 1
    PROVE  Lifecycle!LifecycleNext
<1>1. Lifecycle!Move(ts, {"lost", "failed", "done"}, {"waiting"})
  BY DEF RowsGo, RowSeen, Ended, PhaseOf, Lifecycle!Move
<1>2. \E t \in ts : PhaseOf(row[t].state) # "done"
  BY DEF RowsGo, Ended, PhaseOf
<1>3. Lifecycle!TryAgain(ts)
  BY <1>1, <1>2 DEF RowsGo, RowSeen, Lifecycle!TryAgain
<1> QED
  BY <1>3 DEF RowsGo, Lifecycle!LifecycleNext

\* The submitter gives its requests to FTS, or gives them up.
LEMMA SubmitImplements ==
    ASSUME IInv, Submit \/ NoStorageToken
    PROVE  Lifecycle!LifecycleNext
<1>1. ASSUME NEW state \in {"SUBMITTING", "SUBMISSION_FAILED"}, NEW ids, TakesQueued(state, ids)
      PROVE  Lifecycle!LifecycleNext
  <2>1. PICK ts : ts = {t \in Transfer : CurrentId(t) \in ids}
    OBVIOUS
  <2>2. RowsGo(ts, {"QUEUED"}, {state}) /\ Counted(ts)
    BY <1>1, <2>1 DEF TakesQueued, RowsGo, RowSeen, Counted
  <2>3. CASE state = "SUBMITTING"
    BY <2>2, <2>3, GoesGive
  <2>4. CASE state = "SUBMISSION_FAILED"
    <3>1. RowsGo(ts, {"QUEUED", "SUBMITTING", "SUBMITTED"}, {"SUBMISSION_FAILED", "LOST"})
      BY <2>2, <2>4 DEF RowsGo
    <3> QED
      BY <2>2, <3>1, GoesLose
  <2> QED
    BY <2>3, <2>4
<1>2. CASE Submit
  <2>1. PICK sid \in Request : \E sub, new : Sends(sid, sub, new)
    BY <1>2, SubmitSends
  <2>2. PICK sub, new : Sends(sid, sub, new)
    BY <2>1
  <2>3. TakesQueued("SUBMITTING", new)
    BY <2>2, SubmitTakes
  <2> QED
    BY <1>1, <2>3
<1>3. CASE NoStorageToken
  BY <1>1, <1>3, NoStorageTokenTakes
<1> QED
  BY <1>2, <1>3

\* An answer, or the lack of one.
LEMMA SubmitterImplements ==
    ASSUME IInv, RInv, NEW sid \in Request, SubmitterStep(sid)
    PROVE  Lifecycle!LifecycleNext \/ UNCHANGED Lifecycle!lifecycleVars
<1>1. PICK state \in {"SUBMITTED", "SUBMISSION_FAILED", "LOST"} : Closes(sid, state)
  BY SubmitterCloses
<1>2. PICK external : external = IF state = "SUBMITTED" THEN sid ELSE NoJobId
  OBVIOUS
<1>3. PICK ids : ids = Ids(sid)
  OBVIOUS
<1>4. AsSet(row', ids, state, external)
  BY <1>1, <1>2, <1>3 DEF Closes
<1>5. \A t \in Transfer : CurrentId(t) \in ids => row[t].state = "SUBMITTING"
  BY <1>3, SubmitterCloses, OpenRows
<1>6. PICK ts : ts = {t \in Transfer : CurrentId(t) \in ids}
  OBVIOUS
<1>7. RowsGo(ts, {"SUBMITTING"}, {state}) /\ Counted(ts)
  BY <1>4, <1>5, <1>6 DEF AsSet, RowsGo, RowSeen, Counted
<1>8. CASE state = "SUBMITTED"
  <2>1. \A t \in Transfer : RowSeen(t)
    BY <1>7, <1>8 DEF RowsGo, RowSeen, Counted, PhaseOf
  <2> QED
    BY <2>1, SeenIsStutter
<1>9. CASE state # "SUBMITTED"
  <2>1. RowsGo(ts, {"QUEUED", "SUBMITTING", "SUBMITTED"}, {"SUBMISSION_FAILED", "LOST"})
    BY <1>7, <1>9 DEF RowsGo
  <2> QED
    BY <1>7, <2>1, GoesLose
<1> QED
  BY <1>8, <1>9

\* Reports end requests that wait, or say what is known: all of them that FTS has lost the job,
\* or each what its files came to.
LEMMA ReportsImplement ==
    ASSUME NEW sid, ReportsOf(sid)
    PROVE  Lifecycle!LifecycleNext
<1>1. PICK ts : ts = {t \in Transfer : ~RowKept(t)}
  OBVIOUS
<1>2. \A t \in Transfer : RowKept(t) \/ (RowEnds(t) /\ row[t].external = sid)
  BY DEF ReportsOf
<1>3. Counted(ts) /\ ts \subseteq Transfer /\ \A t \in Transfer \ ts : RowSeen(t)
  BY <1>1, <1>2 DEF Counted, RowEnds, RowKept, RowSeen
<1>4. CASE HasJob(sid)
  <2>1. RowsGo(ts, {"SUBMITTED"}, {"DONE", "FAILED"})
    BY <1>1, <1>2, <1>3, <1>4 DEF RowsGo, RowEnds
  <2> QED
    BY <1>3, <2>1, GoesSettle
<1>5. CASE ~HasJob(sid)
  <2>1. RowsGo(ts, {"QUEUED", "SUBMITTING", "SUBMITTED"}, {"SUBMISSION_FAILED", "LOST"})
    BY <1>1, <1>2, <1>3, <1>5 DEF RowsGo, RowEnds
  <2> QED
    BY <1>3, <2>1, GoesLose
<1> QED
  BY <1>4, <1>5

\* The finisher closes the requests of a path, or queues all of them once more.
LEMMA FinishImplements ==
    ASSUME IInv, NEW p \in DOMAIN setup.paths, Finish(p)
    PROVE  Lifecycle!LifecycleNext
<1> DEFINE ts == {hop.id : hop \in ToSet(Served(p))}
           over == \A t \in ts : row[t].state = "DONE" \/ row[t].n = MaxAttempts
<1>1. /\ \A t \in ts : row[t].state \in Ended
      /\ row' = [t \in Transfer |->
              CASE t \notin ts -> row[t]
                [] t \in ts /\ over -> [row[t] EXCEPT !.state = "ARCHIVED"]
                [] OTHER -> [row[t] EXCEPT !.state = "QUEUED", !.n = @ + 1,
                                           !.external = NoJobId]]
  BY DEF Finish
<1>2. ts \subseteq Transfer
  BY ServedLemma, Types DEF Hop, ToSet
<1>3. \A t, u \in ts : row[t].n = row[u].n
  BY DEF IInv, PathsInStep, ToSet
<1>4. ~over <=> \E t \in ts : row[t].state # "DONE" /\ row[t].n # MaxAttempts
  OBVIOUS
<1>. HIDE DEF ts, over
<1>5. \A t \in Transfer \ ts : RowSeen(t)
  BY <1>1 DEF RowSeen
<1>6. CASE over
  <2>1. ASSUME NEW t \in ts  PROVE row'[t].state = "ARCHIVED" /\ row'[t].n = row[t].n
    <3>1. PICK old \in Row : old = row[t]
      BY <1>2, Types
    <3>2. row'[t] = [old EXCEPT !.state = "ARCHIVED"]
      BY <1>1, <1>2, <1>6, <3>1
    <3> QED
      BY <3>1, <3>2 DEF Row
  <2>2. RowsGo(ts, Ended, {"ARCHIVED"}) /\ Counted(ts)
    BY <1>1, <1>2, <1>5, <2>1 DEF RowsGo, Counted
  <2> QED
    BY <2>2, GoesClose
<1>7. CASE ~over
  <2>1. ASSUME NEW t \in ts
        PROVE  row'[t].state = "QUEUED" /\ row'[t].n = row[t].n + 1 /\ row[t].n < MaxAttempts
    <3>1. PICK old \in Row : old = row[t]
      BY <1>2, Types
    <3>2. old.n \in 1..MaxAttempts /\ MaxAttempts \in Nat /\ old.n # MaxAttempts
      BY <1>3, <1>4, <1>7, <3>1, BoundAssumption DEF Row
    <3>3. row'[t] = [old EXCEPT !.state = "QUEUED", !.n = old.n + 1, !.external = NoJobId]
      BY <1>1, <1>2, <1>7, <3>1
    <3> QED
      BY <3>1, <3>2, <3>3 DEF Row
  <2>2. RowsGo(ts, Ended, {"QUEUED"})
    BY <1>1, <1>2, <1>5, <2>1 DEF RowsGo
  <2> QED
    BY <1>4, <1>7, <2>1, <2>2, GoesAgain
<1> QED
  BY <1>6, <1>7

\* What neither the submitter nor a report or the finisher does, the requests do not show.
LEMMA StepImplements ==
    ASSUME NoReplicasReceived, IInv, RInv, [Next]_vars
    PROVE  Lifecycle!LifecycleNext \/ UNCHANGED Lifecycle!lifecycleVars
<1>1. ASSUME row' = row  PROVE UNCHANGED Lifecycle!lifecycleVars
  BY <1>1, SeenIsStutter DEF RowSeen
<1>2. CASE Submit \/ NoStorageToken
  BY <1>2, SubmitImplements
<1>3. CASE \E sid \in Request : SubmitterStep(sid)
  BY <1>3, SubmitterImplements
<1>4. CASE \E sid \in Request : FtsStep(sid)
  <2>1. row' = row
    BY <1>4 DEF FtsStep, Arrive, CopyFile, CopyFails, ArchivingEnds
  <2> QED
    BY <1>1, <2>1
<1>5. ASSUME NEW sid \in Request, ReportStep(sid)
      PROVE  Lifecycle!LifecycleNext \/ UNCHANGED Lifecycle!lifecycleVars
  <2>1. CASE \E i \in FileNumbers(sid) : Receive(sid, i)
    BY <2>1, ReceiveMoves, ReportsImplement
  <2>2. CASE PollApplied(sid)
    BY <2>2, PollAppliedMoves, ReportsImplement
  <2>3. CASE PollRows(sid) \/ PollJob(sid) \/ Cancel(sid)
    BY <1>1, <2>3 DEF PollRows, PollJob, Cancel
  <2> QED
    BY <1>5, <2>1, <2>2, <2>3 DEF ReportStep
<1>6. CASE \E t \in Transfer : ToTape(t)
  BY <1>1, <1>6 DEF ToTape
<1>7. CASE \E p \in DOMAIN setup.paths : Finish(p)
  BY <1>7, FinishImplements
<1>8. CASE UNCHANGED vars
  BY <1>1, <1>8 DEF vars
<1> QED
  BY <1>2, <1>3, <1>4, <1>5, <1>6, <1>7, <1>8 DEF Next, AllDone

\* Rucio's requests, FTS and the storages implement the lifecycle of a request: a result that
\* was told is never taken back, nothing lost ends after all, and another attempt needs one that
\* did not succeed, whatever is late, stale, lost or told twice (fts3.py: submit, bulk_query,
\* the receiver's messages).
THEOREM FtsImplementsLifecycle ==
    ASSUME NoReplicasReceived
    PROVE  Spec => ImplementsLifecycle
<1>1. Init => Lifecycle!LifecycleInit
  <2> SUFFICES ASSUME Init  PROVE Lifecycle!LifecycleInit
    OBVIOUS
  <2>1. \A t \in Transfer : row[t].n = 1 /\ row[t].state \in {"QUEUED", "ARCHIVED"}
    BY DEF Init
  <2> QED
    BY <2>1 DEF Lifecycle!LifecycleInit, PhaseOf
<1>2. IInv /\ RInv /\ [Next]_vars => [Lifecycle!LifecycleNext]_Lifecycle!lifecycleVars
  BY StepImplements
<1> QED
  BY <1>1, <1>2, SpecRInv, PTL DEF Spec, ImplementsLifecycle, Lifecycle!LifecycleSpec

--------------------------------------------------------------------------------
(* What lies at the destinations.                                          *)

\* A job Rucio lost may write there.
Drifting(t) ==
    \E sid \in Request : /\ Posted(sid) /\ post[sid].adrift
                         /\ t \in {id[1] : id \in Ids(sid)}

\* What a file of a job came to is what lies at its destination.
FileThere(j, i, copy) ==
    LET file == j.files[i]
    IN /\ file.state \in {"ARCHIVING", "FINISHED"} => copy.content = "good"
       /\ file.state = "FINISHED" /\ j.archive /\ (j.type = "H" => i = Len(j.files)) => copy.onTape
       /\ file.state = "FAILED" /\ file.found \in {"on_tape", "on_disk"} =>
             /\ copy.content = "good"
             /\ file.found = "on_tape" => copy.onTape
             /\ ~MayOverwrite(j, i, copy)

\* It stays so for the latest request: no other job, and no other replica, writes there.
FilesThere ==
    \A sid \in Request : HasJob(sid) =>
        \A i \in DOMAIN job[sid].files :
            LET id == job[sid].files[i].id
            IN id = CurrentId(id[1]) /\ ~Drifting(id[1]) => FileThere(job[sid], i, dest[id[1]])

\* What is adrift stays adrift.
DriftGrows == \A t \in Transfer : Drifting(t) => Drifting(t)'

LEMMA DriftStays ==
    ASSUME \A s \in Request : Posted(s) => /\ Posted(s)' /\ post'[s].sub = post[s].sub
                                           /\ post[s].adrift => post'[s].adrift
    PROVE  DriftGrows
<1> SUFFICES ASSUME NEW t \in Transfer, Drifting(t)  PROVE Drifting(t)'
  BY DEF DriftGrows
<1>1. PICK s \in Request : Posted(s) /\ post[s].adrift /\ t \in {id[1] : id \in Ids(s)}
  BY DEF Drifting
<1>2. Posted(s)' /\ post'[s].adrift /\ Ids(s)' = Ids(s)
  BY <1>1 DEF Ids
<1> QED
  BY <1>1, <1>2 DEF Drifting

\* An id that is the latest after a step was so before, if a job has it.
LEMMA CurrentBefore ==
    ASSUME IInv, \A t \in Transfer : row'[t].n \in {row[t].n, row[t].n + 1},
           NEW s \in Request, HasJob(s), NEW i \in DOMAIN job[s].files, NEW id,
           id = job[s].files[i].id, id = CurrentId(id[1])'
    PROVE  id[1] \in Transfer /\ id = CurrentId(id[1])
<1>1. Posted(s) /\ id \in Ids(s)
  BY FilesOfJob
<1>2. id[1] \in Transfer /\ id[2] \in Nat /\ id[2] <= row[id[1]].n
  BY <1>1, IdsLemma
<1>3. row[id[1]].n \in Nat
  BY <1>2, CurrentIds
<1>4. id[2] = row'[id[1]].n
  BY DEF CurrentId
<1>5. row'[id[1]].n = row[id[1]].n
  <2>1. row'[id[1]].n \in {row[id[1]].n, row[id[1]].n + 1}
    BY <1>2
  <2> QED
    BY ONLY <1>2, <1>3, <1>4, <2>1
<1> QED
  BY <1>2, <1>5 DEF CurrentId

\* The same file, with as much at its destination.
Rests(a, b, k, old, new) ==
    /\ SameJob(a, b) /\ k \in DOMAIN a.files /\ b.files[k] = a.files[k]
    /\ old \in Copy /\ new \in Copy /\ new.content = old.content
    /\ old.onTape => new.onTape

LEMMA ThereStays ==
    ASSUME NEW a, NEW b, NEW k, NEW old, NEW new, Rests(a, b, k, old, new), FileThere(a, k, old)
    PROVE  FileThere(b, k, new)
<1>1. MayOverwrite(b, k, new) => MayOverwrite(a, k, old)
  BY DEF Rests, SameJob, MayOverwrite
<1> QED
  BY <1>1 DEF Rests, SameJob, FileThere

\* Steps that write no destination, but for a copy that gets to tape.
LEMMA QuietThere ==
    ASSUME IInv, FilesThere, DriftGrows,
           \A t \in Transfer : row'[t].n \in {row[t].n, row[t].n + 1},
           \A t \in Transfer : /\ dest'[t] \in Copy /\ dest'[t].content = dest[t].content
                               /\ dest[t].onTape => dest'[t].onTape,
           \A s \in Request : HasJob(s)' =>
               \/ /\ HasJob(s) /\ SameJob(job[s], job'[s])
                  /\ \A k \in DOMAIN job[s].files : job'[s].files[k].state = "CANCELED"
                                                    \/ job'[s].files[k] = job[s].files[k]
               \/ \A k \in DOMAIN job'[s].files :
                     job'[s].files[k].state \in {"SUBMITTED", "STAGING", "NOT_USED"}
    PROVE  FilesThere'
<1> SUFFICES ASSUME NEW s \in Request, HasJob(s)', NEW k \in DOMAIN job'[s].files, NEW id,
                    id = job'[s].files[k].id, id = CurrentId(id[1])', ~Drifting(id[1])'
             PROVE  FileThere(job'[s], k, dest'[id[1]])
  BY DEF FilesThere, FileThere, MayOverwrite
<1>1. CASE job'[s].files[k].state \in {"SUBMITTED", "STAGING", "NOT_USED", "CANCELED"}
  BY <1>1 DEF FileThere
<1>2. CASE job'[s].files[k].state \notin {"SUBMITTED", "STAGING", "NOT_USED", "CANCELED"}
  <2>1. HasJob(s) /\ SameJob(job[s], job'[s])
    BY <1>2
  <2>2. PICK a, b : a = job[s] /\ b = job'[s]
    OBVIOUS
  <2>3. k \in DOMAIN a.files /\ b.files[k] = a.files[k]
    BY <1>2, <2>1, <2>2 DEF SameJob
  <2>4. id[1] \in Transfer /\ id = CurrentId(id[1])
    BY <2>1, <2>2, <2>3, CurrentBefore
  <2>5. ~Drifting(id[1])
    BY <2>4 DEF DriftGrows
  <2>6. FileThere(a, k, dest[id[1]])
    BY <2>1, <2>2, <2>3, <2>4, <2>5 DEF FilesThere
  <2>7. dest[id[1]] \in Copy
    BY <2>4, Types
  <2>8. PICK old, new : old = dest[id[1]] /\ new = dest'[id[1]]
    OBVIOUS
  <2>9. /\ old \in Copy /\ new \in Copy /\ new.content = old.content
        /\ old.onTape => new.onTape
    BY <2>4, <2>7, <2>8
  <2>10. Rests(a, b, k, old, new)
    BY <2>1, <2>2, <2>3, <2>9 DEF Rests
  <2>11. FileThere(b, k, new)
    BY ONLY <2>6, <2>8, <2>10, ThereStays
  <2> QED
    BY <2>2, <2>8, <2>11
<1> QED
  BY <1>1, <1>2

\* A file in work is of the latest request for its destination, and of no other job.
LEMMA OneWriter ==
    ASSUME IInv, RInv, NEW sid \in Request, NEW i, InState(sid, i, Active),
           NEW t, t = Target(sid, i), ~Drifting(t)
    PROVE  /\ job[sid].files[i].id = CurrentId(t)
           /\ \A s \in Request : HasJob(s) =>
                 \A k \in DOMAIN job[s].files : job[s].files[k].id = CurrentId(t) =>
                     s = sid /\ (k = i \/ job[s].type = "R")
<1>1. PICK j : j = job[sid]
  OBVIOUS
<1>2. HasJob(sid) /\ i \in DOMAIN j.files /\ j.files[i].state \in Active /\ t = j.files[i].id[1]
  BY <1>1 DEF InState, HasJob, Target
<1>3. PICK id : id = j.files[i].id
  OBVIOUS
<1>4. Posted(sid) /\ id \in Ids(sid) /\ DistinctIds(j)
  BY <1>1, <1>2, <1>3, FilesOfJob
<1>5. ~post[sid].adrift
  BY <1>2, <1>3, <1>4 DEF Drifting
<1>6. Undecided(sid, id)
  <2>1. JobState(j) \notin FinalJob
    BY <1>2, NotFinal
  <2>2. j.files[i] \in LiveFiles(sid)
    BY <1>1, <1>2, <2>1 DEF LiveFiles, HasJob, ToSet
  <2> QED
    BY <1>3, <2>2 DEF Undecided
<1>7. id = CurrentId(t)
  BY <1>2, <1>3, <1>4, <1>5, <1>6 DEF RInv, Followed, Waits
<1>8. ASSUME NEW s \in Request, HasJob(s), NEW k \in DOMAIN job[s].files,
             job[s].files[k].id = CurrentId(t)
      PROVE  s = sid /\ (k = i \/ job[s].type = "R")
  <2>1. Posted(s) /\ id \in Ids(s)
    BY <1>7, <1>8, FilesOfJob
  <2>2. s = sid
    BY <1>4, <2>1, IdsLemma
  <2>3. j.multi \/ k = i
    BY <1>1, <1>2, <1>3, <1>4, <1>7, <1>8, <2>2 DEF DistinctIds
  <2>4. j.multi <=> j.type = "R"
    BY <1>1, <1>2 DEF IInv, JobOK
  <2> QED
    BY <1>1, <2>2, <2>3, <2>4
<1> QED
  BY <1>1, <1>3, <1>7, <1>8

\* The job after one of its files has ended.
FileEnds(a, b, sid, i, state, found) ==
    /\ SameJob(a, b) /\ job' = [job EXCEPT ![sid] = b]
    /\ b.files[i].state = state /\ b.files[i].found = found
    /\ \A k \in DOMAIN a.files : k # i =>
          b.files[k] = a.files[k] \/ b.files[k].state = "SUBMITTED"

LEMMA EndFileJob ==
    ASSUME IInv, NEW sid \in Request, NEW i, InState(sid, i, Active), NEW a, a = job[sid],
           NEW state \in {"ARCHIVING", "FINISHED", "FAILED"},
           NEW found \in {"nothing", "on_tape", "on_disk", "corrupted"},
           EndFile(sid, i, state, found)
    PROVE  \E b : FileEnds(a, b, sid, i, state, found)
<1>1. i \in DOMAIN a.files /\ a.files[i].state \in Active /\ a \in Job /\ FilesInTurn(a)
  BY DEF InState, IInv, HasJob, JobOK
<1>2. PICK files \in FilesAfter(a, i, state, found) : job' = [job EXCEPT ![sid].files = files]
  BY DEF EndFile
<1>3. PICK b : b = [a EXCEPT !.files = files]
  OBVIOUS
<1>4. /\ SameJob(a, b) /\ b.files = files
      /\ files[i].state = state /\ files[i].found = found
      /\ \A k \in DOMAIN a.files : k # i =>
            \/ files[k] = a.files[k]
            \/ a.files[k].state = "NOT_USED" /\ files[k].state = "SUBMITTED"
  BY <1>1, <1>2, <1>3, EndFileLemma
<1>5. job' = [job EXCEPT ![sid] = b]
  BY <1>2, <1>3
<1>6. /\ b.files[i].state = state /\ b.files[i].found = found
      /\ \A k \in DOMAIN a.files : k # i =>
            b.files[k] = a.files[k] \/ b.files[k].state = "SUBMITTED"
  BY <1>4
<1>7. FileEnds(a, b, sid, i, state, found)
  BY <1>4, <1>5, <1>6 DEF FileEnds
<1> QED
  BY <1>7

\* FTS is done with a file, and may have written its destination: what it says of the file is
\* what lies there, and the other files of the request say nothing of it any more.
LEMMA WriteThere ==
    ASSUME IInv, RInv, FilesThere, NEW sid \in Request, NEW i, InState(sid, i, Active),
           NEW state \in {"ARCHIVING", "FINISHED", "FAILED"},
           NEW found \in {"nothing", "on_tape", "on_disk", "corrupted"},
           EndFile(sid, i, state, found),
           setup' = setup, row' = row, post' = post,
           NEW t, t = Target(sid, i), \A u \in Transfer \ {t} : dest'[u] = dest[u],
           \/ dest'[t] = dest[t]
           \/ dest[t].content = "none"
           \/ MayOverwrite(job[sid], i, dest[t]),
           NEW new \in Copy, new = dest'[t],
           FileThere(job[sid], i, dest[t]) /\ state \in {"ARCHIVING", "FINISHED"}
               => new.content = "good",
           state = "FINISHED" /\ Archives(sid, i) => new.onTape,
           state = "FAILED" /\ found \in {"on_tape", "on_disk"} =>
               /\ new.content = "good"
               /\ found = "on_tape" => new.onTape
               /\ ~MayOverwrite(job[sid], i, new)
    PROVE  FilesThere'
<1>1. PICK a : a = job[sid]
  OBVIOUS
<1>2. HasJob(sid) /\ i \in DOMAIN a.files /\ a.files[i].state \in Active /\ t = a.files[i].id[1]
  BY <1>1 DEF InState, HasJob, Target
<1>3. a \in Job /\ FilesInTurn(a) /\ (a.flag \in {"M", "Q"} => a.type = "H")
  BY <1>1, <1>2 DEF IInv, JobOK
<1>4. PICK b : FileEnds(a, b, sid, i, state, found)
  <2>1. /\ IInv /\ sid \in Request /\ InState(sid, i, Active) /\ EndFile(sid, i, state, found)
        /\ state \in {"ARCHIVING", "FINISHED", "FAILED"}
        /\ found \in {"nothing", "on_tape", "on_disk", "corrupted"}
    OBVIOUS
  <2> QED
    BY ONLY <1>1, <2>1, EndFileJob
<1>5. PICK files : files = b.files
  OBVIOUS
<1>6. /\ SameJob(a, b) /\ b.files = files
      /\ files[i].state = state /\ files[i].found = found
      /\ \A k \in DOMAIN a.files : k # i =>
            files[k] = a.files[k] \/ files[k].state = "SUBMITTED"
  BY <1>4, <1>5 DEF FileEnds
<1>7. job' = [job EXCEPT ![sid] = b]
  BY <1>4 DEF FileEnds
<1>8. /\ job'[sid] = b /\ DOMAIN b.files = DOMAIN a.files
      /\ \A s \in Request \ {sid} : job'[s] = job[s]
  BY <1>6, <1>7, Types DEF SameJob
<1>9. \A u : (Drifting(u)' <=> Drifting(u)) /\ CurrentId(u)' = CurrentId(u)
  BY DEF Drifting, Posted, Ids, CurrentId
<1>10. t \in Transfer /\ dest[t] \in Copy
  BY <1>1, <1>2, TargetLemma
<1>11. ASSUME NEW s \in Request, HasJob(s), NEW k \in DOMAIN job[s].files, NEW id,
              id = job[s].files[k].id, id = CurrentId(id[1]), ~Drifting(id[1])
       PROVE  FileThere(job'[s], k, dest'[id[1]])
  <2>1. FileThere(job[s], k, dest[id[1]])
    BY <1>11 DEF FilesThere
  <2>2. id[1] \in Transfer /\ dest[id[1]] \in Copy
    BY <1>11, TargetLemma DEF Target
  <2>3. job[s] \in Job
    BY <1>11 DEF IInv, JobOK
  <2>4. CASE id[1] # t
    <3>1. dest'[id[1]] = dest[id[1]]
      BY <2>2, <2>4
    <3>2. CASE s # sid
      BY <1>8, <2>1, <3>1, <3>2
    <3>3. CASE s = sid
      <4>1. k # i
        BY <1>1, <1>2, <1>11, <2>4, <3>3
      <4>2. files[k] = a.files[k] \/ files[k].state = "SUBMITTED"
        BY <1>1, <1>6, <1>11, <3>3, <4>1
      <4>3. CASE files[k].state = "SUBMITTED"
        BY <1>6, <1>8, <3>3, <4>3 DEF FileThere
      <4>4. CASE files[k] = a.files[k]
        <5>1. PICK copy \in Copy : copy = dest[id[1]]
          BY <2>2
        <5>2. Rests(a, b, k, copy, copy) /\ FileThere(a, k, copy)
          BY <1>1, <1>6, <1>11, <2>1, <3>3, <4>4, <5>1 DEF Rests
        <5>3. FileThere(b, k, copy)
          BY ONLY <5>2, ThereStays
        <5> QED
          BY <1>8, <3>1, <3>3, <5>1, <5>3
      <4> QED
        BY <4>2, <4>3, <4>4
    <3> QED
      BY <3>2, <3>3
  <2>5. CASE id[1] = t
    <3>1. a.files[i].id = id /\ s = sid /\ (k = i \/ a.type = "R")
      BY <1>1, <1>11, <2>5, OneWriter
    <3>2. CASE k = i
      <4>1. MayOverwrite(b, i, new) => MayOverwrite(a, i, new)
        BY <1>6 DEF SameJob, MayOverwrite
      <4>2. state \in {"ARCHIVING", "FINISHED"} => new.content = "good"
        BY <2>1, <2>5, <3>1, <3>2
      <4>3. Archives(sid, i) <=> b.archive /\ (b.type = "H" => i = Len(b.files))
        BY <1>1, <1>6 DEF Archives, SameJob
      <4>4. FileThere(b, i, new)
        BY <1>1, <1>6, <4>1, <4>2, <4>3 DEF FileThere
      <4> QED
        BY <1>8, <2>5, <3>1, <3>2, <4>4
    <3>3. CASE k # i
      <4>1. k \in DOMAIN a.files /\ (files[k] = a.files[k] \/ files[k].state = "SUBMITTED")
        BY <1>1, <1>6, <1>11, <3>1, <3>3
      <4>2. CASE files[k].state = "SUBMITTED"
        BY <1>6, <1>8, <3>1, <4>2 DEF FileThere
      <4>3. CASE files[k] = a.files[k]
        <5>1. a.files[k].state \notin Active \cup {"FINISHED"}
          BY <1>2, <1>3, <3>1, <3>3, <4>1 DEF FilesInTurn
        <5>2. CASE a.files[k].state = "FAILED" /\ a.files[k].found \in {"on_tape", "on_disk"}
          <6>1. dest[t].content = "good" /\ ~MayOverwrite(a, k, dest[t])
            BY <1>1, <2>1, <2>5, <3>1, <5>2 DEF FileThere
          <6>2. ~MayOverwrite(a, i, dest[t])
            BY <1>3, <3>1, <3>3, <6>1 DEF MayOverwrite
          <6>3. dest'[t] = dest[t]
            BY <1>1, <6>1, <6>2
          <6>4. PICK copy \in Copy : copy = dest[t]
            BY <1>10
          <6>5. Rests(a, b, k, copy, copy) /\ FileThere(a, k, copy)
            BY <1>1, <1>6, <2>1, <2>5, <3>1, <4>1, <4>3, <6>4 DEF Rests
          <6>6. FileThere(b, k, copy)
            BY ONLY <6>5, ThereStays
          <6> QED
            BY <1>8, <2>5, <3>1, <6>3, <6>4, <6>6
        <5>3. CASE ~(a.files[k].state = "FAILED" /\ a.files[k].found \in {"on_tape", "on_disk"})
          <6>1. FileThere(b, k, new)
            BY <1>6, <4>3, <5>1, <5>3 DEF FileThere, Active
          <6> QED
            BY <1>8, <2>5, <3>1, <6>1
        <5> QED
          BY <5>2, <5>3
      <4> QED
        BY <4>1, <4>2, <4>3
    <3> QED
      BY <3>2, <3>3
  <2> QED
    BY <2>4, <2>5
<1>12. ASSUME NEW s \in Request, HasJob(s)', NEW k \in DOMAIN job'[s].files
       PROVE  HasJob(s) /\ k \in DOMAIN job[s].files /\ job'[s].files[k].id = job[s].files[k].id
  <2>1. CASE s = sid
    BY <1>1, <1>2, <1>6, <1>8, <2>1 DEF SameJob
  <2>2. CASE s # sid
    <3>1. job'[s] = job[s]
      BY <1>8, <2>2
    <3> QED
      BY <1>12, <3>1 DEF HasJob
  <2> QED
    BY <2>1, <2>2
<1>13. ASSUME NEW s \in Request, HasJob(s)', NEW k \in DOMAIN job'[s].files, NEW id,
              id = job'[s].files[k].id, id = CurrentId(id[1])', ~Drifting(id[1])'
       PROVE  FileThere(job'[s], k, dest'[id[1]])
  <2>1. HasJob(s) /\ k \in DOMAIN job[s].files /\ id = job[s].files[k].id
    BY <1>12, <1>13
  <2>2. id = CurrentId(id[1])
    BY <1>9, <1>13
  <2>3. ~Drifting(id[1])
    BY <1>9, <1>13
  <2> QED
    BY <1>11, <2>1, <2>2, <2>3
<1> QED
  BY <1>13 DEF FilesThere, FileThere, MayOverwrite

LEMMA CopyFileThere ==
    ASSUME IInv, RInv, FilesThere, NEW sid \in Request, NEW i, CopyFile(sid, i)
    PROVE  FilesThere'
<1>1. /\ setup' = setup /\ row' = row /\ post' = post /\ poll' = poll
      /\ InState(sid, i, Active) /\ HasJob(sid) /\ i \in DOMAIN job[sid].files
  BY DEF CopyFile, InState, Active, HasJob
<1>2. PICK t \in Transfer : t = Target(sid, i) /\ dest[t] \in Copy
  BY <1>1, TargetLemma
<1>3. CASE dest[t].content = "none" \/ MayOverwrite(job[sid], i, dest[t])
  <2>1. PICK new : new = [content |-> "good", onTape |-> FALSE]
    OBVIOUS
  <2>2. new \in Copy /\ new.content = "good"
    BY <2>1 DEF Copy
  <2>3. dest' = [dest EXCEPT ![t] = new]
    BY <1>2, <1>3, <2>1 DEF CopyFile
  <2>4. dest'[t] = new /\ \A u \in Transfer \ {t} : dest'[u] = dest[u]
    BY <2>3, Types
  <2>5. PICK state \in {"ARCHIVING", "FINISHED"} :
           /\ state = IF Archives(sid, i) THEN "ARCHIVING" ELSE "FINISHED"
           /\ EndFile(sid, i, state, "nothing")
    BY <1>2, <1>3 DEF CopyFile
  <2> QED
    BY <1>1, <1>2, <1>3, <2>2, <2>4, <2>5, WriteThere
<1>4. CASE ~(dest[t].content = "none" \/ MayOverwrite(job[sid], i, dest[t]))
  <2>1. PICK found : found = IF job[sid].report THEN Found(dest[t]) ELSE "nothing"
    OBVIOUS
  <2>2. dest' = dest /\ EndFile(sid, i, "FAILED", found)
    BY <1>2, <1>4, <2>1 DEF CopyFile
  <2>3. found \in {"nothing", "on_tape", "on_disk", "corrupted"}
    BY <2>1 DEF Found
  <2>4. PICK new \in Copy : new = dest[t]
    BY <1>2
  <2>5. new = dest'[t] /\ dest'[t] = dest[t] /\ \A u \in Transfer \ {t} : dest'[u] = dest[u]
    BY <2>2, <2>4
  <2>6. found \in {"on_tape", "on_disk"} =>
           /\ new.content = "good"
           /\ found = "on_tape" => new.onTape
           /\ ~MayOverwrite(job[sid], i, new)
    BY <1>4, <2>1, <2>4 DEF Found, Copy
  <2> QED
    BY <1>1, <1>2, <2>2, <2>3, <2>5, <2>6, WriteThere
<1> QED
  BY <1>3, <1>4

LEMMA CopyFailsThere ==
    ASSUME IInv, RInv, FilesThere, NEW sid \in Request, NEW i, CopyFails(sid, i)
    PROVE  FilesThere'
<1>1. /\ setup' = setup /\ row' = row /\ post' = post /\ poll' = poll
      /\ InState(sid, i, Active) /\ HasJob(sid) /\ i \in DOMAIN job[sid].files
      /\ EndFile(sid, i, "FAILED", "nothing")
  BY DEF CopyFails, InState, Active, HasJob
<1>2. PICK t \in Transfer : t = Target(sid, i) /\ dest[t] \in Copy
  BY <1>1, TargetLemma
<1>3. PICK content \in {dest[t].content, "none", "bad"} :
         \/ dest' = dest
         \/ /\ dest[t].content = "none" \/ MayOverwrite(job[sid], i, dest[t])
            /\ dest' = [dest EXCEPT ![t] = [content |-> content, onTape |-> FALSE]]
  BY <1>2 DEF CopyFails
<1>4. PICK new : new = dest'[t]
  OBVIOUS
<1>5. /\ new \in Copy /\ \A u \in Transfer \ {t} : dest'[u] = dest[u]
      /\ \/ dest'[t] = dest[t]
         \/ dest[t].content = "none"
         \/ MayOverwrite(job[sid], i, dest[t])
  <2>1. [content |-> content, onTape |-> FALSE] \in Copy
    BY <1>2, <1>3 DEF Copy
  <2> QED
    BY <1>2, <1>3, <1>4, <2>1, Types
<1> QED
  BY <1>1, <1>2, <1>4, <1>5, WriteThere

LEMMA ArchivingEndsThere ==
    ASSUME IInv, RInv, FilesThere, NEW sid \in Request, NEW i, ArchivingEnds(sid, i)
    PROVE  FilesThere'
<1>1. /\ setup' = setup /\ row' = row /\ post' = post /\ poll' = poll /\ dest' = dest
      /\ InState(sid, i, Active) /\ HasJob(sid) /\ i \in DOMAIN job[sid].files
      /\ job[sid].files[i].state = "ARCHIVING"
  BY DEF ArchivingEnds, InState, Active, HasJob
<1>2. PICK t \in Transfer : t = Target(sid, i) /\ dest[t] \in Copy
  BY <1>1, TargetLemma
<1>3. FileThere(job[sid], i, dest[t]) => dest[t].content = "good"
  BY <1>1 DEF FileThere
<1>4. PICK state \in {"FINISHED", "FAILED"} :
         /\ EndFile(sid, i, state, "nothing")
         /\ state = "FINISHED" => dest[t].onTape
  BY <1>2 DEF ArchivingEnds
<1> QED
  BY <1>1, <1>2, <1>3, <1>4, WriteThere

\* Steps that leave jobs and destinations alone.
LEMMA IdleThere ==
    ASSUME IInv, FilesThere, DriftGrows, job' = job, dest' = dest,
           \A t \in Transfer : row'[t].n \in {row[t].n, row[t].n + 1}
    PROVE  FilesThere'
<1>1. \A s \in Request : HasJob(s)' => HasJob(s) /\ SameJob(job[s], job'[s])
  <2> SUFFICES ASSUME NEW s \in Request, HasJob(s)'  PROVE HasJob(s) /\ SameJob(job[s], job'[s])
    OBVIOUS
  <2>1. HasJob(s) /\ job'[s] = job[s]
    BY DEF HasJob
  <2>2. job[s] \in Job
    BY <2>1 DEF IInv, JobOK
  <2> QED
    BY <2>1, <2>2 DEF SameJob
<1> QED
  BY <1>1, Types, QuietThere

LEMMA ToTapeThere ==
    ASSUME IInv, FilesThere, NEW t \in Transfer, ToTape(t)
    PROVE  FilesThere'
<1>1. /\ row' = row /\ post' = post /\ job' = job
      /\ dest' = [dest EXCEPT ![t].onTape = TRUE]
  BY DEF ToTape
<1>2. DriftGrows
  BY <1>1, DriftStays DEF Posted
<1>3. ASSUME NEW u \in Transfer
      PROVE  /\ dest'[u] \in Copy /\ dest'[u].content = dest[u].content
             /\ dest[u].onTape => dest'[u].onTape
  <2>1. PICK copy \in Copy : copy = dest[t]
    BY Types
  <2>2. PICK new : new = [copy EXCEPT !.onTape = TRUE]
    OBVIOUS
  <2>3. new \in Copy /\ new.content = copy.content /\ new.onTape
    BY <2>2 DEF Copy
  <2>4. dest'[t] = new /\ \A v \in Transfer \ {t} : dest'[v] = dest[v]
    BY <1>1, <2>1, <2>2, Types
  <2> QED
    BY <2>1, <2>3, <2>4, Types
<1>4. \A s \in Request : HasJob(s)' => HasJob(s) /\ SameJob(job[s], job'[s])
  <2> SUFFICES ASSUME NEW s \in Request, HasJob(s)'  PROVE HasJob(s) /\ SameJob(job[s], job'[s])
    OBVIOUS
  <2>1. HasJob(s) /\ job'[s] = job[s]
    BY <1>1 DEF HasJob
  <2>2. job[s] \in Job
    BY <2>1 DEF IInv, JobOK
  <2> QED
    BY <2>1, <2>2 DEF SameJob
<1>5. \A s \in Request : job'[s] = job[s]
  BY <1>1
<1>6. \A u \in Transfer : row'[u].n \in {row[u].n, row[u].n + 1}
  BY <1>1
<1> QED
  BY <1>2, <1>3, <1>4, <1>5, <1>6, QuietThere

LEMMA CancelThere ==
    ASSUME IInv, FilesThere, NEW sid \in Request, Cancel(sid)
    PROVE  FilesThere'
<1>1. row' = row /\ post' = post /\ dest' = dest /\ HasJob(sid)
  BY DEF Cancel, HasJob
<1>2. PICK a : a = job[sid]
  OBVIOUS
<1>3. a \in Job /\ FilesInTurn(a)
  BY <1>1, <1>2 DEF IInv, JobOK
<1>4. PICK files : files = [i \in DOMAIN a.files |->
                               IF a.files[i].state \in Active
                               THEN [a.files[i] EXCEPT !.state = "CANCELED"] ELSE a.files[i]]
  OBVIOUS
<1>5. PICK b : b = [a EXCEPT !.files = files]
  OBVIOUS
<1>6. /\ SameJob(a, b) /\ b.files = files
      /\ \A i \in DOMAIN a.files : files[i].state = "CANCELED" \/ files[i] = a.files[i]
  BY <1>3, <1>4, <1>5, CancelLemma
<1>7. job' = [job EXCEPT ![sid] = b]
  BY <1>2, <1>4, <1>5 DEF Cancel
<1>8. DriftGrows
  BY <1>1, DriftStays DEF Posted
<1>9. ASSUME NEW s \in Request, HasJob(s)'
      PROVE  /\ HasJob(s) /\ SameJob(job[s], job'[s])
             /\ \A k \in DOMAIN job[s].files : job'[s].files[k].state = "CANCELED"
                                               \/ job'[s].files[k] = job[s].files[k]
  <2>1. CASE s = sid
    <3>1. job'[s] = b
      BY <1>7, <2>1, Types
    <3> QED
      BY <1>1, <1>2, <1>6, <2>1, <3>1
  <2>2. CASE s # sid
    <3>1. HasJob(s) /\ job'[s] = job[s]
      BY <1>7, <1>9, <2>2, Types DEF HasJob
    <3>2. job[s] \in Job
      BY <3>1 DEF IInv, JobOK
    <3> QED
      BY <3>1, <3>2 DEF SameJob
  <2> QED
    BY <2>1, <2>2
<1>10. \A u \in Transfer : row'[u].n \in {row[u].n, row[u].n + 1}
  BY <1>1
<1> QED
  BY <1>1, <1>8, <1>9, <1>10, Types, QuietThere

\* A job that is made has come to nothing yet.
LEMMA ArriveThere ==
    ASSUME IInv, FilesThere, NEW sid \in Request, Arrive(sid)
    PROVE  FilesThere'
<1>1. row' = row /\ dest' = dest /\ Posted(sid) /\ post[sid].status = "sent"
  BY DEF Arrive, Posted
<1>2. PICK sub : sub = post[sid].sub
  OBVIOUS
<1>3. SubOK(sub)
  BY <1>1, <1>2 DEF IInv, PostOK
<1>4. PICK lookup \in BOOLEAN, refused \in BOOLEAN :
         /\ refused <=> Refused(sub, setup.fts, lookup)
         /\ post' = [post EXCEPT ![sid].status = IF refused THEN "refused" ELSE "made"]
         /\ \/ refused /\ job' = job
            \/ ~refused /\ \E entry \in DOMAIN sub.files[1].sources :
                  /\ JobType(sub) = "R" \/ entry = 1
                  /\ job' = [job EXCEPT ![sid] = Built(sub, entry)]
  BY <1>2 DEF Arrive
<1>5. DriftGrows
  <2>1. PICK old : old = post[sid]
    OBVIOUS
  <2>2. PICK status : status = IF refused THEN "refused" ELSE "made"
    OBVIOUS
  <2>3. PICK entry : entry = [old EXCEPT !.status = status]
    OBVIOUS
  <2>4. post' = [post EXCEPT ![sid] = entry]
    BY <1>4, <2>1, <2>2, <2>3
  <2>5. old \in PostOf(old.sub)
    BY <1>1, <2>1 DEF IInv, PostOK
  <2>6. /\ entry.sub = old.sub /\ entry.adrift = old.adrift /\ entry.status = status
        /\ entry # NoPost
    BY <2>2, <2>3, <2>5 DEF PostOf, NoPost
  <2>7. /\ post'[sid] = entry /\ \A s \in Request \ {sid} : post'[s] = post[s]
    BY <2>4, Types
  <2>8. \A s \in Request : Posted(s) => /\ Posted(s)' /\ post'[s].sub = post[s].sub
                                        /\ post[s].adrift => post'[s].adrift
    BY <2>1, <2>6, <2>7 DEF Posted
  <2> QED
    BY <2>8, DriftStays
<1>6. CASE job' = job
  BY <1>1, <1>5, <1>6, IdleThere
<1>7. CASE ~refused
  <2>1. PICK entry \in DOMAIN sub.files[1].sources :
           /\ JobType(sub) = "R" \/ entry = 1
           /\ job' = [job EXCEPT ![sid] = Built(sub, entry)]
    BY <1>4, <1>7
  <2>2. PICK b : b = Built(sub, entry)
    OBVIOUS
  <2>3. ~TypeRefused(sub)
    BY <1>4, <1>7 DEF Refused
  <2>4. \A k \in DOMAIN b.files : b.files[k].state \in {"SUBMITTED", "STAGING", "NOT_USED"}
    BY <1>3, <2>1, <2>2, <2>3, BuiltLemma
  <2>5. job'[sid] = b /\ \A s \in Request \ {sid} : job'[s] = job[s]
    BY <2>1, <2>2, Types
  <2>6. ASSUME NEW s \in Request, HasJob(s)', s # sid
        PROVE  HasJob(s) /\ SameJob(job[s], job'[s]) /\ job'[s] = job[s]
    <3>1. HasJob(s) /\ job'[s] = job[s]
      BY <2>5, <2>6 DEF HasJob
    <3>2. job[s] \in Job
      BY <3>1 DEF IInv, JobOK
    <3> QED
      BY <3>1, <3>2 DEF SameJob
  <2>7. ASSUME NEW s \in Request, HasJob(s)'
        PROVE  \/ /\ HasJob(s) /\ SameJob(job[s], job'[s])
                  /\ \A k \in DOMAIN job[s].files : job'[s].files[k].state = "CANCELED"
                                                    \/ job'[s].files[k] = job[s].files[k]
               \/ \A k \in DOMAIN job'[s].files :
                     job'[s].files[k].state \in {"SUBMITTED", "STAGING", "NOT_USED"}
    <3>1. CASE s = sid
      BY <2>4, <2>5, <3>1
    <3>2. CASE s # sid
      BY <2>6, <2>7, <3>2
    <3> QED
      BY <3>1, <3>2
  <2>8. \A u \in Transfer : row'[u].n \in {row[u].n, row[u].n + 1}
    BY <1>1
  <2> QED
    BY <1>1, <1>5, <2>7, <2>8, Types, QuietThere
<1> QED
  BY <1>4, <1>6, <1>7

LEMMA SubmitterThere ==
    ASSUME IInv, FilesThere, NEW sid \in Request, SubmitterStep(sid)
    PROVE  FilesThere'
<1>1. dest' = dest
  BY DEF SubmitterStep, Answered, Unanswered, TimesOut, SubmitterDies
<1>2. PICK state \in {"SUBMITTED", "SUBMISSION_FAILED", "LOST"} : Closes(sid, state)
  BY SubmitterCloses
<1>3. PICK external : external = IF state = "SUBMITTED" THEN sid ELSE NoJobId
  OBVIOUS
<1>4. job' = job /\ AsSet(row', Ids(sid), state, external)
  BY <1>2, <1>3 DEF Closes
<1>5. Open(sid) /\ ~post[sid].adrift
  BY SubmitterCloses DEF IInv, PostOK, Posted, Open
<1>6. \A s \in Request : Posted(s) => /\ Posted(s)' /\ post'[s].sub = post[s].sub
                                      /\ post[s].adrift => post'[s].adrift
  BY <1>2, <1>5 DEF Closes, Posted
<1>7. DriftGrows
  BY <1>6, DriftStays
<1>8. \A u \in Transfer : row'[u].n \in {row[u].n, row[u].n + 1}
  BY <1>4 DEF AsSet
<1> QED
  BY <1>1, <1>4, <1>7, <1>8, IdleThere

LEMMA SubmitThere ==
    ASSUME IInv, FilesThere, Submit \/ NoStorageToken
    PROVE  FilesThere'
<1>1. CASE Submit
  <2>1. PICK sid \in Request : \E sub, new : Sends(sid, sub, new)
    BY <1>1, SubmitSends
  <2>2. PICK sub, new : Sends(sid, sub, new)
    BY <2>1
  <2>3. /\ job' = job /\ dest' = dest /\ ~Posted(sid)
        /\ \A s \in Request \ {sid} : post'[s] = post[s]
    BY <2>2 DEF Sends
  <2>4. \A s \in Request : Posted(s) => Posted(s)' /\ post'[s] = post[s]
    BY <2>3 DEF Posted
  <2>5. DriftGrows
    BY <2>4, DriftStays
  <2>6. TakesQueued("SUBMITTING", new)
    BY <2>2, SubmitTakes
  <2>7. \A u \in Transfer : row'[u].n \in {row[u].n, row[u].n + 1}
    BY <2>6 DEF TakesQueued
  <2> QED
    BY <2>3, <2>5, <2>7, IdleThere
<1>2. CASE NoStorageToken
  <2>1. job' = job /\ dest' = dest /\ post' = post
    BY <1>2 DEF NoStorageToken
  <2>2. DriftGrows
    BY <2>1, DriftStays DEF Posted
  <2>3. PICK ids : TakesQueued("SUBMISSION_FAILED", ids)
    BY <1>2, NoStorageTokenTakes
  <2>4. \A u \in Transfer : row'[u].n \in {row[u].n, row[u].n + 1}
    BY <2>3 DEF TakesQueued
  <2> QED
    BY <2>1, <2>2, <2>4, IdleThere
<1> QED
  BY <1>1, <1>2

LEMMA MovesThere ==
    ASSUME IInv, FilesThere, RowsMove, dest' = dest
    PROVE  FilesThere'
<1>1. post' = post /\ job' = job
  BY DEF RowsMove
<1>2. DriftGrows
  BY <1>1, DriftStays DEF Posted
<1>3. \A u \in Transfer : row'[u].n \in {row[u].n, row[u].n + 1}
  BY DEF RowsMove, RowKept, RowEnds, RowCloses
<1> QED
  BY <1>1, <1>2, <1>3, IdleThere

LEMMA NextThere ==
    ASSUME NoReplicasReceived, IInv, RInv, FilesThere, [Next]_vars
    PROVE  FilesThere'
<1>1. CASE Submit \/ NoStorageToken
  BY <1>1, SubmitThere
<1>2. CASE \E sid \in Request : SubmitterStep(sid)
  BY <1>2, SubmitterThere
<1>3. CASE \E sid \in Request : FtsStep(sid)
  BY <1>3, ArriveThere, CopyFileThere, CopyFailsThere, ArchivingEndsThere DEF FtsStep
<1>4. ASSUME NEW sid \in Request, ReportStep(sid)  PROVE FilesThere'
  <2>1. CASE \E i \in FileNumbers(sid) : Receive(sid, i)
    <3>1. RowsMove /\ dest' = dest
      BY <2>1, ReceiveMoves, ReportsMove DEF Receive
    <3> QED
      BY <3>1, MovesThere
  <2>2. CASE PollApplied(sid)
    <3>1. RowsMove /\ dest' = dest
      BY <2>2, PollAppliedMoves, ReportsMove DEF PollApplied
    <3> QED
      BY <3>1, MovesThere
  <2>3. CASE PollRows(sid) \/ PollJob(sid)
    <3>1. RowsMove /\ dest' = dest
      BY <2>3, KeptRows DEF PollRows, PollJob
    <3> QED
      BY <3>1, MovesThere
  <2>4. CASE Cancel(sid)
    BY <2>4, CancelThere
  <2> QED
    BY <1>4, <2>1, <2>2, <2>3, <2>4 DEF ReportStep
<1>5. CASE \E t \in Transfer : ToTape(t)
  BY <1>5, ToTapeThere
<1>6. ASSUME NEW p \in DOMAIN setup.paths, Finish(p)  PROVE FilesThere'
  <2>1. RowsMove /\ dest' = dest
    BY <1>6, FinishMoves DEF Finish
  <2> QED
    BY <2>1, MovesThere
<1>7. CASE UNCHANGED vars
  <2>1. RowsMove /\ dest' = dest
    BY <1>7, KeptRows DEF vars
  <2> QED
    BY <2>1, MovesThere
<1> QED
  BY <1>1, <1>2, <1>3, <1>4, <1>5, <1>6, <1>7 DEF Next, AllDone

LEMMA SpecThere ==
    ASSUME NoReplicasReceived
    PROVE  Spec => [](IInv /\ RInv /\ FilesThere)
<1>1. Init => IInv /\ RInv /\ FilesThere
  BY InitIInv, InitRInv DEF Init, FilesThere, HasJob
<1>2. IInv /\ RInv /\ FilesThere /\ [Next]_vars => (IInv /\ RInv /\ FilesThere)'
  BY NextIInv, NextRInv, NextThere
<1> QED
  BY <1>1, <1>2, PTL DEF Spec

\* A request that is done: one of its files is there, or was found there.
LEMMA DoneLemma ==
    ASSUME IInv, RInv, FilesThere, NEW t \in Transfer, row[t].state = "DONE", ~Drifting(t)
    PROVE  /\ dest[t].content = "good"
           /\ IsTape(t) /\ job[row[t].external].archive => dest[t].onTape
<1>1. PICK sid : sid = row[t].external
  OBVIOUS
<1>2. HasJob(sid) /\ sid \in Request /\ Reports(job[sid], CurrentId(t), "DONE") /\ CurrentId(t)[1] = t
  BY <1>1, CurrentIds DEF RInv, RowFits
<1>3. PICK j, sub : j = job[sid] /\ sub = post[sid].sub
  OBVIOUS
<1>4. PICK file \in Reporting(j) : file.id = CurrentId(t) /\ ApiState(j, file) = "DONE"
  BY <1>2, <1>3 DEF Reports
<1>5. PICK i \in DOMAIN j.files : file = j.files[i]
  BY DEF Reporting, ToSet
<1>6. FileThere(j, i, dest[t])
  BY <1>2, <1>3, <1>4, <1>5 DEF FilesThere
<1>7. file.state # "NOT_USED"
  <2> SUFFICES ASSUME file.state = "NOT_USED"  PROVE FALSE
    OBVIOUS
  <2>1. "NOT_USED" \in States(j)
    BY <1>5 DEF States, ToSet
  <2>2. j.multi
    <3> SUFFICES ASSUME ~j.multi  PROVE FALSE
      OBVIOUS
    <3>1. j.type # "R"
      BY <1>2, <1>3 DEF IInv, JobOK
    <3>2. JobState(j) = "FINISHED"
      BY <1>4 DEF ApiState
    <3>3. States(j) = {"FINISHED"}
      BY <3>1, <3>2 DEF JobState
    <3> QED
      BY <2>1, <3>3
  <2> QED
    BY <2>2 DEF Reporting
<1>8. \/ file.state = "FINISHED"
      \/ file.state = "FAILED" /\ Recoverable(file)
  BY <1>4, <1>7 DEF ApiState, StateOfFailed
<1>9. CASE file.state = "FINISHED"
  <2>1. dest[t].content = "good"
    BY <1>5, <1>6, <1>9 DEF FileThere
  <2>2. ASSUME IsTape(t), j.archive  PROVE dest[t].onTape
    <3>1. j.type = "H" => i = Len(j.files)
      <4> SUFFICES ASSUME j.type = "H"  PROVE i = Len(j.files)
        OBVIOUS
      <4>1. /\ sub.params.multihop /\ Len(j.files) = Len(sub.files) /\ j \in Job
            /\ sub.files[i].id = CurrentId(t) /\ SubOK(sub)
        BY <1>2, <1>3, <1>4, <1>5 DEF IInv, JobOK, PostOK
      <4>2. PICK fs : fs = sub.files
        OBVIOUS
      <4>3. fs \in Seq(SubFile)
        BY <4>1, <4>2 DEF SubOK
      <4>4. i \in DOMAIN fs
        BY <1>5, <4>1, <4>2, <4>3, JobFiles
      <4>5. sub.files[i].id[1] = t
        BY <1>2, <4>1
      <4> QED
        BY <2>2, <4>1, <4>2, <4>4, <4>5 DEF SubOK
    <3> QED
      BY <1>5, <1>6, <1>9, <2>2, <3>1 DEF FileThere
  <2> QED
    BY <1>1, <1>3, <2>1, <2>2
<1>10. CASE file.state = "FAILED" /\ Recoverable(file)
  <2>1. file.found = "on_tape" \/ (file.found = "on_disk" /\ ~IsTape(t))
    BY <1>2, <1>4, <1>10 DEF Recoverable
  <2> QED
    BY <1>5, <1>6, <1>10, <2>1 DEF FileThere
<1> QED
  BY <1>8, <1>9, <1>10

\* Rucio takes no request for done whose file is not whole at its destination, and on tape where
\* a job waits for that: not on a late message or a stale poll, not for a file found there that
\* another replica then writes over, nor after a tape was begun anew (unless a job it lost sight
\* of writes there; fts3.py: the states of completion messages and of polled files).
THEOREM FtsDoneMeansThere ==
    ASSUME NoReplicasReceived
    PROVE  Spec => []DoneMeansThere
<1>1. ASSUME IInv, RInv, FilesThere  PROVE DoneMeansThere
  BY <1>1, DoneLemma DEF DoneMeansThere, Drifting, Posted
<1> QED
  BY <1>1, SpecThere, PTL

--------------------------------------------------------------------------------
(* Checks that can be made.                                                *)

\* A submission stays as it was made.
LEMMA SubmissionStays ==
    ASSUME IInv, [Next]_vars, NEW sid \in Request, Posted(sid)'
    PROVE  (Posted(sid) /\ post'[sid].sub = post[sid].sub) \/ ChecksFit(post'[sid].sub)
<1>1. ASSUME post' = post
      PROVE  Posted(sid) /\ post'[sid].sub = post[sid].sub
  BY <1>1 DEF Posted
<1>2. CASE Submit
  <2>1. PICK other \in Request : \E sub, new : Sends(other, sub, new)
    BY <1>2, SubmitSends
  <2>2. PICK sub, new : Sends(other, sub, new)
    BY <2>1
  <2>3. /\ ChecksFit(sub) /\ post'[other].sub = sub
        /\ \A s \in Request \ {other} : post'[s] = post[s]
    BY <2>2 DEF Sends
  <2> QED
    BY <2>3 DEF Posted
<1>3. CASE \E other \in Request : SubmitterStep(other)
  <2>1. PICK other \in Request : SubmitterStep(other)
    BY <1>3
  <2>2. Open(other) /\ setup' = setup
    BY <2>1 DEF SubmitterStep, Answered, Unanswered, TimesOut, SubmitterDies
  <2>3. PICK adrift \in BOOLEAN : Close(other, adrift)
    <3>1. (~post[other].known) \in BOOLEAN
      OBVIOUS
    <3> QED
      BY <2>1, <3>1 DEF SubmitterStep, Answered, Unanswered, TimesOut, SubmitterDies
  <2>4. PostStep
    BY <2>2, <2>3, CloseLemma
  <2> QED
    BY <2>4 DEF PostStep, Posted
<1>4. CASE \E other \in Request : FtsStep(other)
  <2>1. PICK other \in Request : FtsStep(other)
    BY <1>4
  <2>2. CASE Arrive(other)
    <3>1. PICK old, status : old = post[other] /\ post' = [post EXCEPT ![other] = [old EXCEPT !.status = status]]
      BY <2>2 DEF Arrive
    <3>2. post'[sid] = post[sid] \/ (sid = other /\ post'[sid] = [old EXCEPT !.status = status])
      BY <3>1, Types
    <3>3. Posted(other) /\ PostOK(other)
      BY <2>2 DEF Arrive, Posted, IInv
    <3>4. [old EXCEPT !.status = status].sub = old.sub
      BY <3>1, <3>3 DEF PostOK, PostOf
    <3> QED
      BY <3>1, <3>2, <3>3, <3>4 DEF Posted
  <2>3. CASE \E i \in FileNumbers(other) :
                CopyFile(other, i) \/ CopyFails(other, i) \/ ArchivingEnds(other, i)
    BY <1>1, <2>3 DEF CopyFile, CopyFails, ArchivingEnds
  <2> QED
    BY <2>1, <2>2, <2>3 DEF FtsStep
<1>5. CASE \E other \in Request : ReportStep(other)
  BY <1>1, <1>5 DEF ReportStep, PollRows, PollJob, PollApplied, Cancel, Receive
<1>6. CASE NoStorageToken \/ (\E t \in Transfer : ToTape(t)) \/ (\E p \in DOMAIN setup.paths : Finish(p))
  BY <1>1, <1>6 DEF NoStorageToken, ToTape, Finish
<1>7. CASE UNCHANGED vars
  BY <1>1, <1>7 DEF vars
<1> QED
  BY <1>2, <1>3, <1>4, <1>5, <1>6, <1>7 DEF Next, AllDone

ChecksInv == \A sid \in Request : Posted(sid) => ChecksFit(post[sid].sub)

\* No job has a checksum verified by an end of a hop that has none to verify it with, nor one it
\* does not support: whatever the length of the path, in a bulk job of any size, and whichever of
\* the checksums of the file is picked (PATH_CHECKSUM_VALIDATION_STRATEGY, _pick_fts_checksum,
\* bulk_group_transfers), where the first source stands for all sources.
THEOREM FtsChecksAreSupported == Spec => []ChecksAreSupported
<1>1. ASSUME Init  PROVE ChecksInv
  BY <1>1 DEF Init, ChecksInv, Posted
<1>2. ASSUME IInv, ChecksInv, [Next]_vars  PROVE ChecksInv'
  <2> SUFFICES ASSUME NEW sid \in Request, Posted(sid)'
               PROVE  ChecksFit(post'[sid].sub)
    BY DEF ChecksInv, ChecksFit, FileChecks
  <2>1. (Posted(sid) /\ post'[sid].sub = post[sid].sub) \/ ChecksFit(post'[sid].sub)
    BY <1>2, SubmissionStays
  <2> QED
    BY <1>2, <2>1 DEF ChecksInv
<1>3. ASSUME ChecksInv  PROVE ChecksAreSupported
  BY <1>3 DEF ChecksInv, ChecksFit, FileChecks, ChecksAreSupported, Posted
<1> QED
  BY <1>1, <1>2, <1>3, SpecIInv, PTL DEF Spec

===============================================================================
