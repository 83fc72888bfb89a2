-------------------------------- MODULE FtsJob --------------------------------
(***************************************************************************)
(* From transfers to FTS jobs, without state: how the transfer tool        *)
(* (src/patches/rucio/fts3.py) derives the parameters of a job from the    *)
(* attributes of its storages (RSEs) and groups transfers into jobs, and   *)
(* what FTS (src/patches/fts/JobBuilder.py) makes of a submission.         *)
(*                                                                         *)
(* A path is a sequence of hops; a hop is the transfer of one request from *)
(* its sources to one destination.  Left out: limits of time in the queue, *)
(* session reuse, space tokens, hashes, metadata and plugins.              *)
(***************************************************************************)
EXTENDS Integers, FiniteSets, SequencesExt

ChecksumName == {"adler32", "md5"}
Strategy == {"both", "target", "source", "none"}
Preferred == "adler32"   \* PREFERRED_CHECKSUM
NoChecksum == "no_checksum"
NoOverride == -1         \* archive_timeout_override is None

\* The attributes of a storage, defaults filled in; archive = 0: no archive_timeout;
\* keyed: FTS holds the keys of the storage (a row of t_cloudStorage).
Rse == [name : STRING, tape : BOOLEAN, staging : BOOLEAN, oidc : BOOLEAN,
        verify : BOOLEAN, checksums : SUBSET ChecksumName, fts : STRING, gcs : BOOLEAN,
        ow : BOOLEAN, owOnDisk : BOOLEAN, archive : Nat, strict : BOOLEAN,
        ipv4 : BOOLEAN, hostStyle : BOOLEAN, keyed : BOOLEAN]
NoServer == "no_server"
Endpoint == [rse : Rse, scheme : {"davs", "https", "s3s", "root", "mock"}]

Source(hop) == hop.sources[1]
FirstHop(path) == path[1]
LastHop(path) == path[Len(path)]

--------------------------------------------------------------------------------
(* Checksums                                                               *)

Available(rse) == IF rse.verify THEN rse.checksums ELSE {}

\* What can be verified on one hop.  Only the first source is asked.
HopStrategy(hop) ==
    LET src == Available(Source(hop).rse)
        dst == Available(hop.dst.rse)
    IN CASE src \cap dst # {} -> "both"
         [] src \cap dst = {} /\ dst # {} -> "target"
         [] dst = {} /\ src # {} -> "source"
         [] OTHER -> "none"

\* A mutation: the destination of a hop decides.
MutMerged(path, hop) == IF hop = "both" THEN path ELSE hop

\* PATH_CHECKSUM_VALIDATION_STRATEGY
Merged(path, hop) ==
    CASE path = "both" -> hop
      [] hop \in {"both", path} -> path
      [] OTHER -> "none"

PathStrategy(path) ==
    FoldLeft(Merged, "both", [i \in DOMAIN path |-> HopStrategy(path[i])])

\* The checksums a hop may be checked with under the strategy of its path.
Possible(hop, strategy) ==
    LET src == Available(Source(hop).rse)
        dst == Available(hop.dst.rse)
    IN CASE strategy = "both" -> src \cap dst
         [] strategy = "target" -> dst
         [] strategy = "source" -> src
         [] OTHER -> {}

\* The loop ends at the preferred one and otherwise keeps the last it came across:
\* the order of a set of strings is not fixed.
Picked(hop, strategy) ==
    LET known == Possible(hop, strategy) \cap hop.values
    IN CASE Preferred \in known -> {Preferred}
         [] known = {} -> {NoChecksum}
         [] OTHER -> known

--------------------------------------------------------------------------------
(* Servers, tokens and the parameters of a job                             *)

Server(hop) ==
    IF Source(hop).rse.fts = NoServer \/ hop.dst.rse.fts = NoServer THEN NoServer
    ELSE IF Source(hop).rse.gcs THEN Source(hop).rse.fts ELSE hop.dst.rse.fts

\* The hops before the first one FTS cannot perform.
Submittable(path) ==
    LET served == {i \in DOMAIN path : \A k \in 1..i : Server(path[k]) # NoServer}
    IN SubSeq(path, 1, Cardinality(served))

UsesTokens(hop) ==
    \A e \in ToSet(hop.sources) \cup {hop.dst} :
        e.scheme = "s3s" \/ (e.rse.oidc /\ e.scheme \in {"davs", "https"})

\* Paths are submitted together when one transfer tool serves them.
Builder(path) == [server |-> Server(LastHop(path)),
                  oidc |-> \A hop \in ToSet(path) : UsesTokens(hop)]

OnlyOnDisk(dst) == dst.tape /\ dst.owOnDisk
OverwritableBy(hop) ==
    \/ ~hop.dst.rse.tape
    \/ hop.dst.rse.ow /\ ~hop.dst.rse.owOnDisk
    \/ hop.overwrite = "yes"   \* a retry after the destination was found corrupted

HopsOverwritable(path) ==
    Len(path) > 1 /\ \A i \in 1..(Len(path) - 1) : path[i].overwrite # "no"

JobParams(path, tool) ==
    LET last == LastHop(path)
        dst == last.dst.rse
        hops == HopsOverwritable(path)
        overwrite == OverwritableBy(last) /\ (Len(path) > 1 => hops)
        archives == dst.tape /\ dst.archive > 0
        style == {FirstHop(path).sources[1].rse.hostStyle, dst.hostStyle}
    IN [verify       |-> PathStrategy(path),
        lifetime     |-> IF last.lifetime > 0 THEN last.lifetime ELSE tool.lifetime,
        bringOnline  |-> IF Source(FirstHop(path)).rse.staging THEN tool.bringOnline ELSE 0,
        priority     |-> last.priority,
        multihop     |-> Len(path) > 1,
        multiSources |-> Len(path) = 1 /\ Len(last.sources) > 1,
        onlyOnDisk   |-> OnlyOnDisk(dst),
        overwrite    |-> overwrite,
        overwriteHop |-> hops /\ ~overwrite,
        strict       |-> dst.strict,
        unmanaged    |-> ~tool.exchange,
        ipv4         |-> \E e \in ToSet(last.sources) \cup {last.dst} : e.rse.ipv4,
        s3alternate  |-> TRUE \notin style,
        archive      |-> CASE ~archives -> 0
                           [] archives /\ tool.archiveOverride = NoOverride -> dst.archive
                           [] OTHER -> tool.archiveOverride,
        report       |-> archives]

--------------------------------------------------------------------------------
(* Grouping                                                                *)

PolicyKey(hop, policy) ==
    LET key(value, policies) == IF policy \in policies THEN value ELSE "any"
    IN <<key(hop.rule, {"rule", "rule_src_dest"}),
         key(hop.activity, {"activity_dest", "activity_src_dest"}),
         key(Source(hop).rse.name, {"src_dest", "rule_src_dest", "activity_src_dest"}),
         key(hop.dst.rse.name, {"dest", "src_dest", "rule_src_dest",
                                "activity_dest", "activity_src_dest"})>>

\* A mutation: transfers with different flags share a job.
MutGroupKey(path, tool) ==
    LET p == JobParams(path, tool)
    IN <<p.verify, p.lifetime, p.bringOnline, p.onlyOnDisk, p.priority,
         UsesTokens(FirstHop(path)), PolicyKey(FirstHop(path), tool.policy)>>

GroupKey(path, tool) ==
    LET p == JobParams(path, tool)
    IN <<p.verify, p.lifetime, p.bringOnline, p.onlyOnDisk, p.overwrite, p.priority,
         UsesTokens(FirstHop(path)), PolicyKey(FirstHop(path), tool.policy)>>

Alone(path) == Len(path) > 1 \/ Len(LastHop(path).sources) > 1

\* Pieces of at most n elements.
Chunks(s, n) ==
    {SubSeq(s, first, Min({first + n - 1, Len(s)})) :
        first \in {i \in DOMAIN s : (i - 1) % n = 0}}

\* The numbers ns from the lowest to the highest.
InOrder(ns) ==
    {s \in [1..Cardinality(ns) -> ns] : \A i, k \in DOMAIN s : i < k => s[i] < s[k]}

\* The paths come in the order of their numbers; a group has the parameters of its first one.
Jobs(paths, tool) ==
    LET bulk == {n \in DOMAIN paths : ~Alone(paths[n])}
        groups == {{k \in bulk : GroupKey(paths[k], tool) = GroupKey(paths[n], tool)} :
                       n \in bulk}
        hops(chunk) == [i \in DOMAIN chunk |-> FirstHop(paths[chunk[i]])]
    IN {[transfers |-> SubSeq(paths[n], 1, Min({tool.bulk, Len(paths[n])})),
         params |-> JobParams(paths[n], tool)] : n \in DOMAIN paths \ bulk}
       \cup UNION {{[transfers |-> hops(chunk), params |-> JobParams(paths[g[1]], tool)] :
                        chunk \in Chunks(g, tool.bulk)} :
                   g \in UNION {InOrder(group) : group \in groups}}

--------------------------------------------------------------------------------
(* Submissions, as they reach FTS                                          *)

\* Token lists are given by their lengths; a list that would be empty is left out.
FileOf(hop, checksum, withToken) ==
    [id |-> hop.id, sources |-> hop.sources, dst |-> hop.dst, checksum |-> checksum,
     srcTokens |-> IF withToken
                   THEN Cardinality({i \in DOMAIN hop.sources : hop.sources[i].scheme # "s3s"})
                   ELSE 0,
     dstTokens |-> IF withToken /\ hop.dst.scheme # "s3s" THEN 1 ELSE 0]

\* Every way of picking the files' checksums.
Submissions(job, withToken) ==
    LET checksums == [i \in DOMAIN job.transfers |->
                         Picked(job.transfers[i], job.params.verify)]
    IN {[params |-> job.params, oauth2 |-> withToken,
         files |-> [i \in DOMAIN job.transfers |->
                       FileOf(job.transfers[i], c[i], withToken)]] :
            c \in {f \in [DOMAIN job.transfers -> ChecksumName \cup {NoChecksum}] :
                       \A i \in DOMAIN job.transfers : f[i] \in checksums[i]}}

HasTokens(file) == file.srcTokens > 0 \/ file.dstTokens > 0

\* The bearer token of the client stands in where no file brings tokens.
WithMissingTokens(sub) ==
    IF sub.oauth2 /\ \A file \in ToSet(sub.files) : ~HasTokens(file)
    THEN [i \in DOMAIN sub.files |->
             [sub.files[i] EXCEPT !.srcTokens = Len(sub.files[i].sources), !.dstTokens = 1]]
    ELSE sub.files

\* A mutation: a side with keys is asked for tokens like any other.
MutKeyed(endpoints, lookup) == FALSE

\* A storage whose keys FTS holds; a lookup that fails finds none.
Keyed(endpoints, lookup) ==
    endpoints # <<>> /\ lookup /\ \A e \in ToSet(endpoints) : e.rse.keyed

TokensRefused(file, lookup) ==
    /\ HasTokens(file)
    /\ \/ ~Keyed(file.sources, lookup) /\ file.srcTokens = 0
       \/ ~Keyed(<<file.dst>>, lookup) /\ file.dstTokens = 0
       \/ file.srcTokens \notin {0, Len(file.sources)}
       \/ file.dstTokens \notin {0, 1}

ClaimsRefused(claims, fts) ==
    ~({"iss", "exp", "scope"} \cup (IF fts.verifyAudience THEN {"aud"} ELSE {}) \subseteq claims)

OverwriteFlags(params) ==
    {f \in {"overwrite", "overwriteHop", "onlyOnDisk"} : params[f]}

FlagsRefused(params) ==
    \/ Cardinality(OverwriteFlags(params)) > 1
       /\ OverwriteFlags(params) # {"overwriteHop", "onlyOnDisk"}
    \/ params.onlyOnDisk /\ params.archive <= 0

\* Y: overwrite, M: the hops before the last, D: what is only on disk, Q: both, N: nothing.
OverwriteFlag(params) ==
    CASE params.overwrite -> "Y"
      [] ~params.overwrite /\ params.overwriteHop -> IF params.onlyOnDisk THEN "Q" ELSE "M"
      [] OTHER -> IF params.onlyOnDisk THEN "D" ELSE "N"

\* A mutation: several files are taken for a job that reuses one session.
MutJobType(sub) ==
    CASE sub.params.multihop -> "H"
      [] ~sub.params.multihop /\ Len(sub.files) > 1 -> "Y"
      [] OTHER -> IF Len(sub.files[1].sources) > 1 THEN "R" ELSE "N"

JobType(sub) ==
    IF \E file \in ToSet(sub.files) : Len(file.sources) > 1 THEN "R"
    ELSE IF sub.params.multihop THEN "H" ELSE "N"

DiskFlagRefused(sub) ==
    LET checked == IF sub.params.multihop THEN {Len(sub.files)} ELSE DOMAIN sub.files
    IN /\ OverwriteFlag(sub.params) \in {"D", "Q"}
       /\ \E i \in checked : sub.files[i].dst.scheme \notin {"https", "davs", "mock"}

HopFlagRefused(sub) == OverwriteFlag(sub.params) \in {"M", "Q"} /\ ~sub.params.multihop

TypeRefused(sub) == JobType(sub) = "R" /\ (sub.params.multihop \/ Len(sub.files) > 1)

\* What makes JobBuilder answer BadRequest.
Refused(sub, fts, lookup) ==
    \/ sub.oauth2 /\ \E file \in ToSet(WithMissingTokens(sub)) : TokensRefused(file, lookup)
    \/ sub.oauth2 /\ ClaimsRefused(fts.claims, fts)
    \/ sub.params.unmanaged /\ ~fts.allowUnmanaged
    \/ FlagsRefused(sub.params)
    \/ DiskFlagRefused(sub)
    \/ HopFlagRefused(sub)
    \/ TypeRefused(sub)

InitialState(params) ==
    IF params.lifetime > 0 \/ params.bringOnline > 0 THEN "STAGING" ELSE "SUBMITTED"

\* One row per source of a job with replicas, of which one (entry) is to go first.
FileRows(sub, entry) ==
    LET type == JobType(sub)
        row(i, source) == [id |-> sub.files[i].id, source |-> source,
                           state |-> IF type = "N" \/ (type = "H" /\ i = 1)
                                        \/ (type = "R" /\ source = entry)
                                     THEN InitialState(sub.params) ELSE "NOT_USED",
                           found |-> "nothing"]
    IN IF type = "R" THEN [n \in DOMAIN sub.files[1].sources |-> row(1, n)]
       ELSE [i \in DOMAIN sub.files |-> row(i, 1)]

Built(sub, entry) ==
    [type    |-> JobType(sub),
     flag    |-> OverwriteFlag(sub.params),
     archive |-> sub.params.archive > 0,
     report  |-> sub.params.report,
     multi   |-> sub.params.multiSources,
     files   |-> FileRows(sub, entry)]

===============================================================================
