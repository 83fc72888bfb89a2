---------------------------- MODULE MCFtsTransfers ----------------------------
(* FtsTransfers on small instances: storages, paths and configurations.    *)
EXTENDS FtsTransfers

Disk == [name |-> "disk", tape |-> FALSE, staging |-> FALSE, oidc |-> TRUE,
         verify |-> TRUE, checksums |-> {"adler32", "md5"}, fts |-> "fts", gcs |-> FALSE,
         ow |-> FALSE, owOnDisk |-> FALSE, archive |-> 0, strict |-> FALSE,
         ipv4 |-> FALSE, hostStyle |-> FALSE, keyed |-> FALSE]
Buffer == [Disk EXCEPT !.name = "buffer", !.checksums = {"md5"}]
Blind == [Disk EXCEPT !.name = "blind", !.verify = FALSE]
S3 == [Disk EXCEPT !.name = "s3", !.keyed = TRUE, !.oidc = FALSE, !.verify = FALSE]
Tape == [Disk EXCEPT !.name = "tape", !.tape = TRUE, !.archive = 1]
BufferedTape == [Tape EXCEPT !.name = "buffered", !.owOnDisk = TRUE]
PlainTape == [Tape EXCEPT !.name = "plain", !.archive = 0, !.staging = TRUE]

At(rse) == [rse |-> rse, scheme |-> IF rse = S3 THEN "s3s" ELSE "davs"]

Leg(t, sources, dst) ==
    [id |-> t, sources |-> sources, dst |-> dst, overwrite |-> "unset", priority |-> 3,
     lifetime |-> 0, activity |-> "user", rule |-> "rule", values |-> {"adler32", "md5"}]

CONSTANTS t1, t2

Tool == [bulk |-> 2, policy |-> "rule", bringOnline |-> 1, lifetime |-> 0,
         archiveOverride |-> NoOverride, exchange |-> FALSE, deterministic |-> TRUE,
         timeout |-> FALSE, overwriteCorrupted |-> TRUE]
Fts == [claims |-> {"iss", "exp", "scope"}, verifyAudience |-> FALSE, allowUnmanaged |-> TRUE]

Nothing == [content |-> "none", onTape |-> FALSE]
Good == [content |-> "good", onTape |-> TRUE]
Bad == [content |-> "bad", onTape |-> TRUE]

Base == [paths |-> <<>>, tool |-> Tool, fts |-> Fts, held |-> {Nothing},
         receiver |-> TRUE, maxFaults |-> 1]

One(sources, dst) == <<Leg(t1, sources, dst)>>

\* Two transfers in one job, to a tape that may already hold the files.
Bulk == [Base EXCEPT !.paths = <<One(<<At(Disk)>>, At(Tape)),
                                 <<Leg(t2, <<At(Disk)>>, At(Tape))>> >>,
                     !.held = {Good, Bad}, !.maxFaults = 0]
\* One transfer with every kind of failure; in the other one without deterministic ids.
Single == [Base EXCEPT !.paths = <<One(<<At(Disk)>>, At(Tape))>>,
                       !.held = {Nothing, Good, Bad}, !.maxFaults = 2]
Random == [Base EXCEPT !.paths = <<One(<<At(Disk)>>, At(Disk))>>, !.maxFaults = 2,
                       !.tool.deterministic = FALSE, !.tool.timeout = TRUE]
\* Replicas, without the message queue.
Replicas == [Base EXCEPT !.paths = <<One(<<At(Disk), At(Buffer)>>, At(Disk))>>,
                         !.maxFaults = 2, !.tool.timeout = TRUE, !.receiver = FALSE]
\* Two hops that can verify their outer ends only.
TwoHops == [Base EXCEPT !.paths = <<<<Leg(t1, <<At(Disk)>>, At(Blind)),
                                      Leg(t2, <<At(Blind)>>, At(Tape))>> >>,
                        !.held = {Nothing, Bad}]
\* A path FTS can only begin.
FirstHopOnly == [TwoHops EXCEPT !.paths[1][2].dst.rse.fts = NoServer, !.maxFaults = 0]
\* Storages with keys: as source, on both sides, and beside one with tokens.
Keys == [Base EXCEPT !.paths = <<One(<<At(S3)>>, At(Disk)), <<Leg(t2, <<At(S3)>>, At(S3))>> >>,
                     !.receiver = FALSE]
MixedKeys == [Replicas EXCEPT !.paths = <<One(<<At(S3), At(Disk)>>, At(Disk))>>, !.maxFaults = 0]
\* A tape whose buffer may be overwritten, and a tape without a limit for archiving to
\* which a file is staged from another one, without tokens.
Buffered == [Single EXCEPT !.paths = <<One(<<At(Disk)>>, At(BufferedTape))>>,
                           !.held = {Bad, [Bad EXCEPT !.onTape = FALSE]}, !.maxFaults = 0]
Staged == [Single EXCEPT !.paths = <<<<Leg(t1, <<[At(PlainTape) EXCEPT !.scheme = "root"]>>,
                                           [At(PlainTape) EXCEPT !.scheme = "root"])>> >>,
                         !.maxFaults = 1]

\* Jobs FTS refuses: such a tape by another protocol, and replicas for the first of two hops.
RootBuffered == [Buffered EXCEPT !.paths[1][1].dst.scheme = "root"]
HopReplicas == [TwoHops EXCEPT !.paths[1][1].sources = <<At(Disk), At(Buffer)>>, !.maxFaults = 0,
                               !.receiver = FALSE]

MCSetups == {Bulk, Single, Random, Replicas, TwoHops, FirstHopOnly, Keys, MixedKeys,
             Buffered, Staged, RootBuffered, HopReplicas}

\* Replicas, with the message queue.
ReceivedSetups == {[Replicas EXCEPT !.receiver = TRUE]}
===============================================================================
