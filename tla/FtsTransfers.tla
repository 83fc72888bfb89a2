----------------------------- MODULE FtsTransfers -----------------------------
(***************************************************************************)
(* The life of transfer requests between Rucio and FTS: submission with    *)
(* answers that are late or lost, the status reports read from the message *)
(* queue and by polling, and the retries (src/patches/rucio/fts3.py, with  *)
(* src/patches/fts/JobBuilder.py at the other end).  What is submitted is  *)
(* computed by FtsJob.  Rucio's daemons, its table of requests and the FTS *)
(* server itself are not in the repository: they are modelled from how its *)
(* code relies on them.                                                    *)
(***************************************************************************)
EXTENDS FtsJob

CONSTANTS
    Transfer,      \* what is to be copied to where; each attempt is a new request
    Setups,        \* configurations and paths: see Setup
    MaxAttempts,   \* requests per transfer (retry_count)
    NoJobId,       \* the external_id of a request without a job
    NoJob, NoPoll

ASSUME BoundAssumption == MaxAttempts \in Nat \ {0}

VARIABLES
    setup,         \* paths, configuration and what the storages hold at first
    row,           \* the table of requests: the latest request of each transfer
    post,          \* submissions, by the request whose id seeds the id of the job
    job,           \* the jobs of FTS
    dest,          \* the destinations of the transfers
    poll,          \* what the poller has read of a job and not yet applied
    faults

vars == <<setup, row, post, job, dest, poll, faults>>

--------------------------------------------------------------------------------
Request == Transfer \X (1..MaxAttempts)
RowState == {"QUEUED", "SUBMITTING", "SUBMITTED", "SUBMISSION_FAILED", "LOST",
             "DONE", "FAILED", "ARCHIVED"}
Ended == {"SUBMISSION_FAILED", "LOST", "DONE", "FAILED"}
Row == [n : 1..MaxAttempts, state : RowState, external : Request \cup {NoJobId},
        overwrite : {"unset", "yes", "no"}]

File == [id : Request, source : Nat \ {0},
         state : {"SUBMITTED", "STAGING", "NOT_USED", "ARCHIVING",
                  "FINISHED", "FAILED", "CANCELED"},
         found : {"nothing", "on_tape", "on_disk", "corrupted"}]
Job == [type : {"N", "H", "R"}, flag : {"Y", "M", "D", "Q", "N"}, archive : BOOLEAN,
        report : BOOLEAN, multi : BOOLEAN, files : Seq(File)]
Poll == [rows : SUBSET (Request \X Row), asked : BOOLEAN, answer : Job \cup {NoJob}]
Copy == [content : {"none", "bad", "good"}, onTape : BOOLEAN]
NoPost == [status |-> "none"]

ASSUME NamesAssumption == NoJobId \notin Request /\ NoJob \notin Job /\ NoPoll \notin Poll

Hop == [id : Transfer, sources : Seq(Endpoint) \ {<<>>}, dst : Endpoint,
        overwrite : {"unset", "yes", "no"}, priority : Nat, lifetime : Nat,
        activity : STRING, rule : STRING, values : SUBSET ChecksumName]

\* Each transfer is a hop of one path.  "We don't allow multihop via a tape" (fts3.py).
ASSUME SetupAssumption ==
    \A s \in Setups :
        /\ s.paths \in Seq(Seq(Hop) \ {<<>>})
        /\ \A p, q \in DOMAIN s.paths : \A i \in DOMAIN s.paths[p], k \in DOMAIN s.paths[q] :
               s.paths[p][i].id = s.paths[q][k].id => p = q /\ i = k
        /\ \A p \in DOMAIN s.paths : \A i \in 1..(Len(s.paths[p]) - 1) :
               ~s.paths[p][i].dst.rse.tape
        /\ s.tool.bulk \in Nat \ {0}
        /\ s.tool.archiveOverride \in Nat \cup {NoOverride}
        /\ s.held \subseteq Copy
        /\ s.maxFaults \in Nat

\* The part of a path FTS can perform; the rest is another tool's.
Served(p) == Submittable(setup.paths[p])
Hops == UNION {ToSet(Served(p)) : p \in DOMAIN setup.paths}
IsTape(t) == \E hop \in Hops : hop.id = t /\ hop.dst.rse.tape
AllowsOverwrite(t) == \E hop \in Hops : hop.id = t /\ hop.dst.rse.ow
CurrentId(t) == <<t, row[t].n>>

\* A path with the data its requests have now.
Current(path) ==
    [i \in DOMAIN path |-> [path[i] EXCEPT !.id = CurrentId(@),
                                           !.overwrite = row[path[i].id].overwrite]]

\* The rows of the given requests, where they are still the latest and not yet archived,
\* take a state and an external id.
SetRows(ids, state, external) ==
    [t \in Transfer |->
        IF CurrentId(t) \in ids /\ row[t].state # "ARCHIVED"
        THEN [row[t] EXCEPT !.state = state, !.external = external] ELSE row[t]]

Ids(sid) == {file.id : file \in ToSet(post[sid].sub.files)}
Fault == faults < setup.maxFaults /\ faults' = faults + 1

--------------------------------------------------------------------------------
(* The submitter                                                           *)

Queued(p) == \A hop \in ToSet(Served(p)) : row[hop.id].state = "QUEUED"

\* The jobs a pass of the submitter may group: it takes some of the queued paths.
JobsOf(chosen) ==
    Jobs([p \in chosen |-> Current(Served(p))], setup.tool)

ServedTogether(chosen) ==
    LET parts == {Served(p) : p \in chosen}
    IN /\ chosen # {} /\ <<>> \notin parts
       /\ \A a, b \in parts : Builder(a) = Builder(b)

\* One of the jobs of a pass is sent.  Rucio may fail to get a token for FTS, or to learn
\* the base of the deterministic ids.
Submit ==
    \E chosen \in SUBSET {p \in DOMAIN setup.paths : Queued(p)} :
        /\ ServedTogether(chosen)
        /\ \E j \in JobsOf(chosen), token, known \in BOOLEAN :
              LET oidc == \A p \in chosen : Builder(Served(p)).oidc
                  sid == j.transfers[1].id
              IN /\ token => oidc
                 /\ known => setup.tool.deterministic
                 /\ IF token = oidc /\ known = setup.tool.deterministic
                    THEN UNCHANGED faults ELSE Fault
                 /\ \E sub \in Submissions(j, token) :
                       /\ post' = [post EXCEPT ![sid] =
                              [sub |-> sub, status |-> "sent", open |-> TRUE,
                               known |-> known, adrift |-> FALSE]]
                       /\ row' = SetRows({file.id : file \in ToSet(sub.files)},
                                         "SUBMITTING", NoJobId)
    /\ UNCHANGED <<setup, job, dest, poll>>

\* A token for a storage cannot be had: nothing is sent.
NoStorageToken ==
    /\ Fault
    /\ \E chosen \in SUBSET {p \in DOMAIN setup.paths : Queued(p)} :
          /\ ServedTogether(chosen)
          /\ \A p \in chosen : Builder(Served(p)).oidc
          /\ \E j \in JobsOf(chosen) :
                row' = SetRows({hop.id : hop \in ToSet(j.transfers)},
                               "SUBMISSION_FAILED", NoJobId)
    /\ UNCHANGED <<setup, post, job, dest, poll>>

\* A mutation: without an answer the job counts as not made.
MutWithoutAnswer(sid) == SetRows(Ids(sid), "SUBMISSION_FAILED", NoJobId)

\* Any answer but 200 is falsy: the job is taken to exist if its id is known.
WithoutAnswer(sid) ==
    IF post[sid].known THEN SetRows(Ids(sid), "SUBMITTED", sid)
    ELSE SetRows(Ids(sid), "SUBMISSION_FAILED", NoJobId)

\* What is still on its way may arrive all the same.
Close(sid, adrift) ==
    \E status \in {post[sid].status}
                  \cup (IF post[sid].status = "sent" THEN {"dropped"} ELSE {}) :
        post' = [post EXCEPT ![sid].open = FALSE, ![sid].status = status,
                             ![sid].adrift = adrift /\ status \in {"sent", "made"}]

Open(sid) == post[sid] # NoPost /\ post[sid].open

Answered(sid) ==
    /\ Open(sid) /\ post[sid].status \in {"made", "refused"}
    /\ row' = IF post[sid].status = "made" THEN SetRows(Ids(sid), "SUBMITTED", sid)
              ELSE WithoutAnswer(sid)
    /\ Close(sid, FALSE)
    /\ UNCHANGED <<setup, job, dest, poll, faults>>

\* The connection breaks.
Unanswered(sid) ==
    /\ Open(sid) /\ Fault
    /\ row' = WithoutAnswer(sid)
    /\ Close(sid, ~post[sid].known)
    /\ UNCHANGED <<setup, job, dest, poll>>

\* A read timeout is raised before the expected id is looked at.
TimesOut(sid) ==
    /\ Open(sid) /\ setup.tool.timeout /\ Fault
    /\ row' = SetRows(Ids(sid), "SUBMISSION_FAILED", NoJobId)
    /\ Close(sid, TRUE)
    /\ UNCHANGED <<setup, job, dest, poll>>

\* The submitter is killed; what it left as submitting is given up as lost.
SubmitterDies(sid) ==
    /\ Open(sid) /\ Fault
    /\ row' = SetRows(Ids(sid), "LOST", NoJobId)
    /\ Close(sid, TRUE)
    /\ UNCHANGED <<setup, job, dest, poll>>

--------------------------------------------------------------------------------
(* FTS                                                                     *)

Arrive(sid) ==
    /\ post[sid] # NoPost /\ post[sid].status = "sent"
    /\ \E lookup \in BOOLEAN :
          /\ IF lookup THEN UNCHANGED faults ELSE Fault
          /\ LET sub == post[sid].sub
                 refused == Refused(sub, setup.fts, lookup)
             IN /\ post' = [post EXCEPT ![sid].status = IF refused THEN "refused" ELSE "made"]
                /\ \/ refused /\ UNCHANGED job
                   \/ ~refused /\ \E entry \in DOMAIN sub.files[1].sources :
                         /\ JobType(sub) = "R" \/ entry = 1
                         /\ job' = [job EXCEPT ![sid] = Built(sub, entry)]
    /\ UNCHANGED <<setup, row, dest, poll>>

States(j) == {file.state : file \in ToSet(j.files)}
FinalJob == {"FAILED", "CANCELED", "FINISHED", "FINISHEDDIRTY"}
FinalFile == {"FAILED", "CANCELED", "FINISHED", "NOT_USED"}
Active == {"SUBMITTED", "STAGING", "ARCHIVING"}

JobState(j) ==
    IF States(j) \cap Active # {} THEN "ACTIVE"
    ELSE IF "CANCELED" \in States(j) THEN "CANCELED"
    ELSE IF j.type = "R" /\ "FINISHED" \in States(j) THEN "FINISHED"
    ELSE IF j.type = "H" /\ "FAILED" \in States(j) THEN "FAILED"
    ELSE IF States(j) = {"FINISHED"} THEN "FINISHED"
    ELSE IF States(j) = {"FAILED"} THEN "FAILED"
    ELSE "FINISHEDDIRTY"

\* The files after one has ended: the next hop after a success, another replica after a failure.
FilesAfter(j, i, state, found) ==
    LET files == [j.files EXCEPT ![i].state = state, ![i].found = found]
        next == CASE j.type = "H" /\ state = "FINISHED" -> {i + 1} \cap DOMAIN files
                  [] j.type = "R" /\ state = "FAILED" ->
                         {k \in DOMAIN files : files[k].state = "NOT_USED"}
                  [] OTHER -> {}
    IN IF next = {} THEN {files} ELSE {[files EXCEPT ![k].state = "SUBMITTED"] : k \in next}

EndFile(sid, i, state, found) ==
    \E files \in FilesAfter(job[sid], i, state, found) :
        job' = [job EXCEPT ![sid].files = files]

MayOverwrite(j, i, copy) ==
    \/ j.flag = "Y"
    \/ j.flag \in {"M", "Q"} /\ i < Len(j.files)
    \/ j.flag \in {"D", "Q"} /\ ~copy.onTape

InState(sid, i, states) ==
    /\ job[sid] # NoJob
    /\ i \in DOMAIN job[sid].files /\ job[sid].files[i].state \in states

Target(sid, i) == job[sid].files[i].id[1]

\* A job monitors the tape only of its last destination.
Archives(sid, i) ==
    job[sid].archive /\ (job[sid].type = "H" => i = Len(job[sid].files))

Found(copy) ==
    IF copy.content = "bad" THEN "corrupted" ELSE IF copy.onTape THEN "on_tape" ELSE "on_disk"

CopyFile(sid, i) ==
    /\ InState(sid, i, {"SUBMITTED", "STAGING"})
    /\ LET t == Target(sid, i)
       IN IF dest[t].content = "none" \/ MayOverwrite(job[sid], i, dest[t])
          THEN /\ dest' = [dest EXCEPT ![t] = [content |-> "good", onTape |-> FALSE]]
               /\ EndFile(sid, i, IF Archives(sid, i) THEN "ARCHIVING" ELSE "FINISHED", "nothing")
          ELSE /\ UNCHANGED dest
               /\ EndFile(sid, i, "FAILED", IF job[sid].report THEN Found(dest[t]) ELSE "nothing")
    /\ UNCHANGED <<setup, row, post, poll, faults>>

\* A copy that fails leaves its destination alone, or empty, or with a part of the file.
CopyFails(sid, i) ==
    /\ InState(sid, i, {"SUBMITTED", "STAGING"}) /\ Fault
    /\ LET t == Target(sid, i)
       IN \E content \in {dest[t].content, "none", "bad"} :
             /\ \/ content = dest[t].content /\ UNCHANGED dest
                \/ /\ dest[t].content = "none" \/ MayOverwrite(job[sid], i, dest[t])
                   /\ dest' = [dest EXCEPT ![t] = [content |-> content, onTape |-> FALSE]]
    /\ EndFile(sid, i, "FAILED", "nothing")
    /\ UNCHANGED <<setup, row, post, poll>>

ToTape(t) ==
    /\ IsTape(t) /\ dest[t].content # "none" /\ ~dest[t].onTape
    /\ dest' = [dest EXCEPT ![t].onTape = TRUE]
    /\ UNCHANGED <<setup, row, post, job, poll, faults>>

ArchivingEnds(sid, i) ==
    /\ InState(sid, i, {"ARCHIVING"})
    /\ \/ dest[Target(sid, i)].onTape /\ EndFile(sid, i, "FINISHED", "nothing") /\ UNCHANGED faults
       \/ Fault /\ EndFile(sid, i, "FAILED", "nothing")
    /\ UNCHANGED <<setup, row, post, dest, poll>>

--------------------------------------------------------------------------------
(* Status reports                                                          *)

\* A mutation: a file on the disk buffer of a tape is good enough.
MutRecoverable(file) == file.found \in {"on_tape", "on_disk"}

\* FTS could not copy since the destination exists, and what exists is the file.
Recoverable(file) ==
    file.found = "on_tape" \/ (file.found = "on_disk" /\ ~IsTape(file.id[1]))

StateOfFailed(file) == IF Recoverable(file) THEN "DONE" ELSE "FAILED"

\* The state a completion message is for; what is still archiving is for none.
MessageState(file) ==
    CASE file.state = "FINISHED" -> "DONE"
      [] file.state = "FAILED" -> StateOfFailed(file)
      [] OTHER -> "none"

\* A mutation: NOT_USED is taken for a success.
MutApiState(j, file) ==
    CASE file.state \in {"FINISHED", "NOT_USED"} -> "DONE"
      [] file.state = "FAILED" -> StateOfFailed(file)
      [] file.state = "CANCELED" -> "FAILED"
      [] OTHER -> "none"

\* The state a polled file is for.
ApiState(j, file) ==
    LET final == JobState(j) \in FinalJob
    IN CASE file.state = "FINISHED" -> "DONE"
         [] file.state = "FAILED" /\ (final \/ ~j.multi) -> StateOfFailed(file)
         [] file.state = "CANCELED" /\ final -> "FAILED"
         [] file.state = "NOT_USED" /\ final ->
                IF JobState(j) = "FINISHED" THEN "DONE" ELSE "FAILED"
         [] OTHER -> "none"

\* A report is for the job and of news, as far as the row it looks at tells.
Applies(seen, sid, new) ==
    new # "none" /\ seen.external = sid /\ seen.state # new

Reported(old, sid, new, file) ==
    [old EXCEPT !.state = new, !.external = sid,
                !.overwrite = IF new = "FAILED" /\ file.found = "corrupted"
                                 /\ setup.tool.overwriteCorrupted THEN "yes" ELSE @]

\* Messages come late, in any order, twice or never: what a file came to is there to be
\* told from then on.
Receive(sid, i) ==
    /\ setup.receiver /\ InState(sid, i, {"FINISHED", "FAILED", "ARCHIVING", "CANCELED"})
    /\ LET file == job[sid].files[i]
           t == file.id[1]
       IN /\ CurrentId(t) = file.id /\ row[t].state # "ARCHIVED"
          /\ Applies(row[t], sid, MessageState(file))
          /\ row' = [row EXCEPT ![t] = Reported(@, sid, MessageState(file), file)]
    /\ UNCHANGED <<setup, post, job, dest, poll, faults>>

\* The poller reads the submitted requests of a job, then asks FTS, then applies the answer.
\* It leaves new requests alone for longer than a submission is on its way.
PollRows(sid) ==
    /\ poll[sid] = NoPoll /\ post[sid] # NoPost /\ post[sid].status # "sent"
    /\ LET ts == {t \in Transfer : row[t].state = "SUBMITTED" /\ row[t].external = sid}
       IN /\ ts # {}
          /\ poll' = [poll EXCEPT ![sid] =
                 [rows |-> {<<CurrentId(t), row[t]>> : t \in ts},
                  asked |-> FALSE, answer |-> NoJob]]
    /\ UNCHANGED <<setup, row, post, job, dest, faults>>

PollJob(sid) ==
    /\ poll[sid] # NoPoll /\ ~poll[sid].asked
    /\ poll' = [poll EXCEPT ![sid].asked = TRUE, ![sid].answer = job[sid]]
    /\ UNCHANGED <<setup, row, post, job, dest, faults>>

\* A mutation: of replicas, only one that made it is reported.
MutReporting(j) ==
    IF j.multi THEN {file \in ToSet(j.files) : file.state = "FINISHED"} ELSE ToSet(j.files)

\* The files of a job whose reports are returned; of replicas, the one that made it or the
\* last one that was used, once the job is over.
Reporting(j) ==
    LET used == {i \in DOMAIN j.files : j.files[i].state # "NOT_USED"}
        made == {i \in used : j.files[i].state = "FINISHED"}
    IN CASE ~j.multi -> ToSet(j.files)
         [] j.multi /\ JobState(j) \notin FinalJob -> {}
         [] OTHER -> {j.files[i] : i \in IF made # {} THEN {k \in made : \A m \in made : k <= m}
                                         ELSE {k \in used : \A m \in used : k >= m}}

\* The reports look at the rows as they were read before the query.
RowsAfter(sid, j, rows) ==
    [t \in Transfer |->
        LET told == {file \in Reporting(j) :
                        /\ file.id = CurrentId(t) /\ row[t].state # "ARCHIVED"
                        /\ \E pair \in rows : /\ pair[1] = file.id
                                              /\ Applies(pair[2], sid, ApiState(j, file))}
        IN IF told = {} THEN row[t]
           ELSE LET file == CHOOSE f \in told : TRUE
                IN Reported(row[t], sid, ApiState(j, file), file)]

PollApplied(sid) ==
    /\ poll[sid] # NoPoll /\ poll[sid].asked
    /\ LET p == poll[sid]
       IN IF p.answer # NoJob
          THEN row' = RowsAfter(sid, p.answer, p.rows)
          ELSE row' = SetRows({pair[1] : pair \in p.rows}, "LOST", sid)
    /\ poll' = [poll EXCEPT ![sid] = NoPoll]
    /\ UNCHANGED <<setup, post, job, dest, faults>>

Cancel(sid) ==
    /\ Fault
    /\ job[sid] # NoJob /\ \E t \in Transfer : row[t].external = sid /\ row[t].state = "SUBMITTED"
    /\ job' = [job EXCEPT ![sid].files =
                  [i \in DOMAIN @ |-> IF @[i].state \in Active
                                      THEN [@[i] EXCEPT !.state = "CANCELED"] ELSE @[i]]]
    /\ UNCHANGED <<setup, row, post, dest, poll>>

\* The finisher archives the requests of a path and queues new ones if any of them failed.
Finish(p) ==
    LET ts == {hop.id : hop \in ToSet(Served(p))}
        over == \A t \in ts : row[t].state = "DONE" \/ row[t].n = MaxAttempts
    IN /\ \A t \in ts : row[t].state \in Ended
       /\ row' = [t \in Transfer |->
              CASE t \notin ts -> row[t]
                [] t \in ts /\ over -> [row[t] EXCEPT !.state = "ARCHIVED"]
                [] OTHER -> [row[t] EXCEPT !.state = "QUEUED", !.n = @ + 1,
                                           !.external = NoJobId]]
       /\ UNCHANGED <<setup, post, job, dest, poll, faults>>

--------------------------------------------------------------------------------
Init ==
    /\ setup \in Setups
    /\ row = [t \in Transfer |->
                 [n |-> 1, external |-> NoJobId, overwrite |-> "unset",
                  state |-> IF \E hop \in Hops : hop.id = t THEN "QUEUED" ELSE "ARCHIVED"]]
    /\ post = [r \in Request |-> NoPost]
    /\ job = [r \in Request |-> NoJob]
    /\ dest \in {d \in [Transfer -> Copy] : \A t \in Transfer : d[t] \in setup.held}
    /\ poll = [r \in Request |-> NoPoll]
    /\ faults = 0

FileNumbers(sid) == IF job[sid] = NoJob THEN {} ELSE DOMAIN job[sid].files

FtsStep(sid) ==
    \/ Arrive(sid)
    \/ \E i \in FileNumbers(sid) :
          CopyFile(sid, i) \/ CopyFails(sid, i) \/ ArchivingEnds(sid, i)

SubmitterStep(sid) ==
    \/ Answered(sid) \/ Unanswered(sid) \/ TimesOut(sid) \/ SubmitterDies(sid)

ReportStep(sid) ==
    \/ PollRows(sid) \/ PollJob(sid) \/ PollApplied(sid) \/ Cancel(sid)
    \/ \E i \in FileNumbers(sid) : Receive(sid, i)

\* Every request has been dealt with.
AllDone == (\A t \in Transfer : row[t].state = "ARCHIVED") /\ UNCHANGED vars

Next ==
    \/ Submit \/ NoStorageToken
    \/ \E sid \in Request : SubmitterStep(sid) \/ FtsStep(sid) \/ ReportStep(sid)
    \/ \E t \in Transfer : ToTape(t)
    \/ \E p \in DOMAIN setup.paths : Finish(p)
    \/ AllDone

Spec == Init /\ [][Next]_vars

\* FTS answers while the connection is open and works through its jobs, tapes are written,
\* the submitter takes its answers and the poller goes on polling.
FtsProgress(sid) ==
    \/ Arrive(sid)
    \/ \E i \in FileNumbers(sid) : CopyFile(sid, i) \/ ArchivingEnds(sid, i)
PollProgress(sid) == PollRows(sid) \/ PollJob(sid) \/ PollApplied(sid)

Fairness ==
    /\ \A sid \in Request : /\ WF_vars(Answered(sid))
                            /\ WF_vars(FtsProgress(sid))
                            /\ WF_vars(PollProgress(sid))
    /\ \A t \in Transfer : WF_vars(ToTape(t))

FairSpec == Spec /\ Fairness

--------------------------------------------------------------------------------
(* Properties                                                              *)

SubFile == [id : Request, sources : Seq(Endpoint), dst : Endpoint,
            checksum : ChecksumName \cup {NoChecksum}, srcTokens : Nat, dstTokens : Nat]

\* Types: the rows, submissions, jobs, copies and answers are what their names say, and a
\* job's id is the id of a request of its own.
TypeOK ==
    /\ setup \in Setups
    /\ row \in [Transfer -> Row]
    /\ \A sid \in Request : post[sid] # NoPost =>
          /\ post[sid].status \in {"sent", "made", "refused", "dropped"}
          /\ {post[sid].open, post[sid].known, post[sid].adrift} \subseteq BOOLEAN
          /\ post[sid].sub.files \in Seq(SubFile)
          /\ sid \in Ids(sid)
    /\ \A sid \in Request : job[sid] # NoJob => job[sid] \in Job
    /\ dest \in [Transfer -> Copy]
    /\ \A sid \in Request : poll[sid] # NoPoll =>
          /\ poll[sid].rows \in SUBSET (Request \X Row)
          /\ poll[sid].answer \in {NoJob, job[sid]} \/ poll[sid].answer \in Job
    /\ faults \in 0..setup.maxFaults

LiveFiles(sid) ==
    {file \in (IF job[sid] = NoJob THEN {} ELSE ToSet(job[sid].files)) :
        file.state \in Active \cup {"NOT_USED"} /\ JobState(job[sid]) \notin FinalJob}

\* A job that may still write a destination is the job of that destination's latest request,
\* which waits for it: nothing is retried or closed while FTS is at work on it (unless Rucio
\* lost the job: a timeout, a dead submitter, or no answer and no expected id).
LiveJobsAreFollowed ==
    \A sid \in Request : post[sid] # NoPost /\ ~post[sid].adrift =>
        \A file \in LiveFiles(sid) :
            LET t == file.id[1]
            IN /\ CurrentId(t) = file.id
               /\ \/ row[t].state = "SUBMITTING"
                  \/ row[t].state = "SUBMITTED" /\ row[t].external = sid

\* A request Rucio takes for done has put a whole file at its destination, on tape where the
\* archiving was to be waited for (unless a job Rucio lost wrote there since).
DoneMeansThere ==
    \A t \in Transfer : row[t].state = "DONE" =>
        \/ /\ dest[t].content = "good"
           /\ (IsTape(t) /\ job[row[t].external].archive) => dest[t].onTape
        \/ \E sid \in Request : /\ post[sid] # NoPost /\ post[sid].adrift
                                /\ t \in {id[1] : id \in Ids(sid)}

\* A whole file on a tape that does not allow overwriting stays, unless its own request has
\* found the destination corrupted: not by another transfer's flags, nor by another hop's.
TapeCopyKept ==
    [][\A t \in Transfer :
          /\ dest[t].content = "good" /\ dest[t].onTape
          /\ IsTape(t) /\ ~AllowsOverwrite(t) /\ row[t].overwrite # "yes"
          => dest'[t] = dest[t]]_vars

\* A side FTS is told to verify.
Verified(strategy, side) == strategy \in {"both", side}

\* No file is submitted with a check one of its ends cannot make (PATH_CHECKSUM_VALIDATION_STRATEGY
\* and its comment), where the first source stands for all sources.
ChecksAreSupported ==
    \A sid \in Request : post[sid] # NoPost =>
        \A file \in ToSet(post[sid].sub.files) :
            LET strategy == post[sid].sub.params.verify
                asked == {file.checksum} \ {NoChecksum}
            IN /\ Verified(strategy, "source") =>
                     LET can == Available(file.sources[1].rse)
                     IN can # {} /\ asked \subseteq can
               /\ Verified(strategy, "target") =>
                     LET can == Available(file.dst.rse)
                     IN can # {} /\ asked \subseteq can

MixedSources(file) ==
    \E e, f \in ToSet(file.sources) : e.scheme = "s3s" /\ f.scheme # "s3s"

\* FTS refuses no job Rucio builds, but for the cases where the two programs are known to
\* disagree, or are configured so.
RefusedForCause ==
    \A sid \in Request : post[sid] # NoPost /\ post[sid].status = "refused" =>
        LET sub == post[sid].sub
        IN \/ sub.params.unmanaged /\ ~setup.fts.allowUnmanaged
           \/ sub.params.multihop /\ \E file \in ToSet(sub.files) : Len(file.sources) > 1
           \/ /\ sub.params.onlyOnDisk
              /\ \/ sub.params.overwrite \/ sub.params.archive = 0
                 \/ \E file \in ToSet(sub.files) : file.dst.scheme \notin {"https", "davs", "mock"}
           \/ sub.oauth2 /\ ClaimsRefused(setup.fts.claims, setup.fts)
           \/ sub.oauth2 /\ \E file \in ToSet(sub.files) :
                 \/ MixedSources(file)
                 \/ \E e \in ToSet(file.sources) \cup {file.dst} : e.scheme = "s3s"
                    /\ (faults > 0 \/ ~e.rse.keyed)

\* Liveness: a request given to FTS is not waited for for ever.
EveryRequestEnds ==
    \A t \in Transfer :
        row[t].state \in {"SUBMITTING", "SUBMITTED"}
            ~> row[t].state \notin {"SUBMITTING", "SUBMITTED"}

\* The steps of requests are those of RequestLifecycle: in particular no result is reversed by
\* a report that is late, stale or told twice.
PhaseOf(state) ==
    CASE state = "QUEUED" -> "waiting"
      [] state \in {"SUBMITTING", "SUBMITTED"} -> "given"
      [] state \in {"SUBMISSION_FAILED", "LOST"} -> "lost"
      [] state = "DONE" -> "done"
      [] state = "FAILED" -> "failed"
      [] OTHER -> "closed"

Lifecycle == INSTANCE RequestLifecycle WITH
    phase <- [t \in Transfer |-> PhaseOf(row[t].state)],
    tries <- [t \in Transfer |-> row[t].n]

ImplementsLifecycle == Lifecycle!LifecycleSpec

\* "for multi-source transfers we must wait for the job to be in a final state" (fts3.py).
MultiSourceWaits ==
    \A t \in Transfer : row[t].state = "FAILED" /\ row[t].external # NoJobId =>
        LET j == job[row[t].external] IN j.multi => JobState(j) \in FinalJob

===============================================================================
