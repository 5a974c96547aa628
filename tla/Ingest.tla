------------------------------- MODULE Ingest -------------------------------
(***************************************************************************)
(* The R2 -> Postgres ingest of backend/ingest.py: runs that list a bucket,*)
(* fetch and parse what changed, mirror it into files and records, and     *)
(* rebuild the tables derived from records.                                *)
(*                                                                         *)
(* Runs may overlap: app.py schedules a start-up run and an hourly one as  *)
(* two jobs, and POST /admin/ingest starts a third, with no lock between   *)
(* them.  Each database transaction and each GET is one atomic step; the   *)
(* bucket changes under a run at any point.                                *)
(*                                                                         *)
(* A key is a wire.jsonl object.  Keys are numbers so that their order is  *)
(* the order of file_key.  A version of an object stands for its bytes,    *)
(* and its number for its ETag: transcripts are append-only files that are *)
(* uploaded again as they grow, so no ETag ever comes back.                *)
(***************************************************************************)
EXTENDS Integers, Sequences, FiniteSets

CONSTANTS
  Key,         \* the wire.jsonl keys
  MaxVersion,  \* bound: uploads of one key
  MaxParser,   \* bound: largest PARSER_VERSION deployed
  NoUuid,      \* the uuid column of a record without message id
  Body,        \* Body[k][v]: what version v of key k contains
  Runner,      \* the triggers that can run at the same time
  Chunk,       \* workers * 4, the files of one batch
  MaxFaults    \* bound: faults injected in one behaviour

ASSUME KeyAssumption == Key \subseteq Nat
ASSUME BoundAssumption ==
  /\ MaxVersion \in Nat \ {0} /\ MaxParser \in Nat \ {0}
  /\ Chunk \in Nat \ {0} /\ MaxFaults \in Nat

Version == 1 .. MaxVersion
Parser  == 1 .. MaxParser

(* uuids: the message id of each record, by line; since: the first parser  *)
(* version that understands the format; corrupt: the payload cannot be     *)
(* inflated or parsed by any.                                              *)
ASSUME BodyAssumption ==
  \A k \in Key, v \in Version :
    /\ Body[k][v].corrupt \in BOOLEAN
    /\ Body[k][v].since \in Nat
    /\ DOMAIN Body[k][v].uuids \subseteq Nat

VARIABLES
  latest,      \* R2: the newest version of each key ever uploaded
  present,     \* R2: the keys the bucket holds now
  parser,      \* PARSER_VERSION of the running process
  files,       \* table files; the body stands for the key's records, tool uses
  canonical,   \* table records: the rows with is_canonical = TRUE
  rollup,      \* the three rollup tables
  booked,      \* ingest_runs: how the run that finished last was booked
  unpublished, \* has what readers can query changed since invalidate()?
  gone,        \* observed: keys missing from R2 at some time since their row was written
  faults,      \* faults injected so far
  pc,          \* of each run: what it does next
  existing,    \* of each run: _existing_files()
  listed,      \* of each run: the listed ETags, 0 for a key not listed
  todo,        \* of each run: _Plan.todo, as far as not yet in a batch
  batch,       \* of each run: the chunk in hand
  got,         \* of each run: what fetching each key yielded
  changed,     \* of each run: _Counts.data_changed
  emptied,     \* of each run: the DELETE of the rebuild in progress has run
  missed       \* of each run: rows of its table committed after that DELETE

bucket   == <<latest, present>>
tables   == <<files, canonical, rollup>>
signals  == <<booked, unpublished, gone>>
plan     == <<existing, listed, todo>>
work     == <<batch, got, changed>>
rebuild  == <<emptied, missed>>
vars == <<bucket, parser, tables, signals, faults, pc, plan, work, rebuild>>

(***************************************************************************)
(* Rows and derived tables                                                 *)
(***************************************************************************)
Table == {"usage", "tool", "latency"}

NoFile == [etag |-> 0, body |-> 0, parser |-> 0]
Row    == {NoFile} \cup [etag : Version, body : Version, parser : Parser]
RecordRow == Key \X Nat

(* The record rows that a parse of version v of key k yields.              *)
RecordsOf(k, v) == {<<k, n>> : n \in DOMAIN Body[k][v].uuids}

StoredIn(f)  == {k \in Key : f[k] # NoFile}
RecordsIn(f) == UNION {RecordsOf(k, f[k].body) : k \in StoredIn(f)}
UuidIn(f, r) == Body[r[1]][f[r[1]].body].uuids[r[2]]

Before(r, s) == r[1] < s[1] \/ (r[1] = s[1] /\ r[2] < s[2])

(* The row kept for each uuid: the first by file_key and line_num.  Rows   *)
(* without a uuid are all kept.                                            *)
CanonicalIn(f) ==
  {r \in RecordsIn(f) :
     \/ UuidIn(f, r) = NoUuid
     \/ \A s \in RecordsIn(f) : UuidIn(f, s) = UuidIn(f, r) => ~ Before(s, r)}

(* What a rebuild of table t reads: only usage_rollup filters on           *)
(* is_canonical.                                                           *)
Source(t) == IF t = "usage" THEN canonical ELSE RecordsIn(files)

(* The outcome of parsing version v of key k with parser version p.        *)
ParseOutcome(k, v, p) ==
  IF Body[k][v].corrupt THEN "failed"
  ELSE IF Body[k][v].since > p THEN "skipped" ELSE "parsed"

(***************************************************************************)
(* Runs                                                                    *)
(***************************************************************************)
Phase == {"idle", "existing", "scan", "plan", "fetch", "persist", "orphans",
          "finish", "fatal", "canonical", "usage", "tool", "latency", "publish"}

Pending == [outcome |-> "pending", version |-> 0]
Failed  == [outcome |-> "failed", version |-> 0]
Result  == [outcome : {"pending", "parsed", "failed", "skipped"},
            version : 0 .. MaxVersion]

NoRows    == [k \in Key |-> NoFile]
NoListing == [k \in Key |-> 0]
NoResults == [k \in Key |-> Pending]

(* Every variable keeps its type; derived tables hold rows a file can have. *)
TypeOK ==
  /\ latest \in [Key -> 0 .. MaxVersion]
  /\ present \subseteq Key
  /\ parser \in Parser
  /\ files \in [Key -> Row]
  /\ canonical \subseteq RecordRow
  /\ rollup \in [Table -> SUBSET RecordRow]
  /\ booked \in {"none", "clean", "partial", "fatal"}
  /\ unpublished \in BOOLEAN
  /\ gone \subseteq Key
  /\ faults \in 0 .. MaxFaults
  /\ pc \in [Runner -> Phase]
  /\ existing \in [Runner -> [Key -> Row]]
  /\ listed \in [Runner -> [Key -> 0 .. MaxVersion]]
  /\ todo \in [Runner -> SUBSET Key]
  /\ batch \in [Runner -> SUBSET Key]
  /\ got \in [Runner -> [Key -> Result]]
  /\ changed \in [Runner -> BOOLEAN]
  /\ emptied \in [Runner -> BOOLEAN]
  /\ missed \in [Runner -> SUBSET RecordRow]

Init ==
  /\ latest = NoListing
  /\ present = {}
  /\ parser = 1
  /\ files = NoRows
  /\ canonical = {}
  /\ rollup = [t \in Table |-> {}]
  /\ booked = "none"
  /\ unpublished = FALSE
  /\ gone = {}
  /\ faults = 0
  /\ pc = [r \in Runner |-> "idle"]
  /\ existing = [r \in Runner |-> NoRows]
  /\ listed = [r \in Runner |-> NoListing]
  /\ todo = [r \in Runner |-> {}]
  /\ batch = [r \in Runner |-> {}]
  /\ got = [r \in Runner |-> NoResults]
  /\ changed = [r \in Runner |-> FALSE]
  /\ emptied = [r \in Runner |-> FALSE]
  /\ missed = [r \in Runner |-> {}]

Fault == faults < MaxFaults /\ faults' = faults + 1

Goes(r, from, to) == pc[r] = from /\ pc' = [pc EXCEPT ![r] = to]

(* The runs of R are over, or were cut short: nothing local to them stays. *)
Forget(R, to) ==
  /\ pc' = [r \in Runner |-> IF r \in R THEN to ELSE pc[r]]
  /\ existing' = [r \in Runner |-> IF r \in R THEN NoRows ELSE existing[r]]
  /\ listed' = [r \in Runner |-> IF r \in R THEN NoListing ELSE listed[r]]
  /\ todo' = [r \in Runner |-> IF r \in R THEN {} ELSE todo[r]]
  /\ batch' = [r \in Runner |-> IF r \in R THEN {} ELSE batch[r]]
  /\ got' = [r \in Runner |-> IF r \in R THEN NoResults ELSE got[r]]
  /\ changed' = [r \in Runner |-> IF r \in R THEN FALSE ELSE changed[r]]
  /\ emptied' = [r \in Runner |-> IF r \in R THEN FALSE ELSE emptied[r]]
  /\ missed' = [r \in Runner |-> IF r \in R THEN {} ELSE missed[r]]

(***************************************************************************)
(* The bucket and the process                                              *)
(***************************************************************************)
Upload(k) ==
  /\ latest[k] < MaxVersion
  /\ latest' = [latest EXCEPT ![k] = @ + 1]
  /\ present' = present \cup {k}
  /\ UNCHANGED <<parser, tables, signals, faults, pc, plan, work, rebuild>>

Remove(k) ==
  /\ k \in present
  /\ present' = present \ {k}
  /\ gone' = gone \cup {k}
  /\ UNCHANGED <<latest, parser, tables, booked, unpublished, faults, pc, plan,
                 work, rebuild>>

(* The process dies, with every run in it and the response cache, and      *)
(* comes back, perhaps as a deployment with a newer parser.                *)
Restart ==
  /\ Fault
  /\ parser' \in {parser, parser + 1} \cap Parser
  /\ Forget(Runner, "idle")
  /\ unpublished' = FALSE
  /\ UNCHANGED <<bucket, tables, booked, gone>>

(***************************************************************************)
(* One run: the pass over the bucket                                       *)
(***************************************************************************)
Start(r) ==
  /\ Goes(r, "idle", "existing")
  /\ UNCHANGED <<bucket, parser, tables, signals, faults, plan, work, rebuild>>

ExistingFiles(r) ==
  /\ Goes(r, "existing", "scan")
  /\ existing' = [existing EXCEPT ![r] = files]
  /\ UNCHANGED <<bucket, parser, tables, signals, faults, listed, todo, work, rebuild>>

Listing == [k \in Key |-> IF k \in present THEN latest[k] ELSE 0]

(* A listed key needs no work when its row has the listed ETag and was     *)
(* written by this parser version.                                         *)
UpToDateAnyParser(row, etag) == row.etag = etag           \* mutant
UpToDateOnceStored(row, etag) == row.etag # 0             \* mutant
UpToDate(row, etag) == row.etag = etag /\ row.parser = parser

ScanAndPlan(r) ==
  /\ Goes(r, "scan", "plan")
  /\ listed' = [listed EXCEPT ![r] = Listing]
  /\ todo' = [todo EXCEPT ![r] =
       {k \in present : ~ UpToDate(existing[r][k], latest[k])}]
  /\ existing' = [existing EXCEPT ![r] = NoRows]
  /\ UNCHANGED <<bucket, parser, tables, signals, faults, work, rebuild>>

TakeBatch(r) ==
  /\ Goes(r, "plan", "fetch")
  /\ \E B \in SUBSET todo[r] :
       /\ B # {}
       /\ Cardinality(B) = Chunk \/ (Cardinality(B) < Chunk /\ B = todo[r])
       /\ batch' = [batch EXCEPT ![r] = B]
       /\ todo' = [todo EXCEPT ![r] = @ \ B]
  /\ UNCHANGED <<bucket, parser, tables, signals, faults, existing, listed, got,
                 changed, rebuild>>

NoWorkLeft(r) ==
  /\ Goes(r, "plan", "orphans")
  /\ todo[r] = {}
  /\ UNCHANGED <<bucket, parser, tables, signals, faults, plan, work, rebuild>>

(* What a GET and parse of k yields now.  A key that has left the bucket   *)
(* answers with a ClientError or OSError, which is a per-object failure.   *)
FetchedNow(k) ==
  IF k \in present
  THEN [outcome |-> ParseOutcome(k, latest[k], parser), version |-> latest[k]]
  ELSE Failed

(* The batch is persisted only when every fetch of it has resolved.        *)
Resolve(r, k, result) ==
  /\ k \in batch[r]
  /\ got[r][k] = Pending
  /\ got' = [got EXCEPT ![r] = [@ EXCEPT ![k] = result]]
  /\ Goes(r, "fetch", IF \A j \in batch[r] \ {k} : got[r][j] # Pending
                      THEN "persist" ELSE "fetch")
  /\ UNCHANGED <<bucket, parser, tables, signals, plan, batch, changed, rebuild>>

Fetch(r, k) == Resolve(r, k, FetchedNow(k)) /\ UNCHANGED faults

(* Three attempts in a row failed on a transient error.                    *)
FetchFails(r, k) == Resolve(r, k, Failed) /\ Fault

(* The file's row carries the LISTED ETag beside what the fetch returned.  *)
NewestEtagRow(r, k) ==                                    \* mutant
  [etag |-> latest[k], body |-> got[r][k].version, parser |-> parser]
FiledRow(r, k) ==
  [etag |-> listed[r][k], body |-> got[r][k].version, parser |-> parser]

ItemDone(r, k) ==
  /\ k \in batch[r]
  /\ batch' = [batch EXCEPT ![r] = @ \ {k}]
  /\ Goes(r, "persist", IF batch[r] = {k} THEN "plan" ELSE "persist")
  /\ UNCHANGED <<bucket, parser, rollup, booked, faults, plan, got, rebuild>>

(* One transaction; the record rows are new, so is_canonical is TRUE.      *)
Persist(r, k) ==
  /\ ItemDone(r, k)
  /\ got[r][k].outcome = "parsed"
  /\ files' = [files EXCEPT ![k] = FiledRow(r, k)]
  /\ canonical' = {row \in canonical : row[1] # k} \cup RecordsOf(k, got[r][k].version)
  /\ changed' = [changed EXCEPT ![r] = TRUE]
  /\ unpublished' = TRUE
  /\ gone' = (gone \ {k}) \cup ({k} \ present)

(* A failure is booked, an unsupported transcript is counted as skipped;   *)
(* neither touches the database.                                           *)
PassOver(r, k) ==
  /\ ItemDone(r, k)
  /\ got[r][k].outcome \in {"failed", "skipped"}
  /\ UNCHANGED <<files, canonical, changed, unpublished, gone>>

With(r, outcomes) == {k \in Key : got[r][k].outcome \in outcomes}

(* Every row whose key this run's listing did not contain is deleted.      *)
SeenUnlessFailed(r) ==                                    \* mutant
  {k \in Key : listed[r][k] # 0} \ With(r, {"failed"})
SeenKeys(r) == {k \in Key : listed[r][k] # 0}

OrphansUnlessEmpty(r) ==                                  \* mutant
  IF SeenKeys(r) = {} THEN {} ELSE StoredIn(files) \ SeenKeys(r)
Orphans(r) == StoredIn(files) \ SeenKeys(r)

(* CASCADE takes the records and tool uses along with the files row.       *)
WithoutCascade(row) == [row EXCEPT !.etag = 0]            \* mutant
Deleted(row) == NoFile

DeletionsUncounted(r) == FALSE                            \* mutant
CountsDeletions(r) == Orphans(r) # {}

DeleteOrphans(r) ==
  /\ Goes(r, "orphans", "finish")
  /\ files' = [k \in Key |-> IF k \in Orphans(r) THEN Deleted(files[k]) ELSE files[k]]
  /\ canonical' = {row \in canonical : row[1] \notin Orphans(r)}
  /\ unpublished' = (unpublished \/ Orphans(r) # {})
  /\ changed' = [changed EXCEPT ![r] = @ \/ CountsDeletions(r)]
  /\ UNCHANGED <<bucket, parser, rollup, booked, gone, faults, plan, batch, got, rebuild>>

(* A whole-run exception: a listing that fails, a fetch that is broken, a  *)
(* transaction that raises.  The counts of the run are lost.               *)
Abort(r) ==
  /\ Fault
  /\ pc[r] \in {"existing", "scan", "plan", "fetch", "persist", "orphans"}
  /\ Forget({r}, "fatal")
  /\ UNCHANGED <<bucket, parser, tables, signals>>

(***************************************************************************)
(* One run: booking and the post-passes                                    *)
(***************************************************************************)
FinishRun(r) ==
  /\ Goes(r, "finish", "canonical")
  /\ booked' = IF With(r, {"failed"}) = {} THEN "clean" ELSE "partial"
  /\ UNCHANGED <<bucket, parser, tables, unpublished, gone, faults, plan, work, rebuild>>

(* A fatal run is booked and returns: no post-pass, nothing is published.  *)
FinishFatalRun(r) ==
  /\ Goes(r, "fatal", "idle")
  /\ booked' = "fatal"
  /\ UNCHANGED <<bucket, parser, tables, unpublished, gone, faults, plan, work, rebuild>>

DemotedOnly == canonical \cap CanonicalIn(files)          \* mutant
Reflagged == CanonicalIn(files)

RecomputeCanonical(r) ==
  /\ Goes(r, "canonical", "usage")
  /\ canonical' = Reflagged
  /\ unpublished' = (unpublished \/ canonical' # canonical)
  /\ UNCHANGED <<bucket, parser, files, rollup, booked, gone, faults, plan, work, rebuild>>

AfterRebuild(t) == CASE t = "usage"   -> "tool"
                     [] t = "tool"    -> "latency"
                     [] t = "latency" -> "publish"

(* A rebuild is DELETE, then INSERT ... SELECT, in one READ COMMITTED      *)
(* transaction: the DELETE removes the rows committed when it starts.  Of  *)
(* two overlapping rebuilds the one that gets the row locks commits first. *)
RebuildDelete(r, t) ==
  /\ Goes(r, t, t)
  /\ ~ emptied[r]
  /\ emptied' = [emptied EXCEPT ![r] = TRUE]
  /\ UNCHANGED <<bucket, parser, tables, signals, faults, plan, work, missed>>

(* Rows of one file keep their hour, model and tool from version to        *)
(* version, so two rebuilds write the same primary key when both aggregate *)
(* rows of one file.                                                       *)
FilesOf(rows) == {row[1] : row \in rows}
Collides(r, t) == FilesOf(missed[r]) \cap FilesOf(Source(t)) # {}

RebuildInsert(r, t) ==
  /\ Goes(r, t, AfterRebuild(t))
  /\ emptied[r]
  /\ ~ Collides(r, t)
  /\ rollup' = [rollup EXCEPT ![t] = Source(t) \cup missed[r]]
  /\ unpublished' = (unpublished \/ rollup' # rollup)
  /\ emptied' = [emptied EXCEPT ![r] = FALSE]
  /\ missed' = [q \in Runner |->
       IF q = r THEN {}
       ELSE IF pc[q] = t /\ emptied[q]
       THEN (missed[q] \cap missed[r]) \cup Source(t)
       ELSE missed[q]]
  /\ UNCHANGED <<bucket, parser, files, canonical, booked, gone, faults, plan, work>>

(* The INSERT meets a row that another rebuild committed after this one's  *)
(* DELETE: the unique violation escapes run_ingest, which publishes        *)
(* nothing.                                                                *)
RebuildCollides(r, t) ==
  /\ pc[r] = t
  /\ emptied[r]
  /\ Collides(r, t)
  /\ Forget({r}, "idle")
  /\ UNCHANGED <<bucket, parser, tables, signals, faults>>

(* A post-pass raises outside the try block of run_ingest.                 *)
PostPassFails(r) ==
  /\ Fault
  /\ pc[r] \in {"finish", "fatal", "canonical"} \cup Table
  /\ Forget({r}, "idle")
  /\ UNCHANGED <<bucket, parser, tables, signals>>

(* invalidate() and the ingest_done broadcast, only when this run changed  *)
(* files; warm_common() only fills the cache.                              *)
Publish(r) ==
  /\ pc[r] = "publish"
  /\ unpublished' = (unpublished /\ ~ changed[r])
  /\ Forget({r}, "idle")
  /\ UNCHANGED <<bucket, parser, tables, booked, gone, faults>>

(***************************************************************************)
(* Specification                                                           *)
(***************************************************************************)
Progress(r) ==
  \/ ExistingFiles(r) \/ ScanAndPlan(r) \/ TakeBatch(r) \/ NoWorkLeft(r)
  \/ \E k \in Key : Fetch(r, k) \/ Persist(r, k) \/ PassOver(r, k)
  \/ DeleteOrphans(r)
  \/ FinishRun(r) \/ FinishFatalRun(r) \/ RecomputeCanonical(r)
  \/ \E t \in Table : RebuildDelete(r, t) \/ RebuildInsert(r, t) \/ RebuildCollides(r, t)
  \/ Publish(r)

Breaks(r) ==
  \/ \E k \in Key : FetchFails(r, k)
  \/ Abort(r)
  \/ PostPassFails(r)

Next ==
  \/ \E k \in Key : Upload(k) \/ Remove(k)
  \/ \E r \in Runner : Start(r) \/ Progress(r) \/ Breaks(r)
  \/ Restart

(* The scheduler starts the hourly run for as long as the process lives,   *)
(* and a run in progress goes on.  Nothing obliges the bucket to change or *)
(* a fault to happen.                                                      *)
Fairness == \A r \in Runner : WF_vars(Start(r)) /\ WF_vars(Progress(r))

Spec     == Init /\ [][Next]_vars
FairSpec == Spec /\ Fairness

(***************************************************************************)
(* Properties                                                              *)
(***************************************************************************)

(* _plan_work skips a file on the strength of its stored ETag alone.  That *)
(* is sound when a row whose ETag is still the bucket's holds the bytes of *)
(* that ETag, although _persist writes the ETag of the listing beside a    *)
(* body fetched later, and other runs write the same row.                  *)
SkipIsSound ==
  \A k \in present : files[k].etag = latest[k] => files[k].body = latest[k]

(* What makes SkipIsSound inductive, whatever runs overlap, is the three   *)
(* parts that follow.  The work of a run is a part of its listing.         *)
WorkIsListed ==
  /\ \A k \in present : latest[k] # 0
  /\ \A r \in Runner : todo[r] \cup batch[r] \subseteq SeenKeys(r)

(* A run that has fetched nothing yet carries over no result of an earlier *)
(* one.                                                                    *)
RunsStartFresh ==
  \A r \in Runner : pc[r] \in {"idle", "existing", "scan", "fatal"} =>
    batch[r] = {} /\ got[r] = NoResults

(* A body is never older than the ETag filed with it, in the table files   *)
(* and in the hands of every run.                                          *)
EtagBehindBody ==
  /\ \A k \in Key : /\ files[k].etag <= files[k].body
                     /\ files[k].body <= latest[k]
  /\ \A r \in Runner, k \in Key :
       /\ listed[r][k] <= latest[k]
       /\ got[r][k].outcome = "parsed" =>
            /\ listed[r][k] <= got[r][k].version
            /\ got[r][k].version <= latest[k]

(* The inductive invariant of the ingest, from which SkipIsSound follows.  *)
IInv == TypeOK /\ WorkIsListed /\ RunsStartFresh /\ EtagBehindBody

(* At the end of a run the tables mirror its listing: each listed file is  *)
(* stored as listed or newer, or booked as failed or skipped; nothing else *)
(* is stored; and what is stored was understood by the parser that wrote   *)
(* it.  Holds without overlapping runs.                                    *)
CompletedRunMirrors ==
  \A r \in Runner : pc[r] \in {"finish", "publish"} =>
    /\ StoredIn(files) \subseteq SeenKeys(r)
    /\ \A k \in SeenKeys(r) \ With(r, {"failed", "skipped"}) :
         files[k].etag >= listed[r][k] /\ files[k].parser = parser
    /\ \A k \in StoredIn(files) :
         ParseOutcome(k, files[k].body, files[k].parser) = "parsed"

(* is_canonical keeps exactly the first row of each uuid, and each rollup  *)
(* sums exactly the rows it is defined over.                               *)
Derived ==
  /\ canonical = CanonicalIn(files)
  /\ \A t \in Table : rollup[t] = Source(t)

(* The post-passes leave the derived tables describing records, in the     *)
(* order run_ingest makes them ("the rollup reads is_canonical").          *)
DerivedWhenPublished == \A r \in Runner : pc[r] = "publish" => Derived

(* A run that ends normally leaves no change of the database that the      *)
(* response cache still serves as fresh and that no client was told of     *)
(* ("Data changed: mark the response cache stale, then notify connected    *)
(* SSE clients").                                                          *)
CompletedRunPublishes ==
  [][\A r \in Runner : Publish(r) => ~ unpublished']_vars

(* So it is as long as no run has been cut short.                          *)
UnbrokenRunsPublish ==
  [][faults = 0 => \A r \in Runner : Publish(r) => ~ unpublished']_vars

(* A stored file disappears only if its key did leave the bucket since the *)
(* row was written ("Orphan files (R2 key gone) are deleted").             *)
OnlyOrphansDeleted ==
  [][\A k \in Key : files[k] # NoFile /\ files'[k] = NoFile => k \in gone]_vars

(* The tables hold each readable object of the bucket as it is, no object  *)
(* that is gone, and the derived tables fit.                               *)
Consistent ==
  /\ \A k \in Key \ present : files[k] = NoFile
  /\ \A k \in present : ParseOutcome(k, latest[k], parser) = "parsed" =>
       files[k] = [etag |-> latest[k], body |-> latest[k], parser |-> parser]
  /\ Derived

(* Once the bucket rests and faults cease, the hourly runs make the        *)
(* database consistent and keep it so, also when runs overlap.             *)
EventuallyConsistent == <>[]Consistent

(***************************************************************************)
(* One run at a time                                                       *)
(***************************************************************************)
(* The hourly job by itself: nothing keeps the start-up job and the manual *)
(* trigger from overlapping with it.                                       *)
Alone == \A q, r \in Runner : q = r

(* Phases between the listing and the deletion of orphans, and after it.   *)
Passing == {"plan", "fetch", "persist", "orphans"}
Booked  == {"finish", "canonical", "publish"} \cup Table

(* Only what was understood is fetched for the tables, and stored there;   *)
(* and a stored key that is not in the bucket was seen to leave it.        *)
StoredAsParsed ==
  /\ \A k \in StoredIn(files) : ParseOutcome(k, files[k].body, files[k].parser) = "parsed"
  /\ \A r \in Runner, k \in Key :
       got[r][k].outcome = "parsed" => ParseOutcome(k, got[r][k].version, parser) = "parsed"
  /\ StoredIn(files) \subseteq present \cup gone

(* A key is planned, taken into one batch, fetched and done with.          *)
OneThingAfterAnother ==
  \A r \in Runner :
    /\ pc[r] = "scan" => existing[r] = files
    /\ pc[r] \notin {"plan", "fetch", "persist"} => todo[r] = {}
    /\ pc[r] \notin {"fetch", "persist"} => batch[r] = {}
    /\ \A k \in todo[r] : k \notin batch[r] /\ got[r][k] = Pending

(* What is not listed has gone and is deleted in the end; what is listed   *)
(* and done with is stored as listed or newer; and what is fetched is not  *)
(* older than what is stored.                                              *)
MirrorsListing ==
  \A r \in Runner :
    /\ pc[r] \in Passing => StoredIn(files) \subseteq SeenKeys(r) \cup gone
    /\ pc[r] \in Booked => StoredIn(files) \subseteq SeenKeys(r)
    /\ pc[r] \in Passing \cup Booked =>
         \A k \in SeenKeys(r) \ (todo[r] \cup batch[r] \cup With(r, {"failed", "skipped"})) :
           files[k].etag >= listed[r][k] /\ files[k].parser = parser
    /\ \A k \in batch[r] : got[r][k].outcome = "parsed" => files[k].body <= got[r][k].version

(* The derived tables are brought up to date one after another; a run that *)
(* has changed nothing finds them so, unless one before it was cut short.  *)
DerivedInOrder ==
  \A r \in Runner :
    /\ missed[r] = {}
    /\ pc[r] \in {"publish"} \cup Table => canonical = CanonicalIn(files)
    /\ pc[r] \in {"tool", "latency", "publish"} => rollup["usage"] = Source("usage")
    /\ pc[r] \in {"latency", "publish"} => rollup["tool"] = Source("tool")
    /\ pc[r] = "publish" => rollup["latency"] = Source("latency")
    /\ faults = 0 /\ ~ changed[r] => Derived /\ ~ unpublished

(* The inductive invariant of runs that do not overlap: from it follow the *)
(* mirror, the derived tables and publication.                             *)
AloneInv ==
  IInv /\ StoredAsParsed /\ OneThingAfterAnother /\ MirrorsListing /\ DerivedInOrder

(* The ingest shows readers a mirror of the bucket.                        *)
Mirror == INSTANCE BucketMirror WITH shown <- [k \in Key |-> files[k].body]
MirrorSpec == Mirror!Spec
=============================================================================
