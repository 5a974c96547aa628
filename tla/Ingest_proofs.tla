---------------------------- MODULE Ingest_proofs ----------------------------
(***************************************************************************)
(* Proofs about Ingest, for every bucket, number of overlapping runs and   *)
(* bound on faults; and, in the second half, what the ingest promises when *)
(* its runs do not overlap: readers see a mirror of the bucket, a run that *)
(* completes mirrors its listing and leaves the derived tables right, and  *)
(* one before the first fault publishes what it has changed.               *)
(***************************************************************************)
EXTENDS Ingest, TLAPS

(* A parse of any version yields rows of the records table.                *)
LEMMA RecordsTyped ==
  ASSUME NEW k \in Key, NEW v \in Version
  PROVE  RecordsOf(k, v) \subseteq RecordRow
BY BodyAssumption DEF RecordsOf, RecordRow

(* So does what is stored, when the tables have their types.               *)
LEMMA StoredTyped ==
  ASSUME files \in [Key -> Row]
  PROVE  RecordsIn(files) \subseteq RecordRow /\ CanonicalIn(files) \subseteq RecordRow
<1>1. \A k \in StoredIn(files) : k \in Key /\ files[k].body \in Version
  BY DEF StoredIn, Row, NoFile
<1>2. \A k \in StoredIn(files) : RecordsOf(k, files[k].body) \subseteq RecordRow
  BY <1>1, RecordsTyped
<1>3. RecordsIn(files) \subseteq RecordRow
  BY <1>2 DEF RecordsIn
<1>4. QED
  BY <1>3 DEF CanonicalIn

(* The local state of a run that does nothing has its type.                *)
LEMMA IdleTyped ==
  /\ NoRows \in [Key -> Row]
  /\ NoListing \in [Key -> 0 .. MaxVersion]
  /\ NoResults \in [Key -> Result]
  /\ Failed \in Result
BY BoundAssumption DEF NoRows, NoListing, NoResults, Row, Result, Pending, Failed

(* Nothing is stored, listed or fetched at first.                         *)
LEMMA InitIInv == Init => IInv
<1> SUFFICES ASSUME Init PROVE IInv
  OBVIOUS
<1>1. TypeOK
  <2>1. /\ parser \in Parser /\ faults \in 0 .. MaxFaults
        /\ latest \in [Key -> 0 .. MaxVersion]
    BY IdleTyped, BoundAssumption DEF Init, Parser
  <2>2. /\ present \subseteq Key /\ gone \subseteq Key /\ canonical \subseteq RecordRow
        /\ files \in [Key -> Row]
        /\ rollup \in [Table -> SUBSET RecordRow]
        /\ booked \in {"none", "clean", "partial", "fatal"}
        /\ unpublished \in BOOLEAN
    BY IdleTyped DEF Init
  <2>3. /\ pc \in [Runner -> Phase]
        /\ changed \in [Runner -> BOOLEAN] /\ emptied \in [Runner -> BOOLEAN]
    BY DEF Init, Phase
  <2>4. /\ existing \in [Runner -> [Key -> Row]]
        /\ listed \in [Runner -> [Key -> 0 .. MaxVersion]]
        /\ got \in [Runner -> [Key -> Result]]
        /\ todo \in [Runner -> SUBSET Key] /\ batch \in [Runner -> SUBSET Key]
        /\ missed \in [Runner -> SUBSET RecordRow]
    BY IdleTyped DEF Init
  <2>5. QED
    BY <2>1, <2>2, <2>3, <2>4 DEF TypeOK
<1>2. WorkIsListed
  BY DEF Init, WorkIsListed
<1>3. EtagBehindBody
  BY DEF Init, EtagBehindBody, NoRows, NoFile, NoListing, NoResults, Pending
<1>4. RunsStartFresh
  BY DEF Init, RunsStartFresh
<1>5. QED
  BY <1>1, <1>2, <1>3, <1>4 DEF IInv

(* What EtagBehindBody says is about numbers.                              *)
LEMMA Numbers ==
  ASSUME TypeOK
  PROVE  /\ \A k \in Key : /\ latest[k] \in Nat
                            /\ files[k].etag \in Nat /\ files[k].body \in Nat
         /\ \A r \in Runner, k \in Key :
              listed[r][k] \in Nat /\ got[r][k].version \in Nat
BY BoundAssumption DEF TypeOK, Row, NoFile, Version, Result

(* A version is added to the bucket.                                       *)
LEMMA UploadStep ==
  ASSUME IInv, NEW k \in Key, Upload(k)
  PROVE  IInv'
<1> USE DEF IInv
<1>1. TypeOK'
  BY BoundAssumption DEF Upload, TypeOK, bucket, tables, signals, plan, work, rebuild
<1>2. WorkIsListed'
  BY BoundAssumption DEF Upload, TypeOK, WorkIsListed, SeenKeys, bucket, tables, signals, plan, work, rebuild
<1>3. EtagBehindBody'
  BY Numbers, BoundAssumption DEF Upload, TypeOK, EtagBehindBody, bucket, tables, signals, plan, work, rebuild
<1>4. RunsStartFresh'
  BY DEF Upload, Goes, RunsStartFresh, TypeOK, bucket, tables, signals, plan, work, rebuild
<1>5. QED
  BY <1>1, <1>2, <1>3, <1>4

(* A key leaves the bucket.                                                *)
LEMMA RemoveStep ==
  ASSUME IInv, NEW k \in Key, Remove(k)
  PROVE  IInv'
<1> USE DEF IInv
<1>1. TypeOK'
  BY DEF Remove, TypeOK, bucket, tables, signals, plan, work, rebuild
<1>2. WorkIsListed'
  BY DEF Remove, WorkIsListed, SeenKeys, bucket, tables, signals, plan, work, rebuild
<1>3. EtagBehindBody'
  BY DEF Remove, EtagBehindBody, bucket, tables, signals, plan, work, rebuild
<1>4. RunsStartFresh'
  BY DEF Remove, Goes, RunsStartFresh, TypeOK, bucket, tables, signals, plan, work, rebuild
<1>5. QED
  BY <1>1, <1>2, <1>3, <1>4

(* A run that ends or is cut short leaves nothing behind.                  *)
LEMMA ForgetTyped ==
  ASSUME TypeOK, NEW R, NEW to \in Phase, Forget(R, to)
  PROVE  /\ pc' \in [Runner -> Phase]
         /\ existing' \in [Runner -> [Key -> Row]]
         /\ listed' \in [Runner -> [Key -> 0 .. MaxVersion]]
         /\ todo' \in [Runner -> SUBSET Key]
         /\ batch' \in [Runner -> SUBSET Key]
         /\ got' \in [Runner -> [Key -> Result]]
         /\ changed' \in [Runner -> BOOLEAN]
         /\ emptied' \in [Runner -> BOOLEAN]
         /\ missed' \in [Runner -> SUBSET RecordRow]
BY IdleTyped DEF TypeOK, Forget

(* Runs that leave nothing behind disturb nothing either.                 *)
LEMMA ForgetStep ==
  ASSUME IInv, NEW R, NEW to \in Phase, Forget(R, to),
         UNCHANGED <<bucket, tables>>
  PROVE  WorkIsListed' /\ RunsStartFresh' /\ EtagBehindBody'
<1> USE DEF IInv
<1>1. WorkIsListed'
  BY DEF WorkIsListed, SeenKeys, Forget, bucket
<1>2. EtagBehindBody'
  <2>1. \A k \in Key : files'[k].etag <= files'[k].body /\ files'[k].body <= latest'[k]
    BY DEF EtagBehindBody, bucket, tables
  <2>2. ASSUME NEW r \in Runner, NEW k \in Key
        PROVE  /\ listed'[r][k] <= latest'[k]
               /\ got'[r][k].outcome = "parsed" =>
                    /\ listed'[r][k] <= got'[r][k].version
                    /\ got'[r][k].version <= latest'[k]
    <3>1. CASE r \in R
      <4>1. listed'[r] = NoListing /\ got'[r] = NoResults
        BY <3>1 DEF Forget
      <4>2. listed'[r][k] = 0 /\ got'[r][k].outcome = "pending"
        BY <4>1 DEF NoListing, NoResults, Pending
      <4>3. QED
        BY <4>2, Numbers DEF bucket
    <3>2. CASE r \notin R
      <4>1. listed'[r] = listed[r] /\ got'[r] = got[r]
        BY <3>2 DEF Forget
      <4>2. QED
        BY <4>1 DEF EtagBehindBody, bucket
    <3>3. QED
      BY <3>1, <3>2
  <2>3. QED
    BY <2>1, <2>2 DEF EtagBehindBody
<1>3. RunsStartFresh'
  BY DEF RunsStartFresh, Forget
<1>4. QED
  BY <1>1, <1>2, <1>3

(* The process restarts.                                                   *)
LEMMA RestartStep ==
  ASSUME IInv, Restart
  PROVE  IInv'
<1> USE DEF IInv
<1>1. TypeOK'
  <2>1. Forget(Runner, "idle") /\ "idle" \in Phase
    BY DEF Restart, Phase
  <2>2. parser' \in Parser /\ unpublished' \in BOOLEAN
    BY DEF Restart
  <2>a. faults' \in 0 .. MaxFaults
    BY BoundAssumption DEF Restart, Fault, TypeOK
  <2>3. QED
    BY <2>1, <2>2, <2>a, ForgetTyped DEF Restart, TypeOK, bucket, tables
<1>2. WorkIsListed'
  BY ForgetStep DEF Restart, Phase
<1>3. EtagBehindBody'
  BY ForgetStep DEF Restart, Phase
<1>4. RunsStartFresh'
  BY ForgetStep DEF Restart, Phase
<1>5. QED
  BY <1>1, <1>2, <1>3, <1>4

(* A run is aborted.                                                       *)
LEMMA AbortStep ==
  ASSUME IInv, NEW r \in Runner, Abort(r)
  PROVE  IInv'
<1> USE DEF IInv
<1>1. TypeOK'
  <2>1. Forget({r}, "fatal") /\ "fatal" \in Phase
    BY DEF Abort, Phase
  <2>2. faults' \in 0 .. MaxFaults /\ unpublished' \in BOOLEAN
    BY BoundAssumption DEF Abort, Fault, TypeOK, signals
  <2>3. QED
    BY <2>1, <2>2, ForgetTyped DEF Abort, TypeOK, bucket, tables, signals
<1>2. WorkIsListed'
  BY ForgetStep DEF Abort, Phase
<1>3. EtagBehindBody'
  BY ForgetStep DEF Abort, Phase
<1>4. RunsStartFresh'
  BY ForgetStep DEF Abort, Phase
<1>5. QED
  BY <1>1, <1>2, <1>3, <1>4

(* A post-pass raises.                                                     *)
LEMMA PostPassStep ==
  ASSUME IInv, NEW r \in Runner, PostPassFails(r)
  PROVE  IInv'
<1> USE DEF IInv
<1>1. TypeOK'
  <2>1. Forget({r}, "idle") /\ "idle" \in Phase
    BY DEF PostPassFails, Phase
  <2>2. faults' \in 0 .. MaxFaults /\ unpublished' \in BOOLEAN
    BY BoundAssumption DEF PostPassFails, Fault, TypeOK, signals
  <2>3. QED
    BY <2>1, <2>2, ForgetTyped DEF PostPassFails, TypeOK, bucket, tables, signals
<1>2. WorkIsListed'
  BY ForgetStep DEF PostPassFails, Phase
<1>3. EtagBehindBody'
  BY ForgetStep DEF PostPassFails, Phase
<1>4. RunsStartFresh'
  BY ForgetStep DEF PostPassFails, Phase
<1>5. QED
  BY <1>1, <1>2, <1>3, <1>4

(* A rebuild meets rows of another one.                                    *)
LEMMA CollisionStep ==
  ASSUME IInv, NEW r \in Runner, NEW t \in Table, RebuildCollides(r, t)
  PROVE  IInv'
<1> USE DEF IInv
<1>1. TypeOK'
  <2>1. Forget({r}, "idle") /\ "idle" \in Phase
    BY DEF RebuildCollides, Phase
  <2>2. faults' \in 0 .. MaxFaults /\ unpublished' \in BOOLEAN
    BY BoundAssumption DEF RebuildCollides, Fault, TypeOK, signals
  <2>3. QED
    BY <2>1, <2>2, ForgetTyped DEF RebuildCollides, TypeOK, bucket, tables, signals
<1>2. WorkIsListed'
  BY ForgetStep DEF RebuildCollides, Phase
<1>3. EtagBehindBody'
  BY ForgetStep DEF RebuildCollides, Phase
<1>4. RunsStartFresh'
  BY ForgetStep DEF RebuildCollides, Phase
<1>5. QED
  BY <1>1, <1>2, <1>3, <1>4

(* A run publishes and ends.                                               *)
LEMMA PublishStep ==
  ASSUME IInv, NEW r \in Runner, Publish(r)
  PROVE  IInv'
<1> USE DEF IInv
<1>1. TypeOK'
  <2>1. Forget({r}, "idle") /\ "idle" \in Phase
    BY DEF Publish, Phase
  <2>2. faults' \in 0 .. MaxFaults /\ unpublished' \in BOOLEAN
    BY BoundAssumption DEF Publish, Fault, TypeOK, signals
  <2>3. QED
    BY <2>1, <2>2, ForgetTyped DEF Publish, TypeOK, bucket, tables, signals
<1>2. WorkIsListed'
  BY ForgetStep DEF Publish, Phase
<1>3. EtagBehindBody'
  BY ForgetStep DEF Publish, Phase
<1>4. RunsStartFresh'
  BY ForgetStep DEF Publish, Phase
<1>5. QED
  BY <1>1, <1>2, <1>3, <1>4

(* A run starts.                                                           *)
LEMMA StartStep ==
  ASSUME IInv, NEW r \in Runner, Start(r)
  PROVE  IInv'
<1> USE DEF IInv
<1>1. TypeOK'
  BY DEF Start, Goes, TypeOK, Phase, bucket, tables, signals, plan, work, rebuild
<1>2. WorkIsListed'
  BY DEF Start, WorkIsListed, SeenKeys, bucket, tables, signals, plan, work, rebuild
<1>3. EtagBehindBody'
  BY DEF Start, EtagBehindBody, bucket, tables, signals, plan, work, rebuild
<1>4. RunsStartFresh'
  BY DEF Start, Goes, RunsStartFresh, TypeOK, bucket, tables, signals, plan, work, rebuild
<1>5. QED
  BY <1>1, <1>2, <1>3, <1>4

(* A run reads the files table.                                            *)
LEMMA ExistingFilesStep ==
  ASSUME IInv, NEW r \in Runner, ExistingFiles(r)
  PROVE  IInv'
<1> USE DEF IInv
<1>1. TypeOK'
  BY DEF ExistingFiles, Goes, TypeOK, Phase, bucket, tables, signals, plan, work, rebuild
<1>2. WorkIsListed'
  BY DEF ExistingFiles, WorkIsListed, SeenKeys, bucket, tables, signals, plan, work, rebuild
<1>3. EtagBehindBody'
  BY DEF ExistingFiles, EtagBehindBody, bucket, tables, signals, plan, work, rebuild
<1>4. RunsStartFresh'
  BY DEF ExistingFiles, Goes, RunsStartFresh, TypeOK, bucket, tables, signals, plan, work, rebuild
<1>5. QED
  BY <1>1, <1>2, <1>3, <1>4

(* A run has no more work.                                                 *)
LEMMA NoWorkLeftStep ==
  ASSUME IInv, NEW r \in Runner, NoWorkLeft(r)
  PROVE  IInv'
<1> USE DEF IInv
<1>1. TypeOK'
  BY DEF NoWorkLeft, Goes, TypeOK, Phase, bucket, tables, signals, plan, work, rebuild
<1>2. WorkIsListed'
  BY DEF NoWorkLeft, WorkIsListed, SeenKeys, bucket, tables, signals, plan, work, rebuild
<1>3. EtagBehindBody'
  BY DEF NoWorkLeft, EtagBehindBody, bucket, tables, signals, plan, work, rebuild
<1>4. RunsStartFresh'
  BY DEF NoWorkLeft, Goes, RunsStartFresh, TypeOK, bucket, tables, signals, plan, work, rebuild
<1>5. QED
  BY <1>1, <1>2, <1>3, <1>4

(* A run is booked.                                                        *)
LEMMA FinishRunStep ==
  ASSUME IInv, NEW r \in Runner, FinishRun(r)
  PROVE  IInv'
<1> USE DEF IInv
<1>1. TypeOK'
  BY DEF FinishRun, Goes, TypeOK, Phase, bucket, tables, signals, plan, work, rebuild
<1>2. WorkIsListed'
  BY DEF FinishRun, WorkIsListed, SeenKeys, bucket, tables, signals, plan, work, rebuild
<1>3. EtagBehindBody'
  BY DEF FinishRun, EtagBehindBody, bucket, tables, signals, plan, work, rebuild
<1>4. RunsStartFresh'
  BY DEF FinishRun, Goes, RunsStartFresh, TypeOK, bucket, tables, signals, plan, work, rebuild
<1>5. QED
  BY <1>1, <1>2, <1>3, <1>4

(* A fatal run is booked.                                                  *)
LEMMA FinishFatalRunStep ==
  ASSUME IInv, NEW r \in Runner, FinishFatalRun(r)
  PROVE  IInv'
<1> USE DEF IInv
<1>1. TypeOK'
  BY DEF FinishFatalRun, Goes, TypeOK, Phase, bucket, tables, signals, plan, work, rebuild
<1>2. WorkIsListed'
  BY DEF FinishFatalRun, WorkIsListed, SeenKeys, bucket, tables, signals, plan, work, rebuild
<1>3. EtagBehindBody'
  BY DEF FinishFatalRun, EtagBehindBody, bucket, tables, signals, plan, work, rebuild
<1>4. RunsStartFresh'
  BY DEF FinishFatalRun, Goes, RunsStartFresh, TypeOK, bucket, tables, signals, plan, work, rebuild
<1>5. QED
  BY <1>1, <1>2, <1>3, <1>4

(* A run lists the bucket and plans its work.                              *)
LEMMA ScanStep ==
  ASSUME IInv, NEW r \in Runner, ScanAndPlan(r)
  PROVE  IInv'
<1> USE DEF IInv
<1>1. TypeOK'
  <2>1. Listing \in [Key -> 0 .. MaxVersion]
    BY BoundAssumption DEF Listing, TypeOK
  <2>2. QED
    BY <2>1, IdleTyped DEF ScanAndPlan, Goes, TypeOK, Phase, bucket, tables, signals, plan, work, rebuild
<1>2. WorkIsListed'
  <2>1. \A k \in present : k \in Key /\ Listing[k] # 0
    BY DEF Listing, TypeOK, WorkIsListed
  <2>2. QED
    BY <2>1 DEF ScanAndPlan, Goes, RunsStartFresh, WorkIsListed, SeenKeys, TypeOK, bucket, tables, signals, plan, work, rebuild
<1>3. EtagBehindBody'
  <2>1. \A k \in Key : Listing[k] <= latest[k] /\ Listing[k] \in Nat
    BY Numbers DEF Listing
  <2>2. \A k \in Key : got[r][k].outcome # "parsed"
    BY DEF ScanAndPlan, Goes, RunsStartFresh, NoResults, Pending
  <2>3. QED
    BY <2>1, <2>2 DEF ScanAndPlan, EtagBehindBody, TypeOK, bucket, tables, signals, plan, work, rebuild
<1>4. RunsStartFresh'
  BY DEF ScanAndPlan, Goes, RunsStartFresh, TypeOK, bucket, tables, signals, plan, work, rebuild
<1>5. QED
  BY <1>1, <1>2, <1>3, <1>4

(* A run takes a chunk of its work.                                        *)
LEMMA TakeBatchStep ==
  ASSUME IInv, NEW r \in Runner, TakeBatch(r)
  PROVE  IInv'
<1> USE DEF IInv
<1>1. TypeOK'
  BY  DEF TakeBatch, Goes, TypeOK, Phase, bucket, tables, signals, plan, work, rebuild
<1>2. WorkIsListed'
  BY  DEF TakeBatch, WorkIsListed, SeenKeys, TypeOK, bucket, tables, signals, plan, work, rebuild
<1>3. EtagBehindBody'
  BY  DEF TakeBatch, EtagBehindBody, bucket, tables, signals, plan, work, rebuild
<1>4. RunsStartFresh'
  BY DEF TakeBatch, Goes, RunsStartFresh, TypeOK, bucket, tables, signals, plan, work, rebuild
<1>5. QED
  BY <1>1, <1>2, <1>3, <1>4

(* What a fetch yields is a result, and a parsed one is the newest version. *)
LEMMA FetchedTyped ==
  ASSUME TypeOK, NEW k \in Key
  PROVE  /\ FetchedNow(k) \in Result
         /\ FetchedNow(k).outcome = "parsed" => FetchedNow(k).version = latest[k]
BY IdleTyped DEF FetchedNow, ParseOutcome, TypeOK, Result, Failed

(* A result that is no older than the listing may be noted.               *)
LEMMA ResolveStep ==
  ASSUME IInv, NEW r \in Runner, NEW k \in Key, NEW result \in Result,
         result.outcome = "parsed" => result.version = latest[k],
         Resolve(r, k, result), faults' \in 0 .. MaxFaults
  PROVE  IInv'
<1> USE DEF IInv
<1>1. TypeOK'
  BY DEF Resolve, Goes, TypeOK, Phase, bucket, tables, signals, plan, work, rebuild
<1>2. WorkIsListed'
  BY DEF Resolve, WorkIsListed, SeenKeys, bucket, tables, signals, plan, work, rebuild
<1>3. RunsStartFresh'
  BY DEF Resolve, Goes, RunsStartFresh, TypeOK, bucket, tables, signals, plan, work, rebuild
<1>4. EtagBehindBody'
  BY Numbers DEF Resolve, EtagBehindBody, TypeOK, bucket, tables, signals, plan, work, rebuild
<1>5. QED
  BY <1>1, <1>2, <1>3, <1>4

(* A GET and parse, or one that fails, keeps the invariant.               *)
LEMMA FetchStep ==
  ASSUME IInv, NEW r \in Runner, NEW k \in Key, Fetch(r, k) \/ FetchFails(r, k)
  PROVE  IInv'
<1>1. CASE Fetch(r, k)
  BY <1>1, FetchedTyped, ResolveStep DEF Fetch, IInv, TypeOK
<1>2. CASE FetchFails(r, k)
  <2>1. faults' \in 0 .. MaxFaults
    BY <1>2, BoundAssumption DEF FetchFails, Fault, IInv, TypeOK
  <2>2. QED
    BY <1>2, <2>1, IdleTyped, ResolveStep DEF FetchFails, Failed
<1>3. QED
  BY <1>1, <1>2

(* A fetched file is persisted.                                            *)
LEMMA PersistStep ==
  ASSUME IInv, NEW r \in Runner, NEW k \in Key, Persist(r, k)
  PROVE  IInv'
<1> USE DEF IInv
<1>1. TypeOK'
  <2>1. FiledRow(r, k) \in Row /\ got[r][k].version \in Version
    BY BoundAssumption DEF Persist, ItemDone, FiledRow, Row, Version, Result, TypeOK,
       WorkIsListed, SeenKeys, EtagBehindBody
  <2>2. files' \in [Key -> Row]
    BY <2>1 DEF Persist, TypeOK
  <2>3. canonical' \subseteq RecordRow
    BY <2>1, RecordsTyped DEF Persist, TypeOK
  <2>4. QED
    BY <2>2, <2>3 DEF Persist, ItemDone, Goes, TypeOK, Phase, bucket, tables, signals, plan, work, rebuild
<1>2. WorkIsListed'
  BY DEF Persist, ItemDone, WorkIsListed, SeenKeys, TypeOK, bucket, tables, signals, plan, work, rebuild
<1>3. RunsStartFresh'
  BY DEF Persist, ItemDone, Goes, RunsStartFresh, TypeOK, bucket, tables, signals, plan, work, rebuild
<1>4. EtagBehindBody'
  <2>1. FiledRow(r, k).etag <= FiledRow(r, k).body /\ FiledRow(r, k).body <= latest[k]
    BY DEF Persist, FiledRow, EtagBehindBody
  <2>2. QED
    BY <2>1 DEF Persist, ItemDone, EtagBehindBody, TypeOK, bucket, tables, signals, plan, work, rebuild
<1>5. QED
  BY <1>1, <1>2, <1>3, <1>4

(* A file is passed over.                                                  *)
LEMMA PassOverStep ==
  ASSUME IInv, NEW r \in Runner, NEW k \in Key, PassOver(r, k)
  PROVE  IInv'
<1> USE DEF IInv
<1>1. TypeOK'
  BY DEF PassOver, ItemDone, Goes, TypeOK, Phase, bucket, tables, signals, plan, work, rebuild
<1>2. WorkIsListed'
  BY DEF PassOver, ItemDone, WorkIsListed, SeenKeys, TypeOK, bucket, tables, signals, plan, work, rebuild
<1>3. RunsStartFresh'
  BY DEF PassOver, ItemDone, Goes, RunsStartFresh, TypeOK, bucket, tables, signals, plan, work, rebuild
<1>4. EtagBehindBody'
  BY DEF PassOver, ItemDone, EtagBehindBody, bucket, tables, signals, plan, work, rebuild
<1>5. QED
  BY <1>1, <1>2, <1>3, <1>4

(* Orphans are deleted.                                                    *)
LEMMA DeleteOrphansStep ==
  ASSUME IInv, NEW r \in Runner, DeleteOrphans(r)
  PROVE  IInv'
<1> USE DEF IInv
<1>1. TypeOK'
  <2>1. files' \in [Key -> Row]
    BY DEF DeleteOrphans, Deleted, Row, TypeOK
  <2>2. changed' \in [Runner -> BOOLEAN]
    BY DEF DeleteOrphans, CountsDeletions, TypeOK
  <2>3. unpublished' \in BOOLEAN
    BY DEF DeleteOrphans
  <2>4. QED
    BY <2>1, <2>2, <2>3 DEF DeleteOrphans, Goes, TypeOK, Phase, bucket, tables, signals, plan, work, rebuild
<1>2. WorkIsListed'
  BY DEF DeleteOrphans, WorkIsListed, SeenKeys, bucket, tables, signals, plan, work, rebuild
<1>3. RunsStartFresh'
  BY DEF DeleteOrphans, Goes, RunsStartFresh, TypeOK, bucket, tables, signals, plan, work, rebuild
<1>4. EtagBehindBody'
  <2>1. \A k \in Key : files'[k] = files[k] \/ files'[k] = NoFile
    BY DEF DeleteOrphans, Deleted
  <2>2. \A k \in Key : files'[k].etag <= files'[k].body /\ files'[k].body <= latest'[k]
    BY <2>1, Numbers DEF DeleteOrphans, EtagBehindBody, NoFile, bucket
  <2>3. QED
    BY <2>2 DEF DeleteOrphans, EtagBehindBody, bucket, tables, signals, plan, work, rebuild
<1>5. QED
  BY <1>1, <1>2, <1>3, <1>4

(* is_canonical is recomputed.                                             *)
LEMMA RecomputeStep ==
  ASSUME IInv, NEW r \in Runner, RecomputeCanonical(r)
  PROVE  IInv'
<1> USE DEF IInv
<1>1. TypeOK'
  <2>1. canonical' \subseteq RecordRow
    BY StoredTyped DEF RecomputeCanonical, Reflagged, TypeOK
  <2>2. unpublished' \in BOOLEAN
    BY DEF RecomputeCanonical
  <2>3. QED
    BY <2>1, <2>2 DEF RecomputeCanonical, Goes, TypeOK, Phase, bucket, tables, signals, plan, work, rebuild
<1>2. WorkIsListed'
  BY DEF RecomputeCanonical, WorkIsListed, SeenKeys, bucket, tables, signals, plan, work, rebuild
<1>3. RunsStartFresh'
  BY DEF RecomputeCanonical, Goes, RunsStartFresh, TypeOK, bucket, tables, signals, plan, work, rebuild
<1>4. EtagBehindBody'
  BY DEF RecomputeCanonical, EtagBehindBody, bucket, tables, signals, plan, work, rebuild
<1>5. QED
  BY <1>1, <1>2, <1>3, <1>4

(* A rollup table is emptied.                                              *)
LEMMA RebuildDeleteStep ==
  ASSUME IInv, NEW r \in Runner, NEW t \in Table, RebuildDelete(r, t)
  PROVE  IInv'
<1> USE DEF IInv
<1>1. TypeOK'
  BY DEF RebuildDelete, Goes, TypeOK, Phase, Table, bucket, tables, signals, plan, work, rebuild
<1>2. WorkIsListed'
  BY DEF RebuildDelete, WorkIsListed, SeenKeys, bucket, tables, signals, plan, work, rebuild
<1>3. RunsStartFresh'
  BY DEF RebuildDelete, Goes, RunsStartFresh, TypeOK, Table, bucket, tables, signals, plan, work, rebuild
<1>4. EtagBehindBody'
  BY DEF RebuildDelete, EtagBehindBody, bucket, tables, signals, plan, work, rebuild
<1>5. QED
  BY <1>1, <1>2, <1>3, <1>4

(* A rollup table is filled.                                               *)
LEMMA RebuildInsertStep ==
  ASSUME IInv, NEW r \in Runner, NEW t \in Table, RebuildInsert(r, t)
  PROVE  IInv'
<1> USE DEF IInv
<1>1. TypeOK'
  <2>1. Source(t) \subseteq RecordRow
    BY StoredTyped DEF Source, TypeOK
  <2>2. missed' \in [Runner -> SUBSET RecordRow]
    BY <2>1 DEF RebuildInsert, TypeOK
  <2>3. rollup' \in [Table -> SUBSET RecordRow]
    BY <2>1 DEF RebuildInsert, TypeOK
  <2>4. AfterRebuild(t) \in Phase
    BY DEF AfterRebuild, Table, Phase
  <2>5. unpublished' \in BOOLEAN
    BY DEF RebuildInsert
  <2>6. QED
    BY <2>2, <2>3, <2>4, <2>5 DEF RebuildInsert, Goes, TypeOK, bucket, tables, signals, plan, work, rebuild
<1>2. WorkIsListed'
  BY DEF RebuildInsert, WorkIsListed, SeenKeys, bucket, tables, signals, plan, work, rebuild
<1>3. RunsStartFresh'
  <2>1. AfterRebuild(t) \in {"tool", "latency", "publish"}
    BY DEF AfterRebuild, Table
  <2>2. QED
    BY <2>1 DEF RebuildInsert, Goes, RunsStartFresh, TypeOK, bucket, tables, signals, plan, work, rebuild
<1>4. EtagBehindBody'
  BY DEF RebuildInsert, EtagBehindBody, bucket, tables, signals, plan, work, rebuild
<1>5. QED
  BY <1>1, <1>2, <1>3, <1>4

(* The inductive step, one case per action of Next.                        *)
LEMMA NextIInv == IInv /\ [Next]_vars => IInv'
<1> SUFFICES ASSUME IInv, [Next]_vars PROVE IInv'
  OBVIOUS
<1>1. ASSUME NEW k \in Key, Upload(k) \/ Remove(k) PROVE IInv'
  BY <1>1, UploadStep, RemoveStep
<1>2. ASSUME NEW r \in Runner, Start(r) PROVE IInv'
  BY <1>2, StartStep
<1>3. ASSUME NEW r \in Runner, Progress(r) PROVE IInv'
  BY <1>3, ExistingFilesStep, ScanStep, TakeBatchStep, NoWorkLeftStep, FetchStep,
     PersistStep, PassOverStep, DeleteOrphansStep, FinishRunStep, FinishFatalRunStep,
     RecomputeStep, RebuildDeleteStep, RebuildInsertStep, CollisionStep, PublishStep
     DEF Progress
<1>4. ASSUME NEW r \in Runner, Breaks(r) PROVE IInv'
  BY <1>4, FetchStep, AbortStep, PostPassStep DEF Breaks
<1>5. CASE Restart
  BY <1>5, RestartStep
<1>6. CASE UNCHANGED vars
  BY <1>6 DEF vars, IInv, TypeOK, WorkIsListed, SeenKeys, RunsStartFresh,
              EtagBehindBody, bucket, tables, signals, plan, work, rebuild
<1>7. QED
  BY <1>1, <1>2, <1>3, <1>4, <1>5, <1>6 DEF Next

(* Every state of every behaviour is well typed and satisfies the          *)
(* inductive invariant, with any number of overlapping runs.               *)
THEOREM InductiveInvariant == Spec => []IInv
BY InitIInv, NextIInv, PTL DEF Spec

(* Every variable of the ingest keeps its type.                           *)
THEOREM TypeCorrect == Spec => []TypeOK
BY InductiveInvariant, PTL DEF IInv

(* Deciding by the ETag alone that a file needs no work is sound: between  *)
(* overlapping runs, failures and restarts, a row whose ETag is the        *)
(* bucket's holds the bytes of that ETag.                                  *)
THEOREM SkippingIsSound == Spec => []SkipIsSound
<1>1. IInv => SkipIsSound
  <2> SUFFICES ASSUME IInv, NEW k \in present, files[k].etag = latest[k]
               PROVE  files[k].body = latest[k]
    BY DEF SkipIsSound
  <2>1. k \in Key
    BY DEF IInv, TypeOK
  <2>2. QED
    BY <2>1, Numbers DEF IInv, EtagBehindBody
<1>2. QED
  BY <1>1, InductiveInvariant, PTL

(***************************************************************************)
(* Steps that forget a run, and steps that read and write nothing shared   *)
(***************************************************************************)
Cut ==
  \/ Restart
  \/ \E r \in Runner : Abort(r) \/ PostPassFails(r) \/ Publish(r)
                         \/ \E t \in Table : RebuildCollides(r, t)

(* With a single runner nothing local to any run outlives such a step.     *)
LEMMA CutForgets ==
  ASSUME Alone, Cut
  PROVE  /\ UNCHANGED <<bucket, tables, gone>>
         /\ \A q \in Runner :
              /\ pc'[q] \in {"idle", "fatal"}
              /\ todo'[q] = {} /\ batch'[q] = {} /\ got'[q] = NoResults
              /\ changed'[q] = FALSE /\ missed'[q] = {}
<1>1. CASE Restart
  BY <1>1 DEF Restart, Forget
<1>2. ASSUME NEW r \in Runner,
             Abort(r) \/ PostPassFails(r) \/ Publish(r) \/ \E t \in Table : RebuildCollides(r, t)
      PROVE  /\ UNCHANGED <<bucket, tables, gone>>
             /\ Forget({r}, "idle") \/ Forget({r}, "fatal")
  BY <1>2 DEF Abort, PostPassFails, Publish, RebuildCollides, signals
<1>3. ASSUME NEW r \in Runner, NEW q \in Runner, NEW to \in {"idle", "fatal"}, Forget({r}, to)
      PROVE  /\ pc'[q] \in {"idle", "fatal"}
             /\ todo'[q] = {} /\ batch'[q] = {} /\ got'[q] = NoResults
             /\ changed'[q] = FALSE /\ missed'[q] = {}
  BY <1>3 DEF Alone, Forget
<1> QED
  BY <1>1, <1>2, <1>3 DEF Cut

Quiet(r) ==
  \/ Start(r) \/ ExistingFiles(r) \/ ScanAndPlan(r) \/ TakeBatch(r) \/ NoWorkLeft(r)
  \/ \E k \in Key : PassOver(r, k)
  \/ FinishRun(r) \/ FinishFatalRun(r) \/ RecomputeCanonical(r)
  \/ \E t \in Table : RebuildDelete(r, t) \/ RebuildInsert(r, t)

LEMMA QuietKeeps ==
  ASSUME NEW r \in Runner, Quiet(r)
  PROVE  UNCHANGED <<bucket, parser, files, gone, got, faults>>
BY DEF Quiet, Start, ExistingFiles, ScanAndPlan, TakeBatch, NoWorkLeft, PassOver, ItemDone,
       FinishRun, FinishFatalRun, RecomputeCanonical, RebuildDelete, RebuildInsert,
       tables, signals, work

(* The steps of the ingest.                                                *)
LEMMA StepCases ==
  ASSUME [Next]_vars
  PROVE  \/ \E k \in Key : Upload(k) \/ Remove(k)
         \/ Cut
         \/ \E r \in Runner : Quiet(r) \/ DeleteOrphans(r)
         \/ \E r \in Runner, k \in Key : Fetch(r, k) \/ FetchFails(r, k) \/ Persist(r, k)
         \/ UNCHANGED vars
BY DEF Next, Progress, Breaks, Cut, Quiet

(***************************************************************************)
(* The parts of the invariant                                              *)
(***************************************************************************)
LEMMA StoredAsParsedStep ==
  ASSUME IInv, StoredAsParsed, Alone, [Next]_vars
  PROVE  StoredAsParsed'
<1>1. ASSUME NEW k \in Key, Upload(k) PROVE StoredAsParsed'
  BY <1>1 DEF Upload, StoredAsParsed, StoredIn, tables, signals, work
<1>2. ASSUME NEW k \in Key, Remove(k) PROVE StoredAsParsed'
  BY <1>2 DEF Remove, StoredAsParsed, StoredIn, tables, work
<1>3. CASE Cut
  <2>1. UNCHANGED <<files, present, gone>> /\ \A q \in Runner : got'[q] = NoResults
    BY <1>3, CutForgets DEF bucket, tables
  <2>2. \A k \in Key : NoResults[k].outcome # "parsed"
    BY DEF NoResults, Pending
  <2> QED
    BY <2>1, <2>2 DEF StoredAsParsed, StoredIn
<1>4. ASSUME NEW r \in Runner, Quiet(r) PROVE StoredAsParsed'
  BY <1>4, QuietKeeps DEF StoredAsParsed, StoredIn, bucket
<1>5. ASSUME NEW r \in Runner, DeleteOrphans(r) PROVE StoredAsParsed'
  BY <1>5 DEF DeleteOrphans, Deleted, StoredAsParsed, StoredIn, bucket
<1>6. ASSUME NEW r \in Runner, NEW k \in Key, Fetch(r, k) \/ FetchFails(r, k) PROVE StoredAsParsed'
  <2>1. PICK result : /\ Resolve(r, k, result)
                      /\ result.outcome = "parsed" => ParseOutcome(k, result.version, parser) = "parsed"
    BY <1>6 DEF Fetch, FetchFails, FetchedNow, Failed
  <2> QED
    BY <2>1 DEF Resolve, StoredAsParsed, StoredIn, IInv, TypeOK, bucket, tables, signals
<1>7. ASSUME NEW r \in Runner, NEW k \in Key, Persist(r, k) PROVE StoredAsParsed'
  <2>1. /\ files' = [files EXCEPT ![k] = FiledRow(r, k)]
        /\ gone' = (gone \ {k}) \cup ({k} \ present)
        /\ UNCHANGED <<bucket, parser, got>>
        /\ got[r][k].outcome = "parsed"
    BY <1>7 DEF Persist, ItemDone
  <2>2. FiledRow(r, k).body = got[r][k].version /\ FiledRow(r, k).parser = parser
    BY DEF FiledRow
  <2> QED
    BY <2>1, <2>2 DEF StoredAsParsed, StoredIn, IInv, TypeOK, bucket
<1>8. CASE UNCHANGED vars
  BY <1>8 DEF StoredAsParsed, StoredIn, vars, bucket, tables, signals, work
<1> QED
  BY <1>1, <1>2, <1>3, <1>4, <1>5, <1>6, <1>7, <1>8, StepCases

LEMMA OneThingStep ==
  ASSUME IInv, OneThingAfterAnother, Alone, [Next]_vars
  PROVE  OneThingAfterAnother'
<1> USE DEF OneThingAfterAnother
<1>1. ASSUME NEW k \in Key, Upload(k) \/ Remove(k) PROVE OneThingAfterAnother'
  BY <1>1 DEF Upload, Remove, tables, plan, work
<1>2. CASE Cut
  <2>1. \A q \in Runner : pc'[q] \in {"idle", "fatal"} /\ todo'[q] = {} /\ batch'[q] = {}
    BY <1>2, CutForgets
  <2> QED
    BY <2>1
<1>3. ASSUME NEW r \in Runner,
             Start(r) \/ NoWorkLeft(r) \/ FinishRun(r) \/ FinishFatalRun(r) \/ RecomputeCanonical(r)
               \/ \E t \in Table : RebuildDelete(r, t) \/ RebuildInsert(r, t)
      PROVE  OneThingAfterAnother'
  <2>1. UNCHANGED <<files, plan, batch, got>>
    BY <1>3 DEF Start, NoWorkLeft, FinishRun, FinishFatalRun, RecomputeCanonical, RebuildDelete,
                RebuildInsert, tables, work
  <2>2. PICK to \in Phase \ {"scan", "plan", "fetch", "persist"} :
          /\ pc' = [pc EXCEPT ![r] = to]
          /\ pc[r] \in {"fetch", "persist"} => FALSE
          /\ todo[r] = {}
    BY <1>3 DEF Start, NoWorkLeft, FinishRun, FinishFatalRun, RecomputeCanonical, RebuildDelete,
                RebuildInsert, Goes, AfterRebuild, Table, Phase
  <2> QED
    BY <2>1, <2>2 DEF plan, IInv, TypeOK
<1>4. ASSUME NEW r \in Runner, ExistingFiles(r) PROVE OneThingAfterAnother'
  BY <1>4 DEF ExistingFiles, Goes, Alone, IInv, TypeOK, tables, work
<1>5. ASSUME NEW r \in Runner, ScanAndPlan(r) PROVE OneThingAfterAnother'
  <2>1. batch[r] = {} /\ got[r] = NoResults
    BY <1>5 DEF ScanAndPlan, Goes, IInv, RunsStartFresh
  <2>2. \A k \in present : k \in Key /\ got[r][k] = Pending
    BY <2>1 DEF NoResults, IInv, TypeOK
  <2> QED
    BY <1>5, <2>1, <2>2 DEF ScanAndPlan, Goes, Alone, IInv, TypeOK, work
<1>6. ASSUME NEW r \in Runner, TakeBatch(r) PROVE OneThingAfterAnother'
  BY <1>6 DEF TakeBatch, Goes, Alone, IInv, TypeOK
<1>7. ASSUME NEW r \in Runner, NEW k \in Key, Fetch(r, k) \/ FetchFails(r, k) PROVE OneThingAfterAnother'
  BY <1>7 DEF Fetch, FetchFails, Resolve, Goes, Alone, IInv, TypeOK, plan
<1>8. ASSUME NEW r \in Runner, NEW k \in Key, Persist(r, k) \/ PassOver(r, k) PROVE OneThingAfterAnother'
  BY <1>8 DEF Persist, PassOver, ItemDone, Goes, Alone, IInv, TypeOK, plan
<1>9. ASSUME NEW r \in Runner, DeleteOrphans(r) PROVE OneThingAfterAnother'
  BY <1>9 DEF DeleteOrphans, Goes, Alone, IInv, TypeOK, plan
<1>10. CASE UNCHANGED vars
  BY <1>10 DEF vars, tables, plan, work
<1> QED
  BY <1>1, <1>2, <1>3, <1>4, <1>5, <1>6, <1>7, <1>8, <1>9, <1>10, StepCases DEF Quiet

LEMMA MirrorsListingStep ==
  ASSUME IInv, StoredAsParsed, OneThingAfterAnother, MirrorsListing, Alone, [Next]_vars
  PROVE  MirrorsListing'
<1> USE DEF MirrorsListing, Passing, Booked, Table
<1>1. ASSUME NEW k \in Key, Upload(k) \/ Remove(k) PROVE MirrorsListing'
  BY <1>1 DEF Upload, Remove, StoredIn, SeenKeys, With, tables, signals, plan, work
<1>2. CASE Cut
  <2>1. \A q \in Runner : pc'[q] \in {"idle", "fatal"} /\ batch'[q] = {}
    BY <1>2, CutForgets
  <2> QED
    BY <2>1
<1>3. ASSUME NEW r \in Runner, Start(r) \/ ExistingFiles(r) \/ FinishFatalRun(r) PROVE MirrorsListing'
  <2>1. batch'[r] = {} /\ pc'[r] \in {"existing", "scan", "idle"}
    BY <1>3 DEF Start, ExistingFiles, FinishFatalRun, Goes, OneThingAfterAnother, IInv, TypeOK, work
  <2> QED
    BY <2>1 DEF Alone
<1>4. ASSUME NEW r \in Runner,
             NoWorkLeft(r) \/ FinishRun(r) \/ RecomputeCanonical(r)
               \/ \E t \in Table : RebuildDelete(r, t) \/ RebuildInsert(r, t)
      PROVE  MirrorsListing'
  <2>1. UNCHANGED <<files, gone, parser, listed, todo, batch, got>>
    BY <1>4 DEF NoWorkLeft, FinishRun, RecomputeCanonical, RebuildDelete, RebuildInsert,
                tables, signals, plan, work
  <2>2. /\ pc[r] \in Passing \cup Booked
        /\ pc'[r] \in Passing \cup Booked /\ (pc'[r] \in Booked => pc[r] \in Booked)
    BY <1>4 DEF NoWorkLeft, FinishRun, RecomputeCanonical, RebuildDelete, RebuildInsert,
                Goes, AfterRebuild, IInv, TypeOK
  <2> QED
    BY <2>1, <2>2 DEF StoredIn, SeenKeys, With, Alone
<1>5. ASSUME NEW r \in Runner, ScanAndPlan(r) PROVE MirrorsListing'
  <2>1. /\ pc' = [pc EXCEPT ![r] = "plan"] /\ batch[r] = {} /\ existing[r] = files
        /\ listed' = [listed EXCEPT ![r] = Listing]
        /\ todo' = [todo EXCEPT ![r] = {k \in present : ~ UpToDate(existing[r][k], latest[k])}]
        /\ UNCHANGED <<files, gone, parser, batch>>
    BY <1>5 DEF ScanAndPlan, Goes, OneThingAfterAnother, tables, signals, work
  <2>2. SeenKeys(r)' = present
    BY <2>1 DEF SeenKeys, Listing, IInv, TypeOK, WorkIsListed
  <2>3. StoredIn(files)' \subseteq SeenKeys(r)' \cup gone'
    BY <2>1, <2>2 DEF StoredAsParsed, StoredIn
  <2>4. \A k \in present \ todo'[r] : files[k].etag = listed'[r][k] /\ files[k].parser = parser
    BY <2>1 DEF UpToDate, Listing, IInv, TypeOK
  <2>5. \A k \in present \ todo'[r] : files'[k].etag >= listed'[r][k] /\ files'[k].parser = parser'
    BY <2>1, <2>4, Numbers DEF IInv, TypeOK
  <2>6. pc'[r] = "plan" /\ batch'[r] = {}
    BY <2>1 DEF IInv, TypeOK
  <2> QED
    BY <2>2, <2>3, <2>5, <2>6 DEF Alone
<1>6. ASSUME NEW r \in Runner, TakeBatch(r) PROVE MirrorsListing'
  <2>1. /\ pc[r] = "plan" /\ pc'[r] = "fetch" /\ batch[r] = {}
        /\ todo'[r] \cup batch'[r] = todo[r] /\ batch'[r] \subseteq todo[r]
        /\ UNCHANGED <<files, gone, parser, listed, got>>
    <3>1. PICK B \in SUBSET todo[r] : /\ batch' = [batch EXCEPT ![r] = B]
                                      /\ todo' = [todo EXCEPT ![r] = @ \ B]
      BY <1>6 DEF TakeBatch
    <3>2. todo'[r] = todo[r] \ B /\ batch'[r] = B
      BY <3>1 DEF IInv, TypeOK
    <3> QED
      BY <1>6, <3>2 DEF TakeBatch, Goes, OneThingAfterAnother, IInv, TypeOK, tables, signals
  <2>2. \A k \in batch'[r] : got'[r][k].outcome # "parsed"
    BY <2>1 DEF OneThingAfterAnother, Pending
  <2> QED
    BY <2>1, <2>2 DEF StoredIn, SeenKeys, With, Alone
<1>7. ASSUME NEW r \in Runner, NEW k \in Key, Fetch(r, k) \/ FetchFails(r, k) PROVE MirrorsListing'
  <2>1. PICK result : /\ Resolve(r, k, result)
                      /\ result.outcome = "parsed" => result.version = latest[k]
    BY <1>7 DEF Fetch, FetchFails, FetchedNow, Failed
  <2>2. /\ k \in batch[r] /\ pc[r] = "fetch" /\ pc'[r] \in {"persist", "fetch"}
        /\ got' = [got EXCEPT ![r] = [@ EXCEPT ![k] = result]]
        /\ UNCHANGED <<files, gone, parser, listed, todo, batch>>
    BY <2>1 DEF Resolve, Goes, IInv, TypeOK, tables, signals, plan
  <2>3. \A j \in Key \ {k} : got'[r][j] = got[r][j]
    BY <2>2 DEF IInv, TypeOK
  <2>4. With(r, {"failed", "skipped"})' \ {k} = With(r, {"failed", "skipped"}) \ {k}
    BY <2>3 DEF With
  <2>5. got'[r][k].outcome = "parsed" => files[k].body <= got'[r][k].version
    BY <2>1, <2>2 DEF IInv, TypeOK, EtagBehindBody
  <2>6. batch[r] \subseteq Key
    BY DEF IInv, TypeOK
  <2> QED
    BY <2>2, <2>3, <2>4, <2>5, <2>6 DEF StoredIn, SeenKeys, Alone
<1>8. ASSUME NEW r \in Runner, NEW k \in Key, Persist(r, k) PROVE MirrorsListing'
  <2>1. /\ k \in batch[r] /\ pc[r] = "persist" /\ pc'[r] \in {"persist", "plan"}
        /\ batch'[r] = batch[r] \ {k} /\ UNCHANGED <<parser, listed, todo, got>>
        /\ files' = [files EXCEPT ![k] = FiledRow(r, k)]
        /\ gone' = (gone \ {k}) \cup ({k} \ present)
    BY <1>8 DEF Persist, ItemDone, Goes, IInv, TypeOK, plan
  <2>2. k \in SeenKeys(r)
    BY <2>1 DEF IInv, WorkIsListed
  <2>3. StoredIn(files)' \subseteq SeenKeys(r)' \cup gone'
    BY <2>1, <2>2 DEF StoredIn, SeenKeys, IInv, TypeOK
  <2>4. files'[k].etag >= listed'[r][k] /\ files'[k].parser = parser'
    BY <2>1, Numbers DEF FiledRow, IInv, TypeOK
  <2>5. \A j \in Key \ {k} : files'[j] = files[j]
    BY <2>1 DEF IInv, TypeOK
  <2>6. SeenKeys(r)' = SeenKeys(r) /\ With(r, {"failed", "skipped"})' = With(r, {"failed", "skipped"})
        /\ SeenKeys(r) \subseteq Key /\ batch[r] \subseteq Key
    BY <2>1 DEF SeenKeys, With, IInv, TypeOK
  <2>7. pc[r] \in Passing \cup Booked =>
          \A j \in SeenKeys(r)' \ (todo'[r] \cup batch'[r] \cup With(r, {"failed", "skipped"})') :
            files'[j].etag >= listed'[r][j] /\ files'[j].parser = parser'
    BY <2>1, <2>4, <2>5, <2>6
  <2>8. \A j \in batch'[r] : got'[r][j].outcome = "parsed" => files'[j].body <= got'[r][j].version
    BY <2>1, <2>5, <2>6
  <2> QED
    BY <2>1, <2>3, <2>7, <2>8 DEF Alone
<1>9. ASSUME NEW r \in Runner, NEW k \in Key, PassOver(r, k) PROVE MirrorsListing'
  <2>1. /\ k \in batch[r] /\ pc[r] = "persist" /\ pc'[r] \in {"persist", "plan"}
        /\ batch'[r] = batch[r] \ {k} /\ UNCHANGED <<files, gone, parser, listed, todo, got>>
        /\ k \in With(r, {"failed", "skipped"})
    BY <1>9 DEF PassOver, ItemDone, Goes, With, IInv, TypeOK, plan
  <2> QED
    BY <2>1 DEF StoredIn, SeenKeys, With, Alone
<1>10. ASSUME NEW r \in Runner, DeleteOrphans(r) PROVE MirrorsListing'
  <2>1. /\ pc[r] = "orphans" /\ pc'[r] = "finish" /\ batch[r] = {}
        /\ UNCHANGED <<parser, listed, todo, batch, got>>
        /\ files' = [k \in Key |-> IF k \in Orphans(r) THEN NoFile ELSE files[k]]
    BY <1>10 DEF DeleteOrphans, Deleted, Goes, OneThingAfterAnother, IInv, TypeOK, plan
  <2>2. StoredIn(files)' \subseteq SeenKeys(r)'
    BY <2>1 DEF StoredIn, SeenKeys, Orphans
  <2>3. \A k \in SeenKeys(r) : files'[k] = files[k]
    BY <2>1 DEF SeenKeys, Orphans
  <2> QED
    BY <2>1, <2>2, <2>3 DEF SeenKeys, With, Alone
<1>11. CASE UNCHANGED vars
  BY <1>11 DEF StoredIn, SeenKeys, With, vars, tables, signals, plan, work
<1> QED
  BY <1>1, <1>2, <1>3, <1>4, <1>5, <1>6, <1>7, <1>8, <1>9, <1>10, <1>11, StepCases DEF Quiet

LEMMA DerivedInOrderStep ==
  ASSUME IInv, OneThingAfterAnother, DerivedInOrder, Alone, [Next]_vars
  PROVE  DerivedInOrder'
<1> USE DEF DerivedInOrder, Table
<1>1. ASSUME UNCHANGED <<tables, unpublished, changed, missed>>, faults' = 0 => faults = 0,
             \A r \in Runner : pc'[r] \in {"publish"} \cup Table => pc'[r] = pc[r]
      PROVE  DerivedInOrder'
  BY <1>1 DEF Derived, Source, tables
<1>2. ASSUME NEW k \in Key, Upload(k) \/ Remove(k) PROVE DerivedInOrder'
  BY <1>2, <1>1 DEF Upload, Remove, tables, signals, work, rebuild
<1>3. CASE Cut
  <2>1. \A q \in Runner : pc'[q] \in {"idle", "fatal"} /\ changed'[q] = FALSE /\ missed'[q] = {}
    BY <1>3, CutForgets
  <2>2. ASSUME NEW q \in Runner, faults' = 0 PROVE Derived' /\ ~ unpublished'
    <3>1. \A r \in Runner, t \in Table : ~ RebuildCollides(r, t)
      BY DEF RebuildCollides, Collides, FilesOf
    <3>a. ~ Fault
      BY <2>2, BoundAssumption DEF Fault, IInv, TypeOK
    <3>2. PICK r \in Runner : Publish(r)
      BY <1>3, <3>1, <3>a DEF Cut, Restart, Abort, PostPassFails
    <3>3. Derived
      BY <3>2 DEF Publish, Derived
    <3>4. Derived'
      BY <3>2, <3>3 DEF Publish, Derived, Source, tables
    <3>5. ~ unpublished'
      BY <2>2, <3>2 DEF Publish
    <3> QED
      BY <3>4, <3>5
  <2> QED
    BY <2>1, <2>2
<1>4. ASSUME NEW r \in Runner,
             Start(r) \/ ExistingFiles(r) \/ ScanAndPlan(r) \/ TakeBatch(r) \/ NoWorkLeft(r)
               \/ FinishRun(r) \/ FinishFatalRun(r) \/ (\E k \in Key : PassOver(r, k))
               \/ \E t \in Table : RebuildDelete(r, t)
      PROVE  DerivedInOrder'
  <2>1. UNCHANGED <<tables, unpublished, changed, missed, faults>>
    BY <1>4 DEF Start, ExistingFiles, ScanAndPlan, TakeBatch, NoWorkLeft, PassOver, ItemDone,
                FinishRun, FinishFatalRun, RebuildDelete, tables, signals, work, rebuild
  <2>2. \A q \in Runner : pc'[q] \in {"publish"} \cup Table => pc'[q] = pc[q]
    BY <1>4 DEF Start, ExistingFiles, ScanAndPlan, TakeBatch, NoWorkLeft, PassOver, ItemDone,
                FinishRun, FinishFatalRun, RebuildDelete, Goes, IInv, TypeOK
  <2> QED
    BY <1>1, <2>1, <2>2
<1>5. ASSUME NEW r \in Runner, NEW k \in Key, Fetch(r, k) \/ FetchFails(r, k) PROVE DerivedInOrder'
  <2>1. UNCHANGED <<tables, unpublished, changed, missed>> /\ (faults' = 0 => faults = 0)
    BY <1>5, BoundAssumption
       DEF Fetch, FetchFails, Fault, Resolve, IInv, TypeOK, signals, rebuild
  <2>2. \A q \in Runner : pc'[q] \in {"publish"} \cup Table => pc'[q] = pc[q]
    BY <1>5 DEF Fetch, FetchFails, Resolve, Goes, IInv, TypeOK
  <2> QED
    BY <1>1, <2>1, <2>2
<1>6. ASSUME NEW r \in Runner, NEW k \in Key, Persist(r, k) PROVE DerivedInOrder'
  BY <1>6 DEF Persist, ItemDone, Goes, Alone, IInv, TypeOK, rebuild
<1>7. ASSUME NEW r \in Runner, DeleteOrphans(r) PROVE DerivedInOrder'
  <2>1. /\ pc'[r] = "finish" /\ changed'[r] = (changed[r] \/ Orphans(r) # {})
        /\ UNCHANGED <<rollup, missed, faults>>
    BY <1>7 DEF DeleteOrphans, CountsDeletions, Goes, IInv, TypeOK, rebuild
  <2>2. Orphans(r) = {} => UNCHANGED <<files, canonical, unpublished>>
    BY <1>7 DEF DeleteOrphans, IInv, TypeOK
  <2> QED
    BY <2>1, <2>2 DEF Alone, Derived, Source
<1>8. ASSUME NEW r \in Runner, RecomputeCanonical(r) PROVE DerivedInOrder'
  <2>1. /\ pc'[r] = "usage" /\ canonical' = CanonicalIn(files) /\ files' = files
        /\ UNCHANGED <<rollup, changed, missed, faults>>
        /\ canonical' = canonical => unpublished' = unpublished
    BY <1>8 DEF RecomputeCanonical, Reflagged, Goes, IInv, TypeOK, work, rebuild
  <2> QED
    BY <2>1 DEF Alone, Derived, Source
<1>9. ASSUME NEW r \in Runner, NEW t \in Table, RebuildInsert(r, t) PROVE DerivedInOrder'
  <2>1. /\ pc[r] = t /\ pc'[r] = AfterRebuild(t)
        /\ UNCHANGED <<files, canonical, changed, faults>>
        /\ missed'[r] = {} /\ rollup' = [rollup EXCEPT ![t] = Source(t)]
        /\ rollup' = rollup => unpublished' = unpublished
    BY <1>9 DEF RebuildInsert, Goes, IInv, TypeOK, work
  <2>2. rollup[t] = Source(t) => rollup' = rollup
    BY <2>1 DEF IInv, TypeOK
  <2>3. \A u \in Table : Source(u)' = Source(u) /\ rollup'[u] = IF u = t THEN Source(t) ELSE rollup[u]
    BY <2>1 DEF Source, IInv, TypeOK
  <2>4. faults' = 0 /\ ~ changed'[r] => Derived' /\ ~ unpublished'
    BY <2>1, <2>2, <2>3 DEF Derived
  <2> QED
    BY <2>1, <2>3, <2>4 DEF Alone, AfterRebuild
<1>10. CASE UNCHANGED vars
  BY <1>10, <1>1 DEF vars, signals, work, rebuild
<1> QED
  BY <1>2, <1>3, <1>4, <1>5, <1>6, <1>7, <1>8, <1>9, <1>10, StepCases DEF Quiet

(* Nothing is stored or in progress at first.                              *)
LEMMA InitAlone == Init => AloneInv
<1> SUFFICES ASSUME Init PROVE AloneInv
  OBVIOUS
<1>1. StoredIn(files) = {} /\ RecordsIn(files) = {} /\ CanonicalIn(files) = {}
  BY DEF Init, NoRows, StoredIn, RecordsIn, CanonicalIn
<1>2. \A k \in Key : NoResults[k].outcome = "pending"
  BY DEF NoResults, Pending
<1>3. StoredAsParsed
  BY <1>1, <1>2 DEF Init, StoredAsParsed
<1>4. OneThingAfterAnother
  BY DEF Init, OneThingAfterAnother
<1>5. MirrorsListing
  BY DEF Init, MirrorsListing, Passing, Booked, Table
<1>6. DerivedInOrder
  BY <1>1 DEF Init, DerivedInOrder, Derived, Source, Table
<1> QED
  BY <1>3, <1>4, <1>5, <1>6, InitIInv DEF AloneInv

(* What holds while runs do not overlap.                                   *)
THEOREM AloneInductive == Alone /\ Spec => []AloneInv
<1>1. ASSUME Alone PROVE AloneInv /\ [Next]_vars => AloneInv'
  BY <1>1, NextIInv, StoredAsParsedStep, OneThingStep, MirrorsListingStep, DerivedInOrderStep
     DEF AloneInv
<1>2. ASSUME Alone PROVE Spec => []AloneInv
  BY <1>1, <1>2, InitAlone, PTL DEF Spec
<1> QED
  BY <1>2

(* A run that completes has mirrored its listing: each listed file is      *)
(* stored as listed or newer, or booked as failed or skipped; nothing else *)
(* is stored; and the parser that wrote a row understood it.               *)
THEOREM RunsMirror == Alone /\ Spec => []CompletedRunMirrors
<1>1. AloneInv => CompletedRunMirrors
  BY DEF AloneInv, CompletedRunMirrors, StoredAsParsed, OneThingAfterAnother, MirrorsListing,
         Passing, Booked
<1> QED
  BY <1>1, AloneInductive, PTL

(* A run that reaches its end leaves is_canonical and the rollups as they  *)
(* are defined over the records.                                           *)
THEOREM RunsDerive == Alone /\ Spec => []DerivedWhenPublished
<1>1. AloneInv => DerivedWhenPublished
  BY DEF AloneInv, DerivedWhenPublished, DerivedInOrder, Derived, Table
<1> QED
  BY <1>1, AloneInductive, PTL

(* Before the first fault, a run that ends leaves no change unpublished:   *)
(* one that changed something publishes it, and one that did not leaves    *)
(* nothing to publish.                                                     *)
THEOREM RunsPublish == Alone /\ Spec => UnbrokenRunsPublish
<1>1. AloneInv => (faults = 0 => \A r \in Runner : Publish(r) => ~ unpublished')
  BY DEF AloneInv, DerivedInOrder, Publish
<1> QED
  BY <1>1, AloneInductive, PTL DEF Spec, UnbrokenRunsPublish

(***************************************************************************)
(* The ingest implements BucketMirror                                      *)
(***************************************************************************)
LEMMA MirrorInit == Init => Mirror!Init
BY DEF Init, Mirror!Init, NoRows, NoFile, NoListing

(* A persisted file is shown: a version the bucket has held, and not one   *)
(* older than what was shown.                                              *)
LEMMA PersistShows ==
  ASSUME AloneInv, NEW r \in Runner, NEW k \in Key, Persist(r, k)
  PROVE  Mirror!Show(k)
<1> DEFINE v == got[r][k].version
<1>1. /\ k \in batch[r] /\ got[r][k].outcome = "parsed" /\ UNCHANGED bucket
      /\ files' = [files EXCEPT ![k] = FiledRow(r, k)]
      /\ gone' = (gone \ {k}) \cup ({k} \ present)
  BY DEF Persist, ItemDone
<1>2. listed[r][k] # 0 /\ listed[r][k] <= v /\ v <= latest[k] /\ files[k].body <= v
  BY <1>1 DEF AloneInv, IInv, WorkIsListed, SeenKeys, EtagBehindBody, MirrorsListing
<1>3. v \in 1 .. latest[k]
  BY <1>2, Numbers DEF AloneInv, IInv
<1>4. [j \in Key |-> files'[j].body] = [[j \in Key |-> files[j].body] EXCEPT ![k] = v]
  BY <1>1 DEF FiledRow, AloneInv, IInv, TypeOK
<1> QED
  BY <1>1, <1>2, <1>3, <1>4, Numbers DEF Mirror!Show, bucket, AloneInv, IInv

(* Deleting the orphans withdraws keys that have left the bucket.          *)
LEMMA OrphansWithdraw ==
  ASSUME AloneInv, NEW r \in Runner, DeleteOrphans(r)
  PROVE  Mirror!Withdraw(Orphans(r))
<1>1. /\ pc[r] = "orphans" /\ UNCHANGED <<bucket, gone>>
      /\ files' = [k \in Key |-> IF k \in Orphans(r) THEN NoFile ELSE files[k]]
  BY DEF DeleteOrphans, Goes, Deleted
<1>2. Orphans(r) \subseteq gone
  BY <1>1 DEF Orphans, AloneInv, MirrorsListing, Passing
<1>3. \A k \in Key : files'[k].body = IF k \in Orphans(r) THEN 0 ELSE files[k].body
  BY <1>1 DEF NoFile
<1> QED
  BY <1>1, <1>2, <1>3 DEF Mirror!Withdraw, bucket

LEMMA MirrorStep == ASSUME Alone PROVE AloneInv /\ [Next]_vars => [Mirror!Next]_(Mirror!vars)
<1> SUFFICES ASSUME AloneInv, [Next]_vars PROVE [Mirror!Next]_(Mirror!vars)
  OBVIOUS
<1>1. ASSUME NEW k \in Key, Upload(k) \/ Remove(k) PROVE Mirror!Next
  BY <1>1 DEF Upload, Remove, Mirror!Next, Mirror!Upload, Mirror!Remove, tables, signals
<1>2. CASE Cut
  BY <1>2, CutForgets DEF Mirror!vars, bucket, tables
<1>3. ASSUME NEW r \in Runner, Quiet(r) PROVE UNCHANGED Mirror!vars
  BY <1>3, QuietKeeps DEF Mirror!vars, bucket
<1>4. ASSUME NEW r \in Runner, DeleteOrphans(r) PROVE Mirror!Next
  <2>1. Orphans(r) \in SUBSET Key
    BY DEF Orphans, StoredIn
  <2>2. Mirror!Withdraw(Orphans(r))
    BY <1>4, OrphansWithdraw
  <2>3. \E S \in SUBSET Key : Mirror!Withdraw(S)
    BY <2>1, <2>2 DEF Mirror!Withdraw
  <2> QED
    BY <2>3 DEF Mirror!Next
<1>5. ASSUME NEW r \in Runner, NEW k \in Key, Fetch(r, k) \/ FetchFails(r, k)
      PROVE  UNCHANGED Mirror!vars
  BY <1>5 DEF Fetch, FetchFails, Resolve, Mirror!vars, bucket, tables, signals
<1>6. ASSUME NEW r \in Runner, NEW k \in Key, Persist(r, k) PROVE Mirror!Next
  BY <1>6, PersistShows DEF Mirror!Next
<1>7. CASE UNCHANGED vars
  BY <1>7 DEF vars, Mirror!vars, bucket, tables, signals
<1> QED
  BY <1>1, <1>2, <1>3, <1>4, <1>5, <1>6, <1>7, StepCases

(* Readers see, of each key, nothing or a version that the bucket has      *)
(* held, never one older than before, and lose only keys that have left.   *)
THEOREM IngestMirrors == Alone /\ Spec => MirrorSpec
<1>1. ASSUME Alone PROVE Spec => MirrorSpec
  BY <1>1, MirrorInit, MirrorStep, AloneInductive, PTL DEF Spec, MirrorSpec, Mirror!Spec
<1> QED
  BY <1>1
=============================================================================
