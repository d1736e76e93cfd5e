---------------------------- MODULE ReleaseProofs ----------------------------
(* Theorems about Release, for any jobs, versions, commits and attempts. *)
EXTENDS Release, TLAPS

\* Every step keeps every variable in its type.
THEOREM TypeCorrect == Spec => []TypeOK
<1>1. Init => TypeOK
  <2> SUFFICES ASSUME Init PROVE TypeOK
    OBVIOUS
  <2>1. \A v \in Version : NewJob(v) \in JobRecord
    BY BoundsAssumption DEF NewJob, JobRecord, Commit, Running
  <2>2. \A j \in Job : \E v \in Version : job[j] = NewJob(v)
    BY DEF Init
  <2>3. \A j \in Job : job[j].pc = "new" /\ job[j].attempt = 0
    <3> TAKE j \in Job
    <3> PICK v \in Version : job[j] = NewJob(v)
      BY <2>2
    <3> QED
      BY DEF NewJob
  <2>4. job = [j \in Job |-> job[j]]
    BY DEF Init
  <2>5. job \in [Job -> JobRecord] /\ \A j \in Job : At(j, "new") <=> job[j].attempt = 0
    <3>1. \A j \in Job : job[j] \in JobRecord
      BY <2>1, <2>2
    <3> QED
      BY <2>3, <2>4, <3>1 DEF At
  <2> QED
    BY <2>5, BoundsAssumption DEF Init, TypeOK, Commit
<1>2. TypeOK /\ [Next]_vars => TypeOK'
  <2> SUFFICES ASSUME TypeOK, [Next]_vars PROVE TypeOK'
    OBVIOUS
  <2> USE BoundsAssumption
  <2>1. ASSUME NEW j \in Job, job' = [job EXCEPT ![j] = job'[j]], job'[j] \in JobRecord,
               job'[j].pc = "new" <=> job'[j].attempt = 0
        PROVE  job' \in [Job -> JobRecord] /\ \A k \in Job : At(k, "new")' <=> job'[k].attempt = 0
    BY <2>1 DEF TypeOK, At
  <2>2. CASE \E j \in Job : Dispatch(j)
    <3> PICK j \in Job : Dispatch(j)
      BY <2>2
    <3> PICK onMain \in BOOLEAN : \E sha \in IF onMain THEN {head} ELSE Commit :
          job' = [job EXCEPT ![j].pc = "checkout", ![j].attempt = 1, ![j].onMain = onMain, ![j].sha = sha]
      BY DEF Dispatch
    <3> PICK sha \in Commit :
          job' = [job EXCEPT ![j].pc = "checkout", ![j].attempt = 1, ![j].onMain = onMain, ![j].sha = sha]
      BY DEF TypeOK
    <3>1. job'[j] \in JobRecord /\ (job'[j].pc = "new" <=> job'[j].attempt = 0)
      BY DEF Dispatch, TypeOK, JobRecord, Running
    <3>2. job' = [job EXCEPT ![j] = job'[j]]
      BY DEF TypeOK
    <3> QED
      BY <2>1, <3>1, <3>2 DEF Dispatch, server, TypeOK
  <2>3. CASE \E j \in Job : Rerun(j)
    <3> PICK j \in Job : Rerun(j)
      BY <2>3
    <3>1. job'[j] \in JobRecord /\ (job'[j].pc = "new" <=> job'[j].attempt = 0)
      BY DEF Rerun, TypeOK, JobRecord, Running, At
    <3>2. job' = [job EXCEPT ![j] = job'[j]]
      BY DEF Rerun, TypeOK
    <3> QED
      BY <2>1, <3>1, <3>2 DEF Rerun, server, TypeOK
  <2>4. CASE \E j \in Job : JobStep(j)
    <3> PICK j \in Job : JobStep(j)
      BY <2>4
    <3>1. job[j].pc \in Running /\ job[j] \in JobRecord /\ job[j].attempt # 0
      BY DEF JobStep, Checkout, Test, Tag, Draft, Upload, Publish, Verify, Fail, At, Running, TypeOK
    <3>2. job' = [job EXCEPT ![j] = job'[j]] /\ job'[j] \in JobRecord
          /\ (job'[j].pc = "new" <=> job'[j].attempt = 0)
      BY <3>1 DEF JobStep, Checkout, Test, Tag, Draft, Upload, Publish, Verify, Fail, Goto,
                  TypeOK, JobRecord, Running
    <3>3. job[j].version \in Version /\ This(j) \in Attempt /\ Evidence(j) \in Bundle
          /\ job[j].sha \in Commit
      BY <3>1 DEF This, Evidence, Attempt, Bundle, JobRecord
    <3>4. UNCHANGED <<head, immutable, touched>>
      BY DEF JobStep, Checkout, Test, Tag, Draft, Upload, Publish, Verify, Fail, server
    <3>5. /\ tag' \in [Version -> Commit \union {NoCommit}]
          /\ owner' \in [Version -> Attempt \union {NoOwner}]
      BY <3>3 DEF JobStep, Checkout, Test, Tag, Draft, Upload, Publish, Verify, Fail, server, TypeOK
    <3>6. /\ release' \in [Version -> {"absent", "draft", "published"}]
          /\ asset' \in [Version -> Bundle \union {NoAsset, Foreign}]
      BY <3>3 DEF JobStep, Checkout, Test, Tag, Draft, Upload, Publish, Verify, Fail, server, TypeOK
    <3> QED
      BY <2>1, <3>2, <3>4, <3>5, <3>6 DEF TypeOK
  <2>5. CASE PushMain
    BY <2>5 DEF PushMain, TypeOK, server, Commit, At
  <2>6. CASE \E v \in Version : ReplaceAsset(v)
    BY <2>6 DEF ReplaceAsset, TypeOK, At
  <2>7. CASE \E v \in Version : MoveTag(v)
    BY <2>7 DEF MoveTag, TypeOK, At
  <2>8. CASE UNCHANGED vars
    BY <2>8 DEF vars, server, TypeOK, At
  <2> QED
    BY <2>2, <2>3, <2>4, <2>5, <2>6, <2>7, <2>8 DEF Next
<1> QED
  BY <1>1, <1>2, PTL DEF Spec

-----------------------------------------------------------------------------
(* What a green job has verified *)

\* Verification needs an immutable release, which is what locks what it saw.
SuccessInv ==
  \A j \in Job : At(j, "succeeded") =>
    LET v == job[j].version
    IN  immutable /\ release[v] = "published" /\ tag[v] = job[j].sha /\ asset[v] = Evidence(j)

\* A job at "verify" has published.
PublishedInv == \A j \in Job : At(j, "verify") => release[job[j].version] = "published"

\* A job's step leaves the other jobs alone.
LEMMA OtherJobs ==
  ASSUME TypeOK, NEW j \in Job, JobStep(j) \/ Dispatch(j) \/ Rerun(j),
         NEW k \in Job, k # j
  PROVE  job'[k] = job[k]
BY DEF TypeOK, JobStep, Checkout, Test, Tag, Draft, Upload, Publish, Verify, Fail, Goto,
       Dispatch, Rerun

\* A job is started at its checkout.
LEMMA Started ==
  ASSUME TypeOK, NEW j \in Job, Dispatch(j) \/ Rerun(j)
  PROVE  job'[j].pc = "checkout" /\ job'[j].version = job[j].version /\ UNCHANGED server
<1>1. CASE Rerun(j)
  BY <1>1 DEF Rerun, TypeOK, JobRecord
<1>2. CASE Dispatch(j)
  <2>1. PICK onMain \in BOOLEAN : \E sha \in IF onMain THEN {head} ELSE Commit :
          job' = [job EXCEPT ![j].pc = "checkout", ![j].attempt = 1,
                             ![j].onMain = onMain, ![j].sha = sha]
    BY <1>2 DEF Dispatch
  <2>2. PICK sha \in IF onMain THEN {head} ELSE Commit :
          job' = [job EXCEPT ![j].pc = "checkout", ![j].attempt = 1,
                             ![j].onMain = onMain, ![j].sha = sha]
    BY <2>1
  <2>3. job \in [Job -> JobRecord]
    BY DEF TypeOK
  <2>4. job'[j].pc = "checkout" /\ job'[j].version = job[j].version
    BY <2>2, <2>3 DEF JobRecord
  <2> QED
    BY <1>2, <2>4 DEF Dispatch
<1> QED
  BY <1>1, <1>2

\* No step unpublishes.
LEMMA PublishedStays ==
  ASSUME TypeOK, [Next]_vars, NEW v \in Version, release[v] = "published"
  PROVE  release'[v] = "published"
<1>1. CASE \E j \in Job : JobStep(j)
  BY <1>1 DEF TypeOK, JobStep, Checkout, Test, Tag, Draft, Upload, Publish, Verify, Fail, server
<1> QED
  BY <1>1 DEF Next, Dispatch, Rerun, PushMain, ReplaceAsset, MoveTag, vars, server

\* A green job's verdict about release, tag and asset outlives every step.
THEOREM SuccessIsLasting == Spec => []SuccessLasts
<1> DEFINE Inv == SuccessInv /\ PublishedInv
<1>1. Init => Inv
  <2> SUFFICES ASSUME Init, NEW j \in Job PROVE job[j].pc = "new"
    BY DEF SuccessInv, PublishedInv, At
  <2> QED
    BY DEF Init, NewJob
<1>2. TypeOK /\ Inv /\ [Next]_vars => Inv'
  <2> SUFFICES ASSUME TypeOK, Inv, [Next]_vars PROVE Inv'
    OBVIOUS
  <2> USE ReleaseMarksAssumption
  <2>1. PublishedInv'
    <3> SUFFICES ASSUME NEW k \in Job, job'[k].pc = "verify"
                 PROVE  release'[job'[k].version] = "published"
      BY DEF PublishedInv, At
    <3>1. ASSUME job'[k] = job[k] PROVE release'[job'[k].version] = "published"
      <4>1. release[job[k].version] = "published" /\ job[k].version \in Version
        BY <3>1 DEF PublishedInv, At, TypeOK, JobRecord
      <4> QED
        BY <3>1, <4>1, PublishedStays
    <3>2. CASE JobStep(k)
      <4>1. Publish(k)
        BY <3>2 DEF JobStep, Checkout, Test, Tag, Draft, Upload, Verify, Fail, Goto, TypeOK, JobRecord
      <4> QED
        BY <4>1 DEF Publish, Goto, TypeOK, JobRecord
    <3>3. CASE Dispatch(k) \/ Rerun(k)
      BY <3>3, Started
    <3>4. CASE \E j \in Job \ {k} : Dispatch(j) \/ Rerun(j) \/ JobStep(j)
      BY <3>1, <3>4, OtherJobs
    <3> QED
      BY <3>1, <3>2, <3>3, <3>4 DEF Next, PushMain, ReplaceAsset, MoveTag, vars
  <2>2. SuccessInv'
    <3> SUFFICES ASSUME NEW k \in Job, job'[k].pc = "succeeded", NEW v, v = job'[k].version
                 PROVE  /\ immutable' /\ release'[v] = "published"
                        /\ tag'[v] = job'[k].sha /\ asset'[v] = Evidence(k)'
      BY DEF SuccessInv, At
    <3>1. ASSUME job'[k] = job[k]
          PROVE  /\ v \in Version /\ immutable /\ release[v] = "published"
                 /\ tag[v] = job[k].sha /\ asset[v] = Evidence(k)
                 /\ Evidence(k)' = Evidence(k) /\ tag[v] \in Commit /\ asset[v] \in Bundle
      <4>1. v \in Version /\ immutable /\ release[v] = "published"
            /\ tag[v] = job[k].sha /\ asset[v] = Evidence(k) /\ job[k] \in JobRecord
        BY <3>1 DEF SuccessInv, At, TypeOK, JobRecord
      <4>2. Evidence(k)' = Evidence(k)
        BY <3>1 DEF Evidence, This
      <4>3. job[k].attempt # 0
        BY <3>1 DEF TypeOK, At
      <4>4. Evidence(k) \in Bundle
        BY <4>1, <4>3, BoundsAssumption DEF Evidence, This, Bundle, Attempt, JobRecord
      <4> QED
        BY <4>1, <4>2, <4>4 DEF JobRecord
    <3>2. ASSUME job'[k] = job[k], UNCHANGED <<immutable, tag, asset>>
          PROVE  /\ immutable' /\ release'[v] = "published"
                 /\ tag'[v] = job'[k].sha /\ asset'[v] = Evidence(k)'
      BY <3>1, <3>2, PublishedStays
    <3>3. CASE JobStep(k)
      <4>1. Verify(k)
        BY <3>3 DEF JobStep, Checkout, Test, Tag, Draft, Upload, Publish, Fail, Goto, TypeOK, JobRecord
      <4>2. job'[k] = [job[k] EXCEPT !.pc = "succeeded"]
        BY <4>1 DEF Verify, Goto, TypeOK
      <4>3. v = job[k].version /\ Evidence(k)' = Evidence(k) /\ job'[k].sha = job[k].sha
            /\ release[v] = "published"
        BY <4>1, <4>2 DEF Evidence, This, Verify, PublishedInv, TypeOK, JobRecord
      <4> QED
        BY <4>1, <4>3 DEF Verify, server
    <3>4. CASE Dispatch(k) \/ Rerun(k)
      BY <3>4, Started
    <3>5. CASE \E j \in Job \ {k} : Dispatch(j) \/ Rerun(j) \/ JobStep(j)
      <4> PICK j \in Job \ {k} : Dispatch(j) \/ Rerun(j) \/ JobStep(j)
        BY <3>5
      <4>1. job'[k] = job[k]
        BY OtherJobs
      <4>2. CASE Tag(j)
        <5>1. job[j].version # v
          BY <3>1, <4>1, <4>2 DEF Tag
        <5> QED
          BY <3>1, <4>1, <4>2, <5>1 DEF Tag, TypeOK
      <4>3. CASE Upload(j)
        <5>1. job[j].version # v
          BY <3>1, <4>1, <4>3 DEF Upload
        <5> QED
          BY <3>1, <4>1, <4>3, <5>1 DEF Upload, TypeOK
      <4>4. ASSUME ~Tag(j), ~Upload(j) PROVE UNCHANGED <<immutable, tag, asset>>
        BY <4>4 DEF JobStep, Checkout, Test, Draft, Publish, Verify, Fail, Dispatch, Rerun, server
      <4> QED
        BY <3>2, <4>1, <4>2, <4>3, <4>4
    <3>6. CASE PushMain \/ UNCHANGED vars
      BY <3>2, <3>6 DEF PushMain, vars, server
    <3>7. CASE \E w \in Version : ReplaceAsset(w) \/ MoveTag(w)
      <4> PICK w \in Version : ReplaceAsset(w) \/ MoveTag(w)
        BY <3>7
      <4>1. job'[k] = job[k]
        BY DEF ReplaceAsset, MoveTag
      <4>2. w # v
        BY <3>1, <4>1 DEF ReplaceAsset, MoveTag, Locked
      <4> QED
        BY <3>1, <4>1, <4>2 DEF ReplaceAsset, MoveTag, TypeOK
    <3> QED
      BY <3>3, <3>4, <3>5, <3>6, <3>7 DEF Next
  <2> QED
    BY <2>1, <2>2
<1>3. Inv => SuccessLasts
  BY DEF SuccessInv, SuccessLasts
<1> QED
  BY <1>1, <1>2, <1>3, TypeCorrect, PTL DEF Spec

\* Two jobs are never green for one version at a time.
GreenOnce ==
  \A j, k \in Job : At(j, "succeeded") /\ At(k, "succeeded") /\ job[j].version = job[k].version
                      => j = k

\* However many jobs are started for a version, and started over, at most one of
\* them is green: both would vouch for the one asset, which names the attempt that
\* made it (release.yml:97-113).
THEOREM SuccessIsUnique == Spec => []GreenOnce
<1>1. SuccessLasts => GreenOnce
  <2> SUFFICES ASSUME SuccessLasts, NEW j \in Job, NEW k \in Job,
                      At(j, "succeeded"), At(k, "succeeded"), job[j].version = job[k].version
               PROVE  j = k
    BY DEF GreenOnce
  <2>1. asset[job[j].version] = Evidence(j) /\ asset[job[k].version] = Evidence(k)
    BY DEF SuccessLasts
  <2>2. Evidence(j).by = Evidence(k).by
    BY <2>1
  <2>3. This(j) = This(k)
    BY <2>2 DEF Evidence
  <2> QED
    BY <2>3 DEF This
<1> QED
  BY <1>1, SuccessIsLasting, PTL

-----------------------------------------------------------------------------
(* One attempt for each version *)

Holding == {"draft", "upload", "publish", "verify"}

\* The attempt past its tag is the one that owns the version.
HoldersInv ==
  \A j \in Job : job[j].pc \in Holding =>
    LET v == job[j].version
    IN  /\ owner[v] = This(j) /\ tag[v] # NoCommit
        /\ ~touched[v] => tag[v] = job[j].sha
        /\ job[j].pc \in {"publish", "verify"} => asset[v] # NoAsset

\* Versions have an owner as soon as they have a tag, and both before anything else.
VersionsInv ==
  \A v \in Version :
    /\ owner[v] = NoOwner <=> tag[v] = NoCommit
    /\ release[v] # "absent" => tag[v] # NoCommit
    /\ release[v] = "published" => asset[v] # NoAsset
    /\ asset[v] # NoAsset /\ ~touched[v] =>
         asset[v] \in Bundle /\ asset[v].by = owner[v] /\ asset[v].commit = tag[v]

ClaimInv == HoldersInv /\ VersionsInv

\* Steps that leave the server alone and bring nobody past a tag keep ClaimInv.
LEMMA QuietSteps ==
  ASSUME ClaimInv, UNCHANGED server,
         \A k \in Job : job'[k].pc \in Holding =>
           /\ job[k].pc \in Holding /\ job'[k].version = job[k].version
           /\ job'[k].attempt = job[k].attempt /\ job'[k].sha = job[k].sha
           /\ job'[k].pc \in {"publish", "verify"} => job[k].pc \in {"publish", "verify"}
  PROVE  ClaimInv'
<1>1. VersionsInv'
  BY DEF ClaimInv, VersionsInv, server
<1>2. HoldersInv'
  BY DEF ClaimInv, HoldersInv, This, server
<1> QED
  BY <1>1, <1>2 DEF ClaimInv

\* ClaimInv is kept by the step of a job.
LEMMA ClaimKeptByJobs ==
  ASSUME TypeOK, ClaimInv, NEW j \in Job, JobStep(j)
  PROVE  ClaimInv'
<1> DEFINE v == job[j].version
<1> USE ReleaseMarksAssumption
<1>1. /\ job \in [Job -> JobRecord] /\ job[j] \in JobRecord /\ v \in Version
      /\ This(j) \in Attempt /\ job[j].sha \in Commit /\ Evidence(j) \in Bundle
  <2>1. job[j].attempt # 0 /\ job[j] \in JobRecord
    BY DEF JobStep, Checkout, Test, Tag, Draft, Upload, Publish, Verify, Fail, At, Running, TypeOK
  <2> QED
    BY <2>1, BoundsAssumption DEF TypeOK, JobRecord, This, Attempt, Evidence, Bundle
<1>2. \A k \in Job \ {j} : job'[k] = job[k]
  BY OtherJobs
<1>3. CASE Checkout(j) \/ Test(j) \/ Verify(j) \/ Fail(j)
  <2>1. job'[j].pc \notin Holding
    BY <1>1, <1>3 DEF Checkout, Test, Verify, Fail, Goto, Holding, JobRecord
  <2>2. UNCHANGED server
    BY <1>3 DEF Checkout, Test, Verify, Fail
  <2> QED
    BY <1>2, <2>1, <2>2, QuietSteps
<1>4. ASSUME NEW where, job[j].pc = where, NEW next, Goto(j, next)
      PROVE  job'[j].pc = next /\ job'[j].version = v /\ job'[j].sha = job[j].sha
             /\ This(j)' = This(j)
  BY <1>1, <1>4 DEF Goto, JobRecord, This
<1>5. CASE Tag(j)
  <2>1. job'[j].pc = "draft" /\ job'[j].version = v /\ job'[j].sha = job[j].sha
        /\ This(j)' = This(j)
    BY <1>4, <1>5 DEF Tag
  <2>2. tag[v] = NoCommit /\ tag'[v] = job[j].sha /\ owner'[v] = This(j)
        /\ UNCHANGED <<release, asset, touched>>
    BY <1>1, <1>5 DEF Tag, TypeOK
  <2>3. \A w \in Version \ {v} : tag'[w] = tag[w] /\ owner'[w] = owner[w]
    BY <1>1, <1>5 DEF Tag, TypeOK
  <2>4. owner[v] = NoOwner /\ (asset[v] # NoAsset => touched[v])
    BY <1>1, <2>2 DEF ClaimInv, VersionsInv, Bundle
  <2>5. VersionsInv'
    <3> SUFFICES ASSUME NEW w \in Version PROVE
          /\ owner'[w] = NoOwner <=> tag'[w] = NoCommit
          /\ release'[w] # "absent" => tag'[w] # NoCommit
          /\ release'[w] = "published" => asset'[w] # NoAsset
          /\ asset'[w] # NoAsset /\ ~touched'[w] =>
               asset'[w] \in Bundle /\ asset'[w].by = owner'[w] /\ asset'[w].commit = tag'[w]
      BY DEF VersionsInv
    <3>1. CASE w = v
      BY <1>1, <2>2, <2>4, <3>1 DEF ClaimInv, VersionsInv
    <3>2. CASE w # v
      BY <2>2, <2>3, <3>2 DEF ClaimInv, VersionsInv
    <3> QED
      BY <3>1, <3>2
  <2>6. ASSUME NEW k \in Job, k # j, job[k].pc \in Holding
        PROVE  job[k].version # v /\ job[k].version \in Version
    BY <2>2, <2>6 DEF ClaimInv, HoldersInv, TypeOK, JobRecord
  <2>7. HoldersInv'
    <3> SUFFICES ASSUME NEW k \in Job, job'[k].pc \in Holding, NEW w, w = job'[k].version
                 PROVE  /\ owner'[w] = This(k)' /\ tag'[w] # NoCommit
                        /\ ~touched'[w] => tag'[w] = job'[k].sha
                        /\ job'[k].pc \in {"publish", "verify"} => asset'[w] # NoAsset
      BY DEF HoldersInv
    <3>1. CASE k = j
      BY <1>1, <2>1, <2>2, <3>1
    <3>2. CASE k # j
      <4>1. job'[k] = job[k] /\ This(k)' = This(k)
        BY <1>2, <3>2 DEF This
      <4> QED
        BY <2>2, <2>3, <2>6, <3>2, <4>1 DEF ClaimInv, HoldersInv
    <3> QED
      BY <3>1, <3>2
  <2> QED
    BY <2>5, <2>7 DEF ClaimInv
<1>6. CASE Draft(j)
  <2>1. job[j].pc = "draft" /\ job'[j].pc = "upload" /\ job'[j].version = v
        /\ job'[j].sha = job[j].sha /\ This(j)' = This(j)
    BY <1>4, <1>6 DEF Draft, At
  <2>2. tag[v] # NoCommit
    BY <2>1 DEF ClaimInv, HoldersInv, Holding
  <2>3. UNCHANGED <<tag, asset, owner, touched>>
        /\ \A w \in Version : release'[w] = IF w = v THEN "draft" ELSE release[w]
    BY <1>1, <1>6 DEF Draft, TypeOK
  <2>4. VersionsInv'
    BY <1>1, <2>2, <2>3 DEF ClaimInv, VersionsInv
  <2>5. HoldersInv'
    BY <1>2, <2>1, <2>3 DEF ClaimInv, HoldersInv, Holding, This
  <2> QED
    BY <2>4, <2>5 DEF ClaimInv
<1>7. CASE Upload(j)
  <2>1. job[j].pc = "upload" /\ job'[j].pc = "publish" /\ job'[j].version = v
        /\ job'[j].sha = job[j].sha /\ This(j)' = This(j)
    BY <1>4, <1>7 DEF Upload, At
  <2>2. owner[v] = This(j) /\ tag[v] # NoCommit /\ (~touched[v] => tag[v] = job[j].sha)
    BY <2>1 DEF ClaimInv, HoldersInv, Holding
  <2>3. UNCHANGED <<tag, release, owner, touched>>
        /\ asset'[v] = Evidence(j) /\ \A w \in Version \ {v} : asset'[w] = asset[w]
    BY <1>1, <1>7 DEF Upload, TypeOK
  <2>4. VersionsInv'
    <3>1. asset'[v] \in Bundle /\ asset'[v].by = This(j) /\ asset'[v].commit = job[j].sha
      BY <1>1, <2>3 DEF Evidence
    <3> QED
      BY <1>1, <2>2, <2>3, <3>1 DEF ClaimInv, VersionsInv
  <2>5. HoldersInv'
    <3> SUFFICES ASSUME NEW k \in Job, job'[k].pc \in Holding, NEW w, w = job'[k].version
                 PROVE  /\ owner'[w] = This(k)' /\ tag'[w] # NoCommit
                        /\ ~touched'[w] => tag'[w] = job'[k].sha
                        /\ job'[k].pc \in {"publish", "verify"} => asset'[w] # NoAsset
      BY DEF HoldersInv
    <3>1. CASE k = j
      BY <1>1, <2>1, <2>2, <2>3, <3>1
    <3>2. CASE k # j
      <4>1. job'[k] = job[k] /\ This(k)' = This(k) /\ job[k].version \in Version
        BY <1>1, <1>2, <3>2 DEF This, JobRecord
      <4>2. asset[w] # NoAsset => asset'[w] # NoAsset
        BY <1>1, <2>3, <4>1
      <4> QED
        BY <2>3, <3>2, <4>1, <4>2 DEF ClaimInv, HoldersInv
    <3> QED
      BY <3>1, <3>2
  <2> QED
    BY <2>4, <2>5 DEF ClaimInv
<1>8. CASE Publish(j)
  <2>1. job[j].pc = "publish" /\ job'[j].pc = "verify" /\ job'[j].version = v
        /\ job'[j].sha = job[j].sha /\ This(j)' = This(j)
    BY <1>4, <1>8 DEF Publish, At
  <2>2. tag[v] # NoCommit /\ asset[v] # NoAsset
    BY <2>1 DEF ClaimInv, HoldersInv, Holding
  <2>3. UNCHANGED <<tag, asset, owner, touched>>
        /\ \A w \in Version : release'[w] = IF w = v THEN "published" ELSE release[w]
    BY <1>1, <1>8 DEF Publish, TypeOK
  <2>4. VersionsInv'
    BY <1>1, <2>2, <2>3 DEF ClaimInv, VersionsInv
  <2>5. HoldersInv'
    BY <1>2, <2>1, <2>3 DEF ClaimInv, HoldersInv, Holding, This
  <2> QED
    BY <2>4, <2>5 DEF ClaimInv
<1> QED
  BY <1>3, <1>5, <1>6, <1>7, <1>8 DEF JobStep

\* ClaimInv is kept by every step.
LEMMA ClaimKept == TypeOK /\ ClaimInv /\ [Next]_vars => ClaimInv'
<1> SUFFICES ASSUME TypeOK, ClaimInv, [Next]_vars PROVE ClaimInv'
  OBVIOUS
<1> USE ReleaseMarksAssumption
<1>1. CASE \E j \in Job : JobStep(j)
  BY <1>1, ClaimKeptByJobs
<1>2. CASE \E j \in Job : Dispatch(j) \/ Rerun(j)
  <2> PICK j \in Job : Dispatch(j) \/ Rerun(j)
    BY <1>2
  <2>1. job'[j].pc \notin Holding /\ UNCHANGED server
    BY Started DEF Holding
  <2> QED
    BY <2>1, OtherJobs, QuietSteps
<1>3. CASE PushMain \/ UNCHANGED vars
  BY <1>3, QuietSteps DEF PushMain, vars
<1>4. CASE \E v \in Version : ReplaceAsset(v)
  <2> PICK v \in Version : ReplaceAsset(v)
    BY <1>4
  <2>1. UNCHANGED <<job, tag, release, owner>> /\ asset[v] # NoAsset /\ asset'[v] # NoAsset
        /\ touched'[v]
    BY DEF ReplaceAsset, TypeOK
  <2>2. \A w \in Version \ {v} : asset'[w] = asset[w] /\ touched'[w] = touched[w]
    BY DEF ReplaceAsset, TypeOK
  <2>3. VersionsInv'
    BY <2>1, <2>2 DEF ClaimInv, VersionsInv
  <2>4. HoldersInv'
    BY <2>1, <2>2 DEF ClaimInv, HoldersInv, This, TypeOK, JobRecord
  <2> QED
    BY <2>3, <2>4 DEF ClaimInv
<1>5. CASE \E v \in Version : MoveTag(v)
  <2> PICK v \in Version : MoveTag(v)
    BY <1>5
  <2>1. UNCHANGED <<job, asset, release, owner>> /\ tag[v] # NoCommit /\ tag'[v] # NoCommit
        /\ touched'[v]
    BY DEF MoveTag, TypeOK
  <2>2. \A w \in Version \ {v} : tag'[w] = tag[w] /\ touched'[w] = touched[w]
    BY DEF MoveTag, TypeOK
  <2>3. VersionsInv'
    BY <2>1, <2>2 DEF ClaimInv, VersionsInv
  <2>4. HoldersInv'
    BY <2>1, <2>2 DEF ClaimInv, HoldersInv, This, TypeOK, JobRecord
  <2> QED
    BY <2>3, <2>4 DEF ClaimInv
<1> QED
  BY <1>1, <1>2, <1>3, <1>4, <1>5 DEF Next

\* Every reachable state satisfies it.
LEMMA Claims == Spec => [](TypeOK /\ ClaimInv)
<1>1. Init => ClaimInv
  <2> SUFFICES ASSUME Init PROVE ClaimInv
    OBVIOUS
  <2>1. \A j \in Job : job[j].pc = "new"
    BY DEF Init, NewJob
  <2> QED
    BY <2>1 DEF Init, ClaimInv, HoldersInv, VersionsInv, Holding
<1> QED
  BY <1>1, ClaimKept, TypeCorrect, PTL DEF Spec

\* A published release that nobody meddled with is the work of one attempt.
THEOREM ReleasesAreOfOneAttempt == Spec => []ReleaseIsOfOneAttempt
<1>1. TypeOK /\ ClaimInv => ReleaseIsOfOneAttempt
  BY DEF ClaimInv, VersionsInv, ReleaseIsOfOneAttempt
<1> QED
  BY <1>1, Claims, PTL

-----------------------------------------------------------------------------
(* The refinement *)

Life  == [a \in Attempt |-> LifeOf(a)]
Stage == [v \in Version |-> StageOf(v)]

\* What the three kinds of steps of a job do to the lives of the attempts.
LEMMA LifeSteps ==
  ASSUME TypeOK, NEW j \in Job, \A k \in Job \ {j} : job'[k] = job[k]
  PROVE  /\ job'[j].attempt = job[j].attempt /\ job[j].pc \in Running /\ job'[j].pc \in Running
              => Life' = Life
         /\ job'[j].attempt = job[j].attempt /\ job[j].pc \in Running /\ job'[j].pc \notin Running
              => Life[This(j)] = "live" /\ Life' = [Life EXCEPT ![This(j)] = "over"]
         /\ job'[j].attempt = job[j].attempt + 1 /\ job[j].pc \notin Running
              /\ job'[j].pc \in Running /\ job'[j].attempt \in 1 .. MaxAttempts
              => Life[This(j)'] = "new" /\ Life' = [Life EXCEPT ![This(j)'] = "live"]
<1> USE BoundsAssumption
<1>1. job[j].attempt \in Nat /\ \A a \in Attempt : a[1] \in Job /\ a[2] \in Nat /\ a = <<a[1], a[2]>>
  BY DEF TypeOK, JobRecord, Attempt
<1>2. \A a \in Attempt : a[1] # j => LifeOf(a)' = LifeOf(a)
  BY <1>1 DEF LifeOf
<1>3. CASE job'[j].attempt = job[j].attempt /\ job[j].pc \in Running /\ job'[j].pc \in Running
  <2>1. \A a \in Attempt : LifeOf(a)' = LifeOf(a)
    BY <1>2, <1>3 DEF LifeOf
  <2> QED
    BY <1>3, <2>1 DEF Life
<1>4. CASE job'[j].attempt = job[j].attempt /\ job[j].pc \in Running /\ job'[j].pc \notin Running
  <2>1. job[j].attempt # 0 /\ This(j) \in Attempt
    <3>1. job[j].attempt # 0
      BY <1>4 DEF TypeOK, At, Running
    <3> QED
      BY <3>1 DEF TypeOK, JobRecord, This, Attempt
  <2>2. LifeOf(This(j)) = "live" /\ LifeOf(This(j))' = "over"
    BY <1>1, <1>4 DEF LifeOf, This
  <2>3. \A a \in Attempt : a # This(j) => LifeOf(a)' = LifeOf(a)
    BY <1>1, <1>2, <1>4 DEF LifeOf, This
  <2>4. \A a \in Attempt : a = This(j) => LifeOf(a)' = "over"
    BY <1>1, <1>4 DEF LifeOf, This
  <2> QED
    BY <1>4, <2>1, <2>2, <2>3, <2>4 DEF Life
<1>5. CASE /\ job'[j].attempt = job[j].attempt + 1 /\ job[j].pc \notin Running
           /\ job'[j].pc \in Running /\ job'[j].attempt \in 1 .. MaxAttempts
  <2>1. This(j)' \in Attempt
    BY <1>5 DEF This, Attempt
  <2>2. LifeOf(This(j)') = "new"
    BY <1>1, <1>5 DEF LifeOf, This
  <2>3. \A a \in Attempt : a = This(j)' => LifeOf(a)' = "live"
    BY <1>1, <1>5 DEF LifeOf, This
  <2>4. \A a \in Attempt : a # This(j)' => LifeOf(a)' = LifeOf(a)
    BY <1>1, <1>2, <1>5 DEF LifeOf, This
  <2> QED
    BY <1>5, <2>1, <2>2, <2>3, <2>4 DEF Life
<1> QED
  BY <1>3, <1>4, <1>5

\* Every step of the workflow is a step of VersionLifecycle, or none.
LEMMA LifecycleStep ==
  TypeOK /\ ClaimInv /\ [Next]_vars => [Lifecycle!Next]_(Lifecycle!vars)
<1> SUFFICES ASSUME TypeOK, ClaimInv, [Next]_vars PROVE [Lifecycle!Next]_(Lifecycle!vars)
  OBVIOUS
<1> USE ReleaseMarksAssumption, BoundsAssumption
<1>0. Lifecycle!vars = <<Life, owner, Stage>> /\ (Lifecycle!vars)' = <<Life, owner, Stage>>'
  BY DEF Lifecycle!vars, Life, Stage
<1>1. ASSUME NEW j \in Job, Dispatch(j) \/ Rerun(j) PROVE Lifecycle!Next
  <2>1. /\ job'[j].attempt = job[j].attempt + 1 /\ job[j].pc \notin Running
        /\ job'[j].pc \in Running /\ job'[j].attempt \in 1 .. MaxAttempts
    <3>1. CASE Rerun(j)
      BY <3>1 DEF Rerun, TypeOK, JobRecord, Running, At
    <3>2. CASE Dispatch(j)
      <4>1. PICK onMain \in BOOLEAN : \E sha \in IF onMain THEN {head} ELSE Commit :
              job' = [job EXCEPT ![j].pc = "checkout", ![j].attempt = 1,
                                 ![j].onMain = onMain, ![j].sha = sha]
        BY <3>2 DEF Dispatch
      <4>2. PICK sha \in IF onMain THEN {head} ELSE Commit :
              job' = [job EXCEPT ![j].pc = "checkout", ![j].attempt = 1,
                                 ![j].onMain = onMain, ![j].sha = sha]
        BY <4>1
      <4>3. job \in [Job -> JobRecord] /\ job[j].pc = "new" /\ job[j].attempt = 0 /\ MaxAttempts > 0
        BY <3>2 DEF TypeOK, Dispatch, At
      <4>4. job'[j].pc = "checkout" /\ job'[j].attempt = 1
        BY <4>2, <4>3 DEF JobRecord
      <4> QED
        BY <4>3, <4>4 DEF Running
    <3> QED
      BY <1>1, <3>1, <3>2
  <2>2. Life[This(j)'] = "new" /\ Life' = [Life EXCEPT ![This(j)'] = "live"]
    BY <1>1, <2>1, OtherJobs, LifeSteps
  <2>3. This(j)' \in Attempt
    BY <2>1 DEF This, Attempt
  <2>4. UNCHANGED <<owner, Stage>>
    BY <1>1, Started DEF server, Stage, StageOf
  <2>5. Lifecycle!Begin(This(j)')
    BY <2>2, <2>4 DEF Lifecycle!Begin, Life, Stage
  <2> QED
    BY <2>3, <2>5 DEF Lifecycle!Next
<1>2. ASSUME NEW j \in Job, JobStep(j) PROVE [Lifecycle!Next]_<<Life, owner, Stage>>
  <2> PICK v \in Version : v = job[j].version
    BY DEF TypeOK, JobRecord
  <2>1. /\ job \in [Job -> JobRecord] /\ job[j] \in JobRecord /\ v = job[j].version
        /\ This(j) \in Attempt /\ job[j].pc \in Running /\ LifeOf(This(j)) = "live"
    <3>1. job[j].attempt # 0 /\ job[j].pc \in Running
      BY <1>2 DEF JobStep, Checkout, Test, Tag, Draft, Upload, Publish, Verify, Fail, At, Running, TypeOK
    <3> QED
      BY <3>1 DEF TypeOK, JobRecord, This, Attempt, LifeOf
  <2>2. job'[j].attempt = job[j].attempt
    BY <1>2, <2>1 DEF JobStep, Checkout, Test, Tag, Draft, Upload, Publish, Verify, Fail, Goto, JobRecord
  <2>3. CASE Checkout(j) \/ Test(j) \/ Upload(j)
    <3>1. job'[j].pc \in Running
      BY <2>1, <2>3 DEF Checkout, Test, Upload, Goto, JobRecord, Running
    <3>2. Life' = Life
      BY <1>2, <2>1, <2>2, <3>1, OtherJobs, LifeSteps
    <3>3. UNCHANGED <<owner, tag, release>>
      BY <2>3 DEF Checkout, Test, Upload, server
    <3> QED
      BY <3>2, <3>3 DEF Stage, StageOf
  <2>4. CASE Verify(j) \/ Fail(j)
    <3>1. job'[j].pc \notin Running
      BY <2>1, <2>4 DEF Verify, Fail, Goto, JobRecord, Running
    <3>2. Life[This(j)] = "live" /\ Life' = [Life EXCEPT ![This(j)] = "over"]
      BY <1>2, <2>1, <2>2, <3>1, OtherJobs, LifeSteps
    <3>3. UNCHANGED <<owner, Stage>>
      BY <2>4 DEF Verify, Fail, server, Stage, StageOf
    <3>4. Lifecycle!End(This(j))
      BY <3>2, <3>3 DEF Lifecycle!End, Life, Stage
    <3> QED
      BY <2>1, <3>4 DEF Lifecycle!Next
  <2>5. ASSUME Tag(j) \/ Draft(j) \/ Publish(j) PROVE Life' = Life
    <3>1. job'[j].pc \in Running
      BY <2>1, <2>5 DEF Tag, Draft, Publish, Goto, JobRecord, Running
    <3> QED
      BY <1>2, <2>1, <2>2, <3>1, OtherJobs, LifeSteps
  <2>6. CASE Tag(j)
    <3>1. tag[v] = NoCommit /\ tag' = [tag EXCEPT ![v] = job[j].sha] /\ job[j].sha \in Commit
          /\ owner' = [owner EXCEPT ![v] = This(j)] /\ release' = release
      BY <2>1, <2>6 DEF Tag, JobRecord
    <3>2. owner[v] = NoOwner /\ release[v] = "absent"
      BY <2>1, <3>1 DEF ClaimInv, VersionsInv
    <3>3. StageOf(v) = "absent" /\ StageOf(v)' = "tagged"
      BY <2>1, <3>1, <3>2 DEF StageOf, TypeOK
    <3>4. \A w \in Version \ {v} : StageOf(w)' = StageOf(w)
      BY <2>1, <3>1 DEF StageOf, TypeOK
    <3>5. Stage' = [Stage EXCEPT ![v] = "tagged"] /\ Stage[v] = "absent"
      BY <2>1, <3>3, <3>4 DEF Stage
    <3>6. Lifecycle!Claim(v, This(j))
      BY <2>1, <2>5, <2>6, <3>1, <3>2, <3>5 DEF Lifecycle!Claim, Life, Stage
    <3> QED
      BY <2>1, <3>6 DEF Lifecycle!Next
  <2>7. ASSUME NEW from, NEW to, Stage[v] = from, Stage' = [Stage EXCEPT ![v] = to],
               Life' = Life, owner' = owner, owner[v] = This(j),
               <<from, to>> \in {<<"tagged", "draft">>, <<"draft", "published">>}
        PROVE  Lifecycle!Next
    <3>1. Lifecycle!Advance(v)
      BY <2>1, <2>7 DEF Lifecycle!Advance, Life, Stage
    <3> QED
      BY <2>1, <3>1 DEF Lifecycle!Next
  <2>8. ASSUME job[j].pc \in Holding PROVE owner[v] = This(j) /\ tag[v] # NoCommit
    BY <2>8 DEF ClaimInv, HoldersInv
  <2>9. ASSUME NEW to \in {"draft", "published"}, UNCHANGED <<tag, owner>>,
               release' = [release EXCEPT ![v] = to], tag[v] # NoCommit
        PROVE  Stage' = [Stage EXCEPT ![v] = to]
    <3>1. StageOf(v)' = to
      BY <2>1, <2>9 DEF StageOf, TypeOK
    <3>2. \A w \in Version \ {v} : StageOf(w)' = StageOf(w)
      BY <2>1, <2>9 DEF StageOf, TypeOK
    <3> QED
      BY <2>1, <3>1, <3>2 DEF Stage
  <2>10. CASE Draft(j)
    <3>1. owner[v] = This(j) /\ tag[v] # NoCommit
      BY <2>8, <2>10 DEF Draft, At, Holding
    <3>2. release[v] = "absent" /\ release' = [release EXCEPT ![v] = "draft"] /\ UNCHANGED <<tag, owner>>
      BY <2>10 DEF Draft
    <3>3. Stage[v] = "tagged"
      BY <2>1, <3>1, <3>2 DEF Stage, StageOf
    <3>4. Stage' = [Stage EXCEPT ![v] = "draft"]
      BY <2>9, <3>1, <3>2
    <3> QED
      BY <2>5, <2>7, <2>10, <3>1, <3>2, <3>3, <3>4
  <2>11. CASE Publish(j)
    <3>1. owner[v] = This(j) /\ tag[v] # NoCommit
      BY <2>8, <2>11 DEF Publish, At, Holding
    <3>2. release[v] = "draft" /\ release' = [release EXCEPT ![v] = "published"] /\ UNCHANGED <<tag, owner>>
      BY <2>11 DEF Publish
    <3>3. Stage[v] = "draft"
      BY <2>1, <3>1, <3>2 DEF Stage, StageOf
    <3>4. Stage' = [Stage EXCEPT ![v] = "published"]
      BY <2>9, <3>1, <3>2
    <3> QED
      BY <2>5, <2>7, <2>11, <3>1, <3>2, <3>3, <3>4
  <2> QED
    BY <1>2, <2>3, <2>4, <2>6, <2>10, <2>11 DEF JobStep
<1>3. ASSUME PushMain \/ (\E v \in Version : ReplaceAsset(v)) \/ UNCHANGED vars
      PROVE  UNCHANGED <<Life, owner, Stage>>
  <2>1. UNCHANGED <<job, tag, release, owner>>
    BY <1>3 DEF PushMain, ReplaceAsset, vars, server
  <2> QED
    BY <2>1 DEF Life, LifeOf, Stage, StageOf
<1>4. ASSUME NEW v \in Version, MoveTag(v) PROVE UNCHANGED <<Life, owner, Stage>>
  <2>1. UNCHANGED <<job, release, owner>> /\ \A w \in Version : tag'[w] = NoCommit <=> tag[w] = NoCommit
    BY <1>4 DEF MoveTag, TypeOK
  <2> QED
    BY <2>1 DEF Life, LifeOf, Stage, StageOf
<1>5. CASE Next
  <2>1. CASE \E j \in Job : Dispatch(j) \/ Rerun(j)
    BY <1>1, <2>1
  <2>2. CASE \E j \in Job : JobStep(j)
    BY <1>0, <1>2, <2>2
  <2>3. CASE PushMain \/ \E v \in Version : ReplaceAsset(v)
    BY <1>0, <1>3, <2>3
  <2>4. CASE \E v \in Version : MoveTag(v)
    BY <1>0, <1>4, <2>4
  <2> QED
    BY <1>5, <2>1, <2>2, <2>3, <2>4 DEF Next
<1> QED
  BY <1>0, <1>3, <1>5

\* The release workflow implements VersionLifecycle.
THEOREM ReleaseImplementsLifecycle == Spec => LifecycleSpec
<1>1. Init => Lifecycle!Init
  <2> SUFFICES ASSUME Init PROVE Lifecycle!Init
    OBVIOUS
  <2>1. \A j \in Job : job[j].attempt = 0
    BY DEF Init, NewJob
  <2>2. \A a \in Attempt : LifeOf(a) = "new"
    <3> TAKE a \in Attempt
    <3>1. a[1] \in Job /\ a[2] \in 1 .. MaxAttempts
      BY DEF Attempt
    <3> QED
      BY <2>1, <3>1, BoundsAssumption DEF LifeOf
  <2>3. \A v \in Version : StageOf(v) = "absent"
    BY DEF Init, StageOf
  <2> QED
    BY <2>2, <2>3 DEF Init, Lifecycle!Init
<1> QED
  BY <1>1, LifecycleStep, Claims, PTL DEF Spec, LifecycleSpec, Lifecycle!Spec
=============================================================================
