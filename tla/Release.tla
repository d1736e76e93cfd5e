------------------------------- MODULE Release -------------------------------
(***************************************************************************)
(* The release workflow.  Jobs, each started by hand for a version, check  *)
(* out main, test it, bundle the evidence, push a tag, and draft, fill,    *)
(* publish and verify a release; any of them may fail or die at any step,  *)
(* also after the step took effect, and may be started over.  Meanwhile    *)
(* main moves, other jobs run, and whoever may write to the repository     *)
(* replaces assets and moves tags wherever GitHub lets them; nobody        *)
(* deletes a release or a tag.                                             *)
(***************************************************************************)
EXTENDS Naturals

CONSTANTS
  Job, Version,
  MaxHead, MaxAttempts,   \* bounds on the commits of main and the starts of one job
  NoCommit, NoAsset, NoOwner, Foreign

Commit  == 0 .. MaxHead
Attempt == Job \X (1 .. MaxAttempts)

\* The evidence tarball: of which commit it is, of which it says it is, whose it is.
Bundle == [built : Commit, commit : Commit, by : Attempt]

ASSUME BoundsAssumption == MaxHead \in Nat /\ MaxAttempts \in Nat

\* Foreign is an asset no job made.
ASSUME ReleaseMarksAssumption ==
  /\ NoCommit \notin Commit
  /\ NoOwner \notin Attempt
  /\ NoAsset \notin Bundle \union {Foreign} /\ Foreign \notin Bundle

VARIABLES
  head,                 \* the tip of main
  immutable,            \* whether the repository has immutable releases
  job,                  \* what each job knows
  tag, release, asset,  \* the server, by version
  owner, touched        \* ghosts: who pushed the tag; whether somebody meddled

server == <<tag, release, asset, owner, touched>>
vars   == <<head, immutable, job, server>>

Running == {"checkout", "test", "tag", "draft", "upload", "publish", "verify"}
JobRecord ==
  [pc : Running \union {"new", "succeeded", "failed"}, attempt : 0 .. MaxAttempts,
   version : Version, onMain : BOOLEAN, sha : Commit, built : Commit, known : SUBSET Version]

NewJob(v) ==
  [pc |-> "new", attempt |-> 0, version |-> v, onMain |-> TRUE,
   sha |-> 0, built |-> 0, known |-> {}]

Init ==
  /\ head = 0 /\ immutable \in BOOLEAN
  /\ job \in [Job -> {NewJob(v) : v \in Version}]
  /\ tag = [v \in Version |-> NoCommit]
  /\ release = [v \in Version |-> "absent"]
  /\ asset = [v \in Version |-> NoAsset]
  /\ owner = [v \in Version |-> NoOwner]
  /\ touched = [v \in Version |-> FALSE]

-----------------------------------------------------------------------------
(* A job *)

At(j, where)  == job[j].pc = where
Goto(j, where) == job' = [job EXCEPT ![j].pc = where]
This(j)       == <<j, job[j].attempt>>
Evidence(j)   == [built |-> job[j].built, commit |-> job[j].sha, by |-> This(j)]

\* A fault to catch: only reruns are counted as attempts.
DispatchUncounted(j) ==
  /\ At(j, "new") /\ MaxAttempts > 0
  /\ \E onMain \in BOOLEAN : \E sha \in IF onMain THEN {head} ELSE Commit :
       job' = [job EXCEPT ![j].pc = "checkout", ![j].onMain = onMain, ![j].sha = sha]
  /\ UNCHANGED <<head, immutable, server>>

\* GITHUB_SHA is the tip of the branch the workflow is started on, then.
Dispatch(j) ==
  /\ At(j, "new") /\ MaxAttempts > 0
  /\ \E onMain \in BOOLEAN : \E sha \in IF onMain THEN {head} ELSE Commit :
       job' = [job EXCEPT ![j].pc = "checkout", ![j].attempt = 1,
                          ![j].onMain = onMain, ![j].sha = sha]
  /\ UNCHANGED <<head, immutable, server>>

\* A fault to catch: a job started over goes on where it had pushed its tag.
RerunResuming(j) ==
  /\ job[j].pc \in {"succeeded", "failed"} /\ job[j].attempt < MaxAttempts
  /\ job' = [job EXCEPT ![j].pc = IF tag[job[j].version] = job[j].sha THEN "draft" ELSE "checkout",
                        ![j].attempt = @ + 1]
  /\ UNCHANGED <<head, immutable, server>>

\* A job started over keeps its GITHUB_SHA.
Rerun(j) ==
  /\ job[j].pc \in {"succeeded", "failed"} /\ job[j].attempt < MaxAttempts
  /\ job' = [job EXCEPT ![j].pc = "checkout", ![j].attempt = @ + 1]
  /\ UNCHANGED <<head, immutable, server>>

\* The whole history and all tags, but of main as it is now.
Checkout(j) ==
  /\ At(j, "checkout")
  /\ job' = [job EXCEPT ![j].pc = "test", ![j].built = head,
                        ![j].known = {v \in Version : tag[v] # NoCommit}]
  /\ UNCHANGED <<head, immutable, server>>

\* From "Verify main commit" to the evidence bundle.
Test(j) ==
  /\ At(j, "test") /\ job[j].onMain
  /\ Goto(j, "tag")
  /\ UNCHANGED <<head, immutable, server>>

\* Not when the checkout had the tag, and the push is refused when the server has it.
Tag(j) ==
  /\ At(j, "tag") /\ job[j].version \notin job[j].known
  /\ tag[job[j].version] = NoCommit
  /\ tag' = [tag EXCEPT ![job[j].version] = job[j].sha]
  /\ owner' = [owner EXCEPT ![job[j].version] = This(j)]
  /\ Goto(j, "draft")
  /\ UNCHANGED <<head, immutable, release, asset, touched>>

\* A fault to catch: the release is published before it has its asset.
DraftPublished(j) ==
  /\ At(j, "draft") /\ release[job[j].version] = "absent"
  /\ release' = [release EXCEPT ![job[j].version] = "published"]
  /\ Goto(j, "upload")
  /\ UNCHANGED <<head, immutable, tag, asset, owner, touched>>

Draft(j) ==
  /\ At(j, "draft") /\ release[job[j].version] = "absent"
  /\ release' = [release EXCEPT ![job[j].version] = "draft"]
  /\ Goto(j, "upload")
  /\ UNCHANGED <<head, immutable, tag, asset, owner, touched>>

\* Without --clobber.
Upload(j) ==
  /\ At(j, "upload") /\ asset[job[j].version] = NoAsset
  /\ asset' = [asset EXCEPT ![job[j].version] = Evidence(j)]
  /\ Goto(j, "publish")
  /\ UNCHANGED <<head, immutable, tag, release, owner, touched>>

Publish(j) ==
  /\ At(j, "publish") /\ release[job[j].version] = "draft"
  /\ release' = [release EXCEPT ![job[j].version] = "published"]
  /\ Goto(j, "verify")
  /\ UNCHANGED <<head, immutable, tag, asset, owner, touched>>

\* A fault to catch: that the release is immutable is not asked.
VerifyAnyRelease(j) ==
  /\ At(j, "verify")
  /\ LET v == job[j].version
     IN  asset[v] = Evidence(j) /\ tag[v] = job[j].sha
  /\ Goto(j, "succeeded")
  /\ UNCHANGED <<head, immutable, server>>

\* The asset by its digest, the tag by the commit it points to.
Verify(j) ==
  /\ At(j, "verify") /\ immutable
  /\ LET v == job[j].version
     IN  asset[v] = Evidence(j) /\ tag[v] = job[j].sha
  /\ Goto(j, "succeeded")
  /\ UNCHANGED <<head, immutable, server>>

\* A fault to catch: drafting and uploading are tried until they work, but a
\* draft that is there already does not go away.
FailRetrying(j) ==
  /\ job[j].pc \in Running
  /\ Goto(j, IF job[j].pc \in {"draft", "upload"} THEN "draft" ELSE "failed")
  /\ UNCHANGED <<head, immutable, server>>

\* A step whose test fails, a lost runner, a lost answer.
Fail(j) ==
  /\ job[j].pc \in Running
  /\ Goto(j, "failed")
  /\ UNCHANGED <<head, immutable, server>>

JobStep(j) ==
  Checkout(j) \/ Test(j) \/ Tag(j) \/ Draft(j) \/ Upload(j) \/ Publish(j) \/ Verify(j) \/ Fail(j)

-----------------------------------------------------------------------------
(* Everybody else *)

PushMain ==
  /\ head < MaxHead /\ head' = head + 1
  /\ UNCHANGED <<immutable, job, server>>

Locked(v) == immutable /\ release[v] = "published"

ReplaceAsset(v) ==
  /\ asset[v] # NoAsset /\ ~Locked(v)
  /\ asset' = [asset EXCEPT ![v] = Foreign] /\ touched' = [touched EXCEPT ![v] = TRUE]
  /\ UNCHANGED <<head, immutable, job, tag, release, owner>>

MoveTag(v) ==
  /\ tag[v] # NoCommit /\ ~Locked(v)
  /\ \E c \in Commit : tag' = [tag EXCEPT ![v] = c]
  /\ touched' = [touched EXCEPT ![v] = TRUE]
  /\ UNCHANGED <<head, immutable, job, release, asset, owner>>

Next ==
  \/ \E j \in Job : Dispatch(j) \/ Rerun(j) \/ JobStep(j)
  \/ PushMain
  \/ \E v \in Version : ReplaceAsset(v) \/ MoveTag(v)

Spec == Init /\ [][Next]_vars

\* A runner goes on with its job or is given up; nobody has to do anything else.
FairSpec == Spec /\ \A j \in Job : WF_vars(JobStep(j))

-----------------------------------------------------------------------------
(* Correctness *)

\* Jobs, tags, releases and assets hold values of their kinds.
TypeOK ==
  /\ head \in Commit /\ immutable \in BOOLEAN
  /\ job \in [Job -> JobRecord]
  /\ \A j \in Job : At(j, "new") <=> job[j].attempt = 0
  /\ tag \in [Version -> Commit \union {NoCommit}]
  /\ release \in [Version -> {"absent", "draft", "published"}]
  /\ asset \in [Version -> Bundle \union {NoAsset, Foreign}]
  /\ owner \in [Version -> Attempt \union {NoOwner}]
  /\ touched \in [Version -> BOOLEAN]

\* What a green release job has verified stays true, whatever other jobs and its own
\* reruns do before or after, and whichever assets people replace and tags they move,
\* as long as nobody deletes the release: it is published, holds the job's own
\* evidence, and its tag is the job's commit (release.yml:97-113).
SuccessLasts ==
  \A j \in Job : At(j, "succeeded") =>
    LET v == job[j].version
    IN  release[v] = "published" /\ tag[v] = job[j].sha /\ asset[v] = Evidence(j)

\* A published release nobody meddled with is the work of one attempt of one
\* job: the attempt that pushed its tag made its asset, and the manifest in it
\* names the commit of the tag; jobs of the same version that race for it and
\* attempts that died half way leave nothing in it (release.yml:71-96).
ReleaseIsOfOneAttempt ==
  \A v \in Version : release[v] = "published" /\ ~touched[v] =>
    /\ owner[v] # NoOwner
    /\ asset[v] \in Bundle
    /\ asset[v].by = owner[v] /\ asset[v].commit = tag[v]

\* The release workflow keeps the promise of VersionLifecycle: an attempt that
\* ends after its tag abandons the version for good, a rerun cannot take it up.
LifeOf(a) ==
  LET j == a[1]
  IN  IF job[j].attempt < a[2] THEN "new"
      ELSE IF job[j].attempt = a[2] /\ job[j].pc \in Running THEN "live" ELSE "over"

StageOf(v) ==
  IF tag[v] = NoCommit THEN "absent" ELSE IF release[v] = "absent" THEN "tagged" ELSE release[v]

Lifecycle == INSTANCE VersionLifecycle WITH
  life  <- [a \in Attempt |-> LifeOf(a)],
  stage <- [v \in Version |-> StageOf(v)]

LifecycleSpec == Lifecycle!Spec

\* A version that is claimed does not stay pending: in the end it is published
\* or the attempt that claimed it is over (release.yml:71-96).
ClaimsAreSettled ==
  \A v \in Version, a \in Attempt :
    owner[v] = a ~> release[v] = "published" \/ LifeOf(a) = "over"

-----------------------------------------------------------------------------
\* What the evidence says of itself and the workflow does not ensure: it names
\* GITHUB_SHA as the commit it is of, and was made from main at the checkout.
EvidenceIsOfTaggedCommit ==
  \A v \in Version : release[v] = "published" /\ asset[v] \in Bundle =>
    asset[v].built = asset[v].commit
=============================================================================
