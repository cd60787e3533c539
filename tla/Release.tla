------------------------------ MODULE Release ------------------------------
(***************************************************************************)
(* The release workflow and its control script verify_frozen_release.py.   *)
(* A job of the workflow checks the tagged commit and the event, downloads *)
(* the release assets, looks at PyPI, uploads what it staged and looks     *)
(* again.  Meanwhile people move the tag and replace assets (so a job finds *)
(* any commit and any bytes there), and use PyPI, whose pages may be old.  *)
(* A step of a job is one network request of the script, with the Python   *)
(* code up to the next one.                                                *)
(***************************************************************************)
EXTENDS Naturals, FiniteSets

CONSTANTS
  Artifacts,      \* file names in the manifest
  Others,         \* other file names
  Commits,
  Payloads,       \* events the workflow may be run for
  Source,         \* artifact_source_commit
  ParentsOf,      \* ParentsOf[c]: the commits c was made on, the first one first
  ChangesOf,      \* ChangesOf[c]: paths that differ from the first parent
  ControlPaths,   \* RELEASE_CONTROL_PATHS
  RegularIn,      \* RegularIn[c]: paths that are plain files (100644) in c
  Attempts,       \* POSTFLIGHT_ATTEMPTS
  HandUploads,    \* <<file, bytes>> people may upload by hand
  StalePages,     \* TRUE iff PyPI's cache may answer with an older page
  MaxJobs         \* bound of the jobs started

Files == Artifacts \cup Others

(***************************************************************************)
(* A file's bytes: "frozen" are those pinned for its name, "altered" others *)
(* of the same size, "resized" any others.                                 *)
(***************************************************************************)
Bytes == {"frozen", "altered", "resized"}
Missing == "missing"

\* What the event file says: the kind of release, its commit, its assets.
Event == [kind : {"release", "prerelease", "other tag"}, sha : Commits,
          listed : [Files -> Bytes \cup {Missing}]]

NoEvent == [kind |-> "none"]

ASSUME ReleaseAssumption ==
  /\ Artifacts # {} /\ Artifacts \cap Others = {}
  /\ Attempts \in Nat \ {0}
  /\ Payloads \subseteq Event
  /\ HandUploads \subseteq Files \X Bytes
  /\ StalePages \in BOOLEAN
  /\ MaxJobs \in Nat

VARIABLES
  pypi,      \* PyPI's page of the version
  pages,     \* all the pages it has had
  job,       \* the running job, or how the last one ended
  uploads,   \* what the workflow has put on PyPI
  green      \* jobs that succeeded

index == <<pypi, pages, uploads>>
vars == <<pypi, pages, job, uploads, green>>

-----------------------------------------------------------------------------
Page == [files : [Files -> Bytes \cup {Missing}], yanked : SUBSET Files]

Job == [pc : {"none", "checkout", "context", "download", "inspect", "publish", "postflight",
              "poll"},
        number : Nat, event : Payloads \cup {NoEvent}, tag : Commits \cup {Missing},
        files : [Artifacts -> Bytes \cup {Missing}], prepared : BOOLEAN,
        staged : SUBSET Artifacts, fresh : BOOLEAN, attempt : 0..Attempts]

Nothing == [n \in Artifacts |-> Missing]

NoJob == [pc |-> "none", number |-> 0, event |-> NoEvent, tag |-> Missing, files |-> Nothing,
          prepared |-> FALSE, staged |-> {}, fresh |-> FALSE, attempt |-> 0]

NoPage == [files |-> [n \in Files |-> Missing], yanked |-> {}]

Init ==
  /\ pypi = NoPage /\ pages = {NoPage}
  /\ job = NoJob
  /\ uploads = {}
  /\ green = {}

-----------------------------------------------------------------------------
(* What the script checks.                                                 *)

\* Mutant: what else the commit changes is not looked at.
TrustedWithMore(c) ==
  ParentsOf[c] = <<Source>> /\ ControlPaths \subseteq ChangesOf[c] /\ ControlPaths \subseteq RegularIn[c]

\* verify_git_trust, of the commit: made on the source commit alone, only for the release.
Trusted(c) ==
  /\ ParentsOf[c] = <<Source>>
  /\ ChangesOf[c] = ControlPaths
  /\ ControlPaths \subseteq RegularIn[c]

SizeIsRight(bytes) == bytes \in {"frozen", "altered"}

\* verify_release_event: exactly the artifacts, of the right size, when it was published
EventIsRight(e) ==
  /\ e.kind = "release"
  /\ \A n \in Files : IF n \in Artifacts THEN SizeIsRight(e.listed[n]) ELSE e.listed[n] = Missing

\* build_release_context; the checkout has the commit of the event and the tag of its time.
ContextIsRight ==
  /\ job.tag = job.event.sha
  /\ Trusted(job.event.sha)
  /\ EventIsRight(job.event)

\* Mutant: only the size is compared.
VerifiedBySize(bytes) == SizeIsRight(bytes)

\* verify_artifact
Verified(bytes) == bytes = "frozen"

\* verify_local_artifacts of release-assets
LocalIsRight == \A n \in Artifacts : Verified(job.files[n])

\* Mutant: a page with something missing counts as none.
AbsentInPart(page) == \E n \in Artifacts : page.files[n] = Missing

\* inspect_pypi: 404, which PyPI answers for a version without files
PageIsAbsent(page) == \A n \in Files : page.files[n] = Missing

\* Mutant: the files listed are right, all or not.
ExactInPart(page) ==
  ~PageIsAbsent(page) /\ \A n \in Artifacts : page.files[n] # Missing => Verified(page.files[n])

\* inspect_pypi: the page lists the artifacts and nothing else, none yanked
PageIsExact(page) ==
  /\ \A n \in Artifacts : Verified(page.files[n])
  /\ \A n \in Others : page.files[n] = Missing
  /\ page.yanked = {}

\* The page a request may be answered with.
Served == IF StalePages THEN pages ELSE {pypi}

-----------------------------------------------------------------------------
(* A job.                                                                  *)

JobBecomes(m) == job' = m
Goto(pc) == JobBecomes([job EXCEPT !.pc = pc])

\* A job ends; it is green iff every step that is not allowed to fail succeeded.
Ends(success) ==
  /\ JobBecomes([NoJob EXCEPT !.number = job.number])
  /\ green' = IF success THEN green \cup {job.number} ELSE green

\* The concurrency group admits one job at a time; an event may be run again.
StartJob(e) ==
  /\ job.pc = "none"
  /\ job.number < MaxJobs
  /\ JobBecomes([NoJob EXCEPT !.pc = "checkout", !.number = job.number + 1, !.event = e])
  /\ UNCHANGED <<index, green>>

\* Without a checkout there is no script for the later steps.
Checkout ==
  /\ job.pc = "checkout"
  /\ \/ /\ \E tag \in Commits : JobBecomes([job EXCEPT !.pc = "context", !.tag = tag])
        /\ UNCHANGED green
     \/ Ends(FALSE)
  /\ UNCHANGED index

\* prepare up to the downloads.  A prepare that fails leaves the job to the postflight.
Context ==
  /\ job.pc = "context"
  /\ Goto(IF ContextIsRight THEN "download" ELSE "postflight")
  /\ UNCHANGED <<index, green>>

\* download_release_assets, one asset (in any order)
Download(n) ==
  /\ job.pc = "download"
  /\ job.files[n] = Missing
  /\ \/ \E bytes \in Bytes :
          /\ Verified(bytes)
          /\ JobBecomes([job EXCEPT !.files[n] = bytes,
               !.pc = IF \A k \in Artifacts \ {n} : job.files[k] # Missing THEN "inspect" ELSE @])
     \/ Goto("postflight")
  /\ UNCHANGED <<index, green>>

\* inspect_pypi, and stage_publisher_artifacts when PyPI has nothing
Preflight ==
  /\ job.pc = "inspect"
  /\ \/ \E page \in Served :
          \/ /\ PageIsAbsent(page)
             /\ IF LocalIsRight
                THEN JobBecomes([job EXCEPT !.pc = "publish", !.prepared = TRUE,
                                            !.staged = Artifacts, !.fresh = page = pypi])
                ELSE Goto("postflight")
          \/ /\ ~PageIsAbsent(page)
             /\ JobBecomes([job EXCEPT !.pc = "postflight", !.prepared = PageIsExact(page)])
     \/ Goto("postflight")
  /\ UNCHANGED <<index, green>>

\* PyPI takes a file under a name it has not; the name keeps its bytes.
Put(n, bytes) ==
  /\ pypi.files[n] = Missing
  /\ pypi' = [pypi EXCEPT !.files[n] = bytes]
  /\ pages' = pages \cup {pypi'}

(***************************************************************************)
(* The publish action uploads the staged files, in its order.  It may fail *)
(* or time out before or after PyPI took a file; that is no failure of the *)
(* job (continue-on-error).                                                *)
(***************************************************************************)
Upload(n) ==
  /\ job.pc = "publish"
  /\ n \in job.staged
  /\ \/ /\ Put(n, job.files[n])
        /\ uploads' = uploads \cup {[file |-> n, bytes |-> job.files[n], commit |-> job.event.sha,
                                     job |-> job.number, fresh |-> job.fresh]}
        /\ \/ JobBecomes([job EXCEPT !.staged = @ \ {n},
                                     !.pc = IF job.staged = {n} THEN "postflight" ELSE @])
           \/ Goto("postflight")
     \/ /\ pypi.files[n] = job.files[n]
        /\ JobBecomes([job EXCEPT !.staged = @ \ {n},
                                  !.pc = IF job.staged = {n} THEN "postflight" ELSE @])
        /\ UNCHANGED index
     \/ Goto("postflight") /\ UNCHANGED index
  /\ UNCHANGED green

\* postflight (if: always()) up to the polling
Postflight ==
  /\ job.pc = "postflight"
  /\ IF ContextIsRight /\ LocalIsRight
     THEN Goto("poll") /\ UNCHANGED green
     ELSE Ends(FALSE)
  /\ UNCHANGED index

\* Mutant: the attempts start over.
PollAgainAlways == JobBecomes([job EXCEPT !.attempt = (@ + 1) % Attempts])

PollAgain ==
  /\ job.attempt + 1 < Attempts
  /\ JobBecomes([job EXCEPT !.attempt = @ + 1])

\* verify_pypi_postflight: only a version that is not there yet is asked for again.
Poll ==
  /\ job.pc = "poll"
  /\ \/ \E page \in Served :
          \/ PageIsExact(page) /\ Ends(job.prepared)
          \/ ~PageIsExact(page) /\ ~PageIsAbsent(page) /\ Ends(FALSE)
          \/ /\ PageIsAbsent(page)
             /\ \/ PollAgain /\ UNCHANGED green
                \/ job.attempt + 1 >= Attempts /\ Ends(FALSE)
     \/ Ends(FALSE)
  /\ UNCHANGED index

\* The job's 15 minutes are over, or its runner is lost.
Cancel ==
  /\ job.pc # "none"
  /\ Ends(FALSE)
  /\ UNCHANGED index

-----------------------------------------------------------------------------
(* Someone uploads or yanks by hand.                                       *)

UploadByHand(n, bytes) ==
  /\ Put(n, bytes)
  /\ UNCHANGED <<uploads, job, green>>

Yank(n) ==
  /\ pypi.files[n] # Missing
  /\ pypi' = [pypi EXCEPT !.yanked = @ \cup {n}]
  /\ pages' = pages \cup {pypi'}
  /\ UNCHANGED <<uploads, job, green>>

JobStep ==
  \/ Checkout \/ Context \/ Preflight \/ Postflight \/ Poll
  \/ \E n \in Artifacts : Download(n) \/ Upload(n)

ByHand ==
  \/ \E u \in HandUploads : UploadByHand(u[1], u[2])
  \/ \E n \in Files : Yank(n)

Next == (\E e \in Payloads : StartJob(e)) \/ JobStep \/ Cancel \/ ByHand

Spec == Init /\ [][Next]_vars

\* Requests and uploads have timeouts, so a job's next step comes.
FairSpec == Spec /\ WF_vars(JobStep)

-----------------------------------------------------------------------------
UploadRecord == [file : Artifacts, bytes : Bytes, commit : Commits, job : Nat, fresh : BOOLEAN]

TypeOK ==
  /\ pypi \in Page /\ pypi \in pages /\ pages \subseteq Page
  /\ job \in Job
  /\ uploads \subseteq UploadRecord
  /\ green \subseteq Nat

(***************************************************************************)
(* The workflow publishes nothing but the frozen bytes, and only by a      *)
(* commit that differs from the artifacts' source in the release controls  *)
(* alone, whatever was tagged, replaced on the release page or run again   *)
(* in the meantime.                                                        *)
(***************************************************************************)
OnlyFrozenUploaded ==
  \A u \in uploads :
    /\ u.bytes = "frozen"
    /\ ParentsOf[u.commit] = <<Source>> /\ ChangesOf[u.commit] \subseteq ControlPaths

(***************************************************************************)
(* A green job means that PyPI has each frozen artifact and will keep it:  *)
(* however the publish step ended, which may fail unnoticed, and however   *)
(* old the page was that the postflight saw.                               *)
(***************************************************************************)
GreenMeansPublished ==
  green # {} => \A n \in Artifacts : pypi.files[n] = "frozen"

(***************************************************************************)
(* A publication that failed half-way is not resumed: once one job has put *)
(* a file on PyPI, no later job uploads another, unless its preflight was  *)
(* answered with an old page.                                              *)
(***************************************************************************)
OneJobUploads ==
  \A u, v \in uploads : u.fresh /\ v.fresh => u.job = v.job

(***************************************************************************)
(* A job comes to an end, also when PyPI never shows the version.          *)
(***************************************************************************)
JobEnds == job.pc # "none" ~> job.pc = "none"
=============================================================================
