--------------------------- MODULE ReleaseProofs ---------------------------
(***************************************************************************)
(* What the release workflow guarantees for any commits, payloads, files   *)
(* and number of attempts.                                                 *)
(***************************************************************************)
EXTENDS Release, TLAPS

(***************************************************************************)
(* A file's bytes stay what they were on every page that ever showed it,   *)
(* and a file the workflow has put there is there.                         *)
(***************************************************************************)
IndexInv ==
  /\ \A page \in pages, n \in Files :
       page.files[n] # Missing => pypi.files[n] = page.files[n]
  /\ \A u \in uploads : pypi.files[u.file] # Missing

\* What a job knows at each of its steps.
JobInv ==
  /\ job.pc \in {"download", "inspect", "publish"} => ContextIsRight
  /\ job.pc = "publish" => LocalIsRight
  /\ job.pc = "publish" /\ job.fresh => \A u \in uploads : u.job = job.number

IInv ==
  /\ TypeOK
  /\ IndexInv
  /\ JobInv
  /\ OnlyFrozenUploaded
  /\ GreenMeansPublished
  /\ OneJobUploads

-----------------------------------------------------------------------------
LEMMA NoJobIsJob == NoJob \in Job /\ NoJob.pc = "none"
  BY ReleaseAssumption DEF NoJob, Job, Nothing

LEMMA InitInv == Init => IInv
<1> SUFFICES ASSUME Init PROVE IInv
  OBVIOUS
<1>1. NoPage \in Page
  BY DEF NoPage, Page
<1>2. NoJob \in Job
  BY NoJobIsJob
<1>3. TypeOK
  BY <1>1, <1>2 DEF Init, TypeOK
<1>4. IndexInv /\ JobInv
  BY DEF Init, IndexInv, JobInv, NoJob
<1> QED
  BY <1>3, <1>4 DEF Init, IInv, OnlyFrozenUploaded, GreenMeansPublished, OneJobUploads

\* A page that is exact for the script shows that PyPI has the artifacts.
LEMMA ExactPage ==
  ASSUME IndexInv, TypeOK, NEW page \in Served, PageIsExact(page)
  PROVE  \A n \in Artifacts : pypi.files[n] = "frozen"
<1>1. page \in pages
  BY DEF Served, TypeOK
<1> QED
  BY <1>1 DEF IndexInv, PageIsExact, Verified, Files, Missing

\* A job that ends leaves every part of the invariant alone but, when it is green, one.
LEMMA EndsInv ==
  ASSUME IInv, NEW success \in BOOLEAN, Ends(success), UNCHANGED index,
         success => \A n \in Artifacts : pypi.files[n] = "frozen"
  PROVE  IInv'
<1>1. job' \in Job /\ job'.pc = "none"
  <2>1. job.number \in Nat
    BY DEF IInv, TypeOK, Job
  <2>2. job' = [NoJob EXCEPT !.number = job.number]
    BY DEF Ends, JobBecomes
  <2> QED
    BY <2>1, <2>2, NoJobIsJob DEF Job
<1>2. green' \subseteq Nat
  BY DEF Ends, IInv, TypeOK, Job
<1>3. TypeOK'
  BY <1>1, <1>2 DEF IInv, TypeOK, index
<1>4. IndexInv' /\ OnlyFrozenUploaded' /\ OneJobUploads'
  BY DEF IInv, IndexInv, OnlyFrozenUploaded, OneJobUploads, index
<1>5. JobInv'
  BY <1>1 DEF JobInv
<1>6. GreenMeansPublished'
  BY DEF Ends, IInv, GreenMeansPublished, index
<1> QED
  BY <1>3, <1>4, <1>5, <1>6 DEF IInv

\* A step that only moves the job on keeps what does not depend on the job.
LEMMA JobMoves ==
  ASSUME IInv, UNCHANGED <<index, green>>, job' \in Job, JobInv'
  PROVE  IInv'
<1>1. TypeOK'
  BY DEF IInv, TypeOK, index
<1> QED
  BY <1>1 DEF IInv, IndexInv, OnlyFrozenUploaded, GreenMeansPublished, OneJobUploads, index

\* PyPI takes a file: the pages it had are still true.
LEMMA PutKeepsPages ==
  ASSUME TypeOK, IndexInv, NEW n \in Files, NEW bytes \in Bytes, Put(n, bytes)
  PROVE  /\ pypi' \in Page /\ pypi' \in pages' /\ pages' \subseteq Page
         /\ \A page \in pages', k \in Files :
              page.files[k] # Missing => pypi'.files[k] = page.files[k]
         /\ \A k \in Files : pypi.files[k] # Missing => pypi'.files[k] = pypi.files[k]
         /\ pypi'.files[n] = bytes
<1>1. pypi \in Page /\ pages \subseteq Page
  BY DEF TypeOK
<1>2. pypi' \in Page /\ pypi'.files = [pypi.files EXCEPT ![n] = bytes]
  BY <1>1 DEF Put, Page
<1>3. pages' = pages \cup {pypi'}
  BY DEF Put
<1>4. \A k \in Files : pypi'.files[k] = IF k = n THEN bytes ELSE pypi.files[k]
  BY <1>1, <1>2 DEF Page
<1>5. \A k \in Files : pypi.files[k] # Missing => pypi'.files[k] = pypi.files[k]
  BY <1>4 DEF Put
<1>6. \A page \in pages', k \in Files :
        page.files[k] # Missing => pypi'.files[k] = page.files[k]
  BY <1>3, <1>5 DEF IndexInv
<1> QED
  BY <1>1, <1>2, <1>3, <1>4, <1>5, <1>6

-----------------------------------------------------------------------------
(* The steps of a job.                                                     *)

\* The job with another step, and with other fields that have their types, is a job.
LEMMA StartJobInv ==
  ASSUME IInv, NEW e \in Payloads, StartJob(e)
  PROVE  IInv'
<1>1. job.number \in Nat
  BY DEF IInv, TypeOK, Job
<1>2. job' = [NoJob EXCEPT !.pc = "checkout", !.number = job.number + 1, !.event = e]
  BY DEF StartJob, JobBecomes
<1>3. job' \in Job /\ job'.pc = "checkout"
  <2>1. [NoJob EXCEPT !.number = job.number + 1] \in Job
    BY <1>1, NoJobIsJob DEF Job
  <2>2. job' = [[NoJob EXCEPT !.number = job.number + 1] EXCEPT !.pc = "checkout", !.event = e]
    BY <1>2, NoJobIsJob DEF Job
  <2> QED
    BY <2>1, <2>2 DEF Job
<1> QED
  BY <1>3, JobMoves DEF StartJob, JobInv

\* Whatever a job knows of its event and files, it knows as long as they are the same.
LEMMA GotoInv ==
  ASSUME IInv, NEW pc \in {"download", "postflight", "poll"}, Goto(pc), UNCHANGED <<index, green>>,
         pc = "download" => ContextIsRight
  PROVE  IInv'
<1>1. job' = [job EXCEPT !.pc = pc] /\ job \in Job
  BY DEF Goto, JobBecomes, IInv, TypeOK
<1>2. job' \in Job /\ job'.pc = pc /\ job'.tag = job.tag /\ job'.event = job.event
  BY <1>1 DEF Job
<1> QED
  BY <1>2, JobMoves DEF JobInv, ContextIsRight

LEMMA CheckoutInv ==
  ASSUME IInv, Checkout
  PROVE  IInv'
<1>1. CASE Ends(FALSE)
  BY <1>1, EndsInv DEF Checkout
<1>2. CASE ~Ends(FALSE)
  <2>1. PICK c \in Commits : job' = [job EXCEPT !.pc = "context", !.tag = c]
    BY <1>2 DEF Checkout, JobBecomes
  <2>2. job' \in Job /\ job'.pc = "context"
    BY <2>1 DEF IInv, TypeOK, Job
  <2> QED
    BY <1>2, <2>2, JobMoves DEF Checkout, JobInv
<1> QED
  BY <1>1, <1>2

LEMMA DownloadInv ==
  ASSUME IInv, NEW n \in Artifacts, Download(n)
  PROVE  IInv'
<1>1. CASE Goto("postflight")
  BY <1>1, GotoInv DEF Download
<1>2. CASE ~Goto("postflight")
  <2> DEFINE done == \A k \in Artifacts \ {n} : job.files[k] # Missing
  <2>1. PICK bytes \in Bytes :
          job' = [job EXCEPT !.files[n] = bytes, !.pc = IF done THEN "inspect" ELSE @]
    BY <1>2 DEF Download, JobBecomes
  <2>2. job \in Job /\ job.pc = "download"
    BY DEF Download, IInv, TypeOK
  <2>3. /\ job' \in Job /\ job'.pc \in {"inspect", "download"}
        /\ job'.tag = job.tag /\ job'.event = job.event
    <3> HIDE DEF done
    <3>1. [job.files EXCEPT ![n] = bytes] \in [Artifacts -> Bytes \cup {Missing}]
      BY <2>2 DEF Job
    <3>2. job' = [job EXCEPT !.files = [job.files EXCEPT ![n] = bytes],
                             !.pc = IF done THEN "inspect" ELSE "download"]
      BY <2>1, <2>2 DEF Job
    <3> QED
      BY <2>2, <3>1, <3>2 DEF Job
  <2>4. ContextIsRight
    BY <2>2 DEF IInv, JobInv
  <2>5. JobInv'
    BY <2>3, <2>4 DEF JobInv, ContextIsRight
  <2> QED
    BY <2>3, <2>5, JobMoves DEF Download
<1> QED
  BY <1>1, <1>2

LEMMA PreflightInv ==
  ASSUME IInv, Preflight
  PROVE  IInv'
<1>0. job \in Job /\ job.pc = "inspect" /\ ContextIsRight /\ UNCHANGED <<index, green>>
  BY DEF Preflight, IInv, TypeOK, JobInv
<1>1. CASE Goto("postflight")
  BY <1>0, <1>1, GotoInv
<1>2. ASSUME NEW page \in Served, PageIsAbsent(page), LocalIsRight,
             job' = [job EXCEPT !.pc = "publish", !.prepared = TRUE,
                                !.staged = Artifacts, !.fresh = page = pypi]
      PROVE  IInv'
  <2>1. /\ job' \in Job /\ job'.pc = "publish" /\ job'.tag = job.tag /\ job'.event = job.event
        /\ job'.files = job.files /\ job'.number = job.number
    <3>1. (page = pypi) \in BOOLEAN
      OBVIOUS
    <3> QED
      BY <1>0, <1>2, <3>1 DEF Job
  <2>2. job'.fresh => page = pypi
    BY <1>0, <1>2 DEF Job
  \* Nothing has been uploaded if the page shown is the one PyPI has.
  <2>3. job'.fresh => uploads = {}
    <3>1. SUFFICES ASSUME job'.fresh, NEW u \in uploads PROVE FALSE
      OBVIOUS
    <3>2. u.file \in Files /\ pypi.files[u.file] # Missing
      BY DEF IInv, TypeOK, UploadRecord, IndexInv, Files
    <3> QED
      BY <1>2, <2>2, <3>1, <3>2 DEF PageIsAbsent
  <2>4. JobInv'
    BY <1>0, <1>2, <2>1, <2>3 DEF JobInv, ContextIsRight, LocalIsRight, index
  <2> QED
    BY <1>0, <2>1, <2>4, JobMoves
<1>3. ASSUME NEW page \in Served, ~PageIsAbsent(page),
             job' = [job EXCEPT !.pc = "postflight", !.prepared = PageIsExact(page)]
      PROVE  IInv'
  <2>1. PageIsExact(page) \in BOOLEAN
    BY DEF PageIsExact
  <2>2. job' \in Job /\ job'.pc = "postflight"
    BY <1>0, <1>3, <2>1 DEF Job
  <2> QED
    BY <1>0, <2>2, JobMoves DEF JobInv
<1> QED
  BY <1>1, <1>2, <1>3 DEF Preflight, JobBecomes

\* An upload that PyPI does not take now, or not again, only moves the job on.
LEMMA UploadAside ==
  ASSUME IInv, NEW n \in Artifacts, job.pc = "publish", UNCHANGED <<index, green>>,
         job' = [job EXCEPT !.staged = @ \ {n},
                            !.pc = IF job.staged = {n} THEN "postflight" ELSE @]
  PROVE  IInv'
<1>1. job \in Job /\ ContextIsRight /\ LocalIsRight
  BY DEF IInv, TypeOK, JobInv
<1>2. /\ job' \in Job /\ job'.pc \in {"postflight", "publish"}
      /\ job'.tag = job.tag /\ job'.event = job.event /\ job'.files = job.files
      /\ job'.number = job.number /\ job'.fresh = job.fresh
  BY <1>1 DEF Job
<1>3. JobInv'
  BY <1>1, <1>2 DEF JobInv, IInv, ContextIsRight, LocalIsRight, index
<1> QED
  BY <1>2, <1>3, JobMoves

LEMMA UploadInv ==
  ASSUME IInv, NEW n \in Artifacts, Upload(n)
  PROVE  IInv'
<1> DEFINE u == [file |-> n, bytes |-> job.files[n], commit |-> job.event.sha,
                 job |-> job.number, fresh |-> job.fresh]
<1>0. job \in Job /\ job.pc = "publish" /\ ContextIsRight /\ LocalIsRight
  BY DEF Upload, IInv, TypeOK, JobInv
<1>1. CASE UNCHANGED index
  BY <1>0, <1>1, GotoInv, UploadAside DEF Upload, JobBecomes
<1>2. CASE Put(n, job.files[n]) /\ uploads' = uploads \cup {u}
  <2>1. job.files[n] = "frozen" /\ n \in Files
    BY <1>0 DEF LocalIsRight, Verified, Files
  <2>2. TypeOK /\ IndexInv /\ "frozen" \in Bytes
    BY DEF IInv, Bytes
  <2>3. /\ pypi' \in Page /\ pypi' \in pages' /\ pages' \subseteq Page
        /\ \A page \in pages', k \in Files :
             page.files[k] # Missing => pypi'.files[k] = page.files[k]
        /\ \A k \in Files : pypi.files[k] # Missing => pypi'.files[k] = pypi.files[k]
        /\ pypi'.files[n] = "frozen"
    BY <1>2, <2>1, <2>2, PutKeepsPages
  <2>4. Trusted(job.event.sha) /\ job.event.sha \in Commits
    <3>1. job.event \in Payloads
      BY <1>0 DEF Job, ContextIsRight, EventIsRight, NoEvent
    <3> QED
      BY <1>0, <3>1, ReleaseAssumption DEF ContextIsRight, Event
  <2>5. /\ job' \in Job /\ job'.pc \in {"postflight", "publish"}
        /\ job'.tag = job.tag /\ job'.event = job.event /\ job'.files = job.files
        /\ job'.number = job.number /\ job'.fresh = job.fresh
    <3>1. CASE Goto("postflight")
      BY <1>0, <3>1 DEF Goto, JobBecomes, Job
    <3>2. CASE ~Goto("postflight")
      <4>1. job' = [job EXCEPT !.staged = @ \ {n},
                               !.pc = IF job.staged = {n} THEN "postflight" ELSE @]
        BY <3>2 DEF Upload, JobBecomes
      <4> QED
        BY <1>0, <4>1 DEF Job
    <3> QED
      BY <3>1, <3>2
  <2>6. u \in UploadRecord
    BY <1>0, <2>1, <2>2, <2>4 DEF UploadRecord, Job
  <2>7. green' = green
    BY DEF Upload
  <2>8. TypeOK'
    BY <1>2, <2>2, <2>3, <2>5, <2>6, <2>7 DEF TypeOK
  <2>9. IndexInv'
    <3>1. \A v \in uploads' : pypi'.files[v.file] # Missing
      <4>1. \A v \in uploads : v.file \in Files /\ pypi.files[v.file] # Missing
        BY <2>2 DEF TypeOK, IndexInv, UploadRecord, Files
      <4> QED
        BY <1>2, <2>3, <4>1 DEF Missing
    <3> QED
      BY <2>3, <3>1 DEF IndexInv
  \* A job that saw PyPI's own page is the first to upload, and stays the only one.
  <2>10. job.fresh => \A v \in uploads' : v.job = job.number
    BY <1>0, <1>2 DEF IInv, JobInv
  <2>11. JobInv'
    BY <1>0, <2>5, <2>10 DEF JobInv, ContextIsRight, LocalIsRight
  <2>12. OneJobUploads'
    BY <1>2, <2>10 DEF IInv, OneJobUploads
  <2>13. OnlyFrozenUploaded'
    BY <1>2, <2>1, <2>4 DEF IInv, OnlyFrozenUploaded, Trusted
  <2>14. GreenMeansPublished'
    BY <2>3, <2>7 DEF IInv, GreenMeansPublished, Files, Missing
  <2> QED
    BY <2>8, <2>9, <2>11, <2>12, <2>13, <2>14 DEF IInv
<1> QED
  BY <1>1, <1>2 DEF Upload

LEMMA PollInv ==
  ASSUME IInv, Poll
  PROVE  IInv'
<1>0. job \in Job /\ job.pc = "poll" /\ UNCHANGED index
  BY DEF Poll, IInv, TypeOK
<1>1. CASE Ends(FALSE)
  BY <1>0, <1>1, EndsInv
<1>2. ASSUME NEW page \in Served, PageIsExact(page), Ends(job.prepared)
      PROVE  IInv'
  <2>1. \A n \in Artifacts : pypi.files[n] = "frozen"
    BY <1>2, ExactPage DEF IInv
  <2> QED
    BY <1>0, <1>2, <2>1, EndsInv DEF Job
<1>3. CASE PollAgain /\ UNCHANGED green
  <2>1. job.attempt + 1 \in 0..Attempts
    BY <1>0, <1>3, ReleaseAssumption DEF PollAgain, Job
  <2>2. job' \in Job /\ job'.pc = "poll"
    BY <1>0, <1>3, <2>1 DEF PollAgain, JobBecomes, Job
  <2> QED
    BY <1>0, <1>3, <2>2, JobMoves DEF JobInv
<1> QED
  BY <1>1, <1>2, <1>3 DEF Poll

LEMMA JobStepInv ==
  ASSUME IInv, JobStep
  PROVE  IInv'
<1>1. ASSUME Context PROVE IInv'
  BY <1>1, GotoInv DEF Context
<1>2. ASSUME Postflight PROVE IInv'
  BY <1>2, GotoInv, EndsInv DEF Postflight, index
<1> QED
  BY <1>1, <1>2, CheckoutInv, PreflightInv, PollInv, DownloadInv, UploadInv DEF JobStep

-----------------------------------------------------------------------------
(* People.                                                                 *)

\* What PyPI may become without the workflow: pages stay true, files stay there.
PagesGrow ==
  /\ pypi' \in Page /\ pypi' \in pages' /\ pages' \subseteq Page
  /\ \A page \in pages', k \in Files :
       page.files[k] # Missing => pypi'.files[k] = page.files[k]
  /\ \A k \in Files : pypi.files[k] # Missing => pypi'.files[k] = pypi.files[k]

LEMMA YankGrows ==
  ASSUME TypeOK, IndexInv, NEW n \in Files, Yank(n)
  PROVE  PagesGrow
<1>1. pypi \in Page /\ pypi \in pages /\ pages \subseteq Page
  BY DEF TypeOK
<1>2. pypi' \in Page /\ pypi'.files = pypi.files
  BY <1>1 DEF Yank, Page
<1> QED
  BY <1>1, <1>2 DEF Yank, IndexInv, PagesGrow

LEMMA ByHandInv ==
  ASSUME IInv, ByHand
  PROVE  IInv'
<1>1. UNCHANGED <<uploads, job, green>>
  BY DEF ByHand, UploadByHand, Yank
<1>2. PagesGrow
  <2>1. ASSUME NEW v \in HandUploads, UploadByHand(v[1], v[2])
        PROVE  PagesGrow
    <3>1. v[1] \in Files /\ v[2] \in Bytes
      BY <2>1, ReleaseAssumption
    <3> QED
      BY <2>1, <3>1, PutKeepsPages DEF UploadByHand, IInv, PagesGrow
  <2> QED
    BY <2>1, YankGrows DEF ByHand, IInv
<1>3. TypeOK'
  BY <1>1, <1>2 DEF IInv, TypeOK, PagesGrow
<1>4. IndexInv'
  <2>1. \A u \in uploads : u.file \in Files /\ pypi.files[u.file] # Missing
    BY DEF IInv, TypeOK, IndexInv, UploadRecord, Files
  <2> QED
    BY <1>1, <1>2, <2>1 DEF IndexInv, PagesGrow
<1>5. JobInv' /\ OnlyFrozenUploaded' /\ OneJobUploads'
  BY <1>1 DEF IInv, JobInv, ContextIsRight, LocalIsRight, OnlyFrozenUploaded, OneJobUploads
<1>6. GreenMeansPublished'
  BY <1>1, <1>2 DEF IInv, GreenMeansPublished, PagesGrow, Files, Missing
<1> QED
  BY <1>3, <1>4, <1>5, <1>6 DEF IInv

-----------------------------------------------------------------------------
LEMMA StepInv == IInv /\ [Next]_vars => IInv'
<1>1. ASSUME IInv, UNCHANGED vars PROVE IInv'
  BY <1>1, JobMoves DEF vars, index, IInv, TypeOK, JobInv, ContextIsRight, LocalIsRight
<1>2. ASSUME IInv, Cancel PROVE IInv'
  BY <1>2, EndsInv DEF Cancel
<1> QED
  BY <1>1, <1>2, StartJobInv, JobStepInv, ByHandInv DEF Next

(* What a job, its uploads and PyPI have seen of each other stays coherent *)
(* over any reruns, cancellations and uploads by hand.                     *)
THEOREM Invariant == Spec => []IInv
  BY InitInv, StepInv, PTL DEF Spec

(* The workflow publishes only the frozen bytes, by a commit made for the  *)
(* release, for any number of jobs, files, commits and old pages.          *)
THEOREM Frozen == Spec => []OnlyFrozenUploaded
  BY Invariant, PTL DEF IInv

(* A green job means a complete publication, for any files and attempts.   *)
THEOREM Green == Spec => []GreenMeansPublished
  BY Invariant, PTL DEF IInv

(* A publication cut off half-way is left to people: no second job that    *)
(* sees PyPI as it is uploads anything.                                    *)
THEOREM OneJob == Spec => []OneJobUploads
  BY Invariant, PTL DEF IInv

(* The types of the module's variables.                                    *)
THEOREM Types == Spec => []TypeOK
  BY Invariant, PTL DEF IInv
=============================================================================
