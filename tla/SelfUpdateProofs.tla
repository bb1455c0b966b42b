-------------------------- MODULE SelfUpdateProofs --------------------------
(***************************************************************************)
(* Theorems about SelfUpdate, for any number of updates at once and any    *)
(* number of releases and uploads.                                         *)
(*                                                                         *)
(* The invariant has three layers.  Backed: what the releases offer.       *)
(* Sound: what an update has established by the step it is at.  Tidy: the  *)
(* files it may have there, and what it has put in place.                  *)
(***************************************************************************)
EXTENDS SelfUpdate, FiniteSetTheorems, TLAPS

Runs == [version : 0..MaxTag, tag : Tags \cup {None},
         got : Archives \cup {None}, want : Archives \cup {None},
         staged : Contents \cup {None},
         outcome : {"none", "updated", "current", "failed"}]

\* An archive of a tag whose checksum was once published.
Vouched(a, t) == a \in vouched /\ a.tag = t

\* A file of a tag that is whole, unless the binary of that tag has outgrown the
\* limit.
Whole(a, t) ==
  /\ a \in Contents /\ a.tag = t
  /\ Outgrown(t) \/ (a \in vouched /\ a.form = "binary")

\* The assets of a tag are of that tag, and a checksum vouches for its tarball.
Backed ==
  \A t \in Tags :
    /\ tarball[t] # None => tarball[t].tag = t
    /\ checksum[t] \notin {None, NotAHash} => Vouched(checksum[t], t)

\* A release has been chosen, and nothing was put in place yet.
Underway == Steps \ {"resolve", "clean"}

\* What an update knows at each step.
Sound(u) ==
  /\ pc[u] \in Underway => run[u].tag \in Tags
  /\ pc[u] = "verify" => Vouched(run[u].want, run[u].tag)
  /\ pc[u] \in {"extract", "write"} => Vouched(run[u].got, run[u].tag)
  /\ pc[u] = "write" => run[u].got.form # "other"
  /\ pc[u] = "rename" => Whole(run[u].staged, run[u].tag)

\* The files an update may have at a step.
Kept(step) ==
  CASE step = "unprobe" -> {"probe"}
    [] step \in {"download", "checksum", "verify", "extract", "clean"} -> {"download"}
    [] step \in {"write", "rename"} -> {"download", "staged"}
    [] OTHER -> {}

Tidy(u) ==
  /\ pc[u] # "killed" /\ u \notin unremoved => files[u] \subseteq Kept(pc[u])
  /\ pc[u] \in Underway \cup {"off", "resolve"} =>
       installed[u] = None /\ run[u].outcome = "none"
  /\ pc[u] \in {"clean", "ended"} =>
       installed[u] = IF run[u].outcome = "updated" THEN run[u].tag ELSE None

IInv ==
  /\ TypeOK
  /\ run \in [Updaters -> Runs]
  /\ Backed
  /\ \A u \in Updaters : Sound(u) /\ Tidy(u)
  /\ BinaryIsWhole
----------------------------------------------------------------------------
\* What one step of an update leaves alone, and what must hold of it after.
Alone(u) ==
  /\ UNCHANGED server
  /\ binary' \in Contents /\ writable' \in BOOLEAN
  /\ pc' \in [Updaters -> Steps \cup {"off", "ended", "killed"}]
  /\ run' \in [Updaters -> Runs]
  /\ files' \in [Updaters -> SUBSET Files] /\ unremoved' \subseteq Updaters
  /\ installed' \in [Updaters -> Tags \cup {None}]
  /\ unremoved \subseteq unremoved' /\ unremoved' \subseteq unremoved \cup {u}
  /\ \A v \in Updaters \ {u} : /\ pc'[v] = pc[v] /\ run'[v] = run[v]
                               /\ files'[v] = files[v] /\ installed'[v] = installed[v]

\* A step of one update keeps the invariant if it keeps that update's part.
LEMMA OneStep ==
  ASSUME IInv, NEW u \in Updaters, Alone(u), Sound(u)', Tidy(u)', BinaryIsWhole'
  PROVE  IInv'
<1> USE DEF IInv, Alone
<1>1. TypeOK'
  BY DEF TypeOK, server, Runs
<1>2. Backed'
  BY DEF Backed, Vouched, server
<1>3. ASSUME NEW v \in Updaters \ {u} PROVE Sound(v)' /\ Tidy(v)'
  BY <1>3 DEF Sound, Tidy, Vouched, Whole, Outgrown, server
<1>4. QED
  BY <1>1, <1>2, <1>3

\* The initial states satisfy the invariant.
LEMMA Initially == Init => IInv
BY SelfUpdateAssumption
DEF Init, IInv, TypeOK, Runs, Blank, Tags, Archives, Contents, Forms, Original,
    Files, Backed, Sound, Tidy, Kept, Underway, Steps, BinaryIsWhole

\* A new release gets the next tag.
LEMMA PublishStep ==
  ASSUME IInv, Publish
  PROVE  IInv'
<1>1. Cardinality(released) \in Nat
  <2>1. IsFiniteSet(1..MaxTag)
    BY SelfUpdateAssumption, FS_Interval
  <2>2. released \in SUBSET (1..MaxTag)
    BY DEF IInv, TypeOK, Tags
  <2>3. QED
    BY <2>1, <2>2, FS_Subset, FS_CardinalityType
<1>2. PICK t : /\ t = Cardinality(released) + 1
               /\ released' = released \cup {t}
               /\ stable' \in {stable, stable \cup {t}}
               /\ t <= MaxTag
  BY <1>1, SelfUpdateAssumption DEF Publish
<1>3. t \in Tags
  BY <1>1, <1>2, SelfUpdateAssumption DEF Tags
<1>4. released' \subseteq Tags /\ stable' \subseteq released'
  BY <1>2, <1>3 DEF IInv, TypeOK
<1>5. QED
  BY <1>4 DEF Publish, IInv, TypeOK, Backed, Sound, Tidy, Vouched, Whole, Outgrown, BinaryIsWhole
----------------------------------------------------------------------------
\* The project replaces an asset, or the directory turns read-only: no update
\* is touched, and what was vouched for stays so.
LEMMA ServerStep ==
  ASSUME IInv, Chmod \/ \E t \in released : UploadTarball(t) \/ UploadChecksum(t)
  PROVE  IInv'
<1> USE SelfUpdateAssumption DEF IInv
<1>1. CASE Chmod
  BY <1>1 DEF Chmod, server, TypeOK, Backed, Sound, Tidy, Vouched, Whole, Outgrown, BinaryIsWhole
<1>2. ASSUME NEW t \in Tags, UploadTarball(t) PROVE IInv'
  <2>1. PICK f \in Forms : tarball' = [tarball EXCEPT ![t] = [tag |-> t, form |-> f]]
    BY <1>2 DEF UploadTarball
  <2>2. [tag |-> t, form |-> f] \in Archives
    BY DEF Archives, Tags
  <2>3. TypeOK'
    BY <1>2, <2>1, <2>2 DEF UploadTarball, TypeOK
  <2>4. Backed'
    BY <1>2, <2>1 DEF UploadTarball, TypeOK, Backed, Vouched
  <2>5. QED
    BY <1>2, <2>3, <2>4 DEF UploadTarball, Sound, Tidy, Vouched, Whole, Outgrown, BinaryIsWhole
<1>3. ASSUME NEW t \in Tags, UploadChecksum(t) PROVE IInv'
  <2>1. TypeOK'
    BY <1>3 DEF UploadChecksum, TypeOK
  <2>2. Backed'
    BY <1>3 DEF UploadChecksum, TypeOK, Backed, Vouched
  <2>3. vouched \subseteq vouched'
    BY <1>3 DEF UploadChecksum
  <2>4. QED
    BY <1>3, <2>1, <2>2, <2>3 DEF UploadChecksum, Sound, Tidy, Vouched, Whole, Outgrown, BinaryIsWhole
<1>4. QED
  BY <1>1, <1>2, <1>3 DEF TypeOK

\* A record with one field changed, and what an update that ended keeps.
LEMMA RunFields ==
  ASSUME NEW r \in Runs
  PROVE  /\ \A a \in Archives \cup {None} :
              /\ [r EXCEPT !.got = a] \in Runs /\ [r EXCEPT !.want = a] \in Runs
         /\ \A a \in Contents \cup {None} : [r EXCEPT !.staged = a] \in Runs
         /\ \A o \in {"failed", "current", "updated"} : [r EXCEPT !.outcome = o] \in Runs
         /\ \A n \in 0..MaxTag : [r EXCEPT !.version = n] \in Runs
BY DEF Runs

LEMMA Ended ==
  ASSUME NEW r \in Runs, NEW o \in {"none", "failed", "current", "updated"}
  PROVE  /\ Blank \in Runs
         /\ [Blank EXCEPT !.tag = r.tag, !.outcome = o] \in Runs
         /\ [Blank EXCEPT !.tag = r.tag, !.outcome = o].tag = r.tag
         /\ [Blank EXCEPT !.tag = r.tag, !.outcome = o].outcome = o
<1>1. r.tag \in Tags \cup {None}
  BY DEF Runs
<1>2. 0 \in 0..MaxTag
  BY SelfUpdateAssumption
<1>3. /\ [Blank EXCEPT !.tag = r.tag, !.outcome = o]
           = [f \in DOMAIN Blank |-> IF f = "outcome" THEN o
                                     ELSE IF f = "tag" THEN r.tag ELSE Blank[f]]
      /\ DOMAIN Blank = {"version", "tag", "got", "want", "staged", "outcome"}
  BY DEF Blank
<1>4. Blank \in Runs
  BY <1>2 DEF Blank, Runs
<1>5. QED
  BY <1>1, <1>2, <1>3, <1>4 DEF Runs

\* Removing a file leaves it only where the directory refused.
LEMMA Removed ==
  ASSUME IInv, NEW u \in Updaters, NEW f, Remove(u, f)
  PROVE  /\ files' \in [Updaters -> SUBSET Files] /\ unremoved' \subseteq Updaters
         /\ unremoved \subseteq unremoved' /\ unremoved' \subseteq unremoved \cup {u}
         /\ \A v \in Updaters \ {u} : files'[v] = files[v]
         /\ files'[u] \subseteq files[u]
         /\ u \notin unremoved' => f \notin files'[u]
<1>1. CASE writable \/ f \notin files[u]
  <2>1. files' = [files EXCEPT ![u] = @ \ {f}] /\ unremoved' = unremoved
    BY <1>1 DEF Remove
  <2>2. files' \in [Updaters -> SUBSET Files]
    BY <2>1 DEF IInv, TypeOK
  <2>3. QED
    BY <2>1, <2>2 DEF IInv, TypeOK
<1>2. CASE ~(writable \/ f \notin files[u])
  BY <1>2 DEF Remove, IInv, TypeOK
<1>3. QED
  BY <1>1, <1>2
----------------------------------------------------------------------------
\* An update starts; it has nothing yet.
LEMMA StartStep ==
  ASSUME IInv, NEW u \in Updaters, Start(u)
  PROVE  IInv'
<1>1. run'[u] \in Runs /\ run' \in [Updaters -> Runs]
  BY RunFields DEF Start, IInv, TypeOK, Contents
<1>2. Alone(u)
  BY <1>1 DEF Start, Goto, IInv, TypeOK, Alone, Steps, server
<1>3. Sound(u)' /\ Tidy(u)'
  BY DEF Start, Goto, IInv, TypeOK, Runs, Sound, Tidy, Kept, Underway, Steps
<1>4. BinaryIsWhole'
  BY DEF Start, server, IInv, Outgrown, BinaryIsWhole
<1>5. QED
  BY <1>2, <1>3, <1>4, OneStep

\* The release is chosen, or the command ends.
LEMMA ResolveStep ==
  ASSUME IInv, NEW u \in Updaters, Resolve(u)
  PROVE  IInv'
<1>1. BinaryIsWhole'
  BY DEF Resolve, server, IInv, Outgrown, BinaryIsWhole
<1>2. ASSUME NEW o \in {"failed", "current"}, Finish(u, o) PROVE IInv'
  <2>1. [Blank EXCEPT !.tag = run[u].tag, !.outcome = o] \in Runs
    BY Ended DEF IInv
  <2>2. run' \in [Updaters -> Runs] /\ pc' = [pc EXCEPT ![u] = "ended"]
    BY <1>2, <2>1 DEF Finish, Goto, IInv
  <2>3. Alone(u)
    BY <1>2, <2>2 DEF Resolve, Finish, IInv, TypeOK, Alone, server
  <2>4. Sound(u)' /\ Tidy(u)'
    BY <1>2, <2>2, Ended DEF Resolve, Finish, IInv, TypeOK, Sound, Tidy, Kept, Underway, Steps
  <2>5. QED
    BY <1>1, <2>3, <2>4, OneStep
<1>3. ASSUME NEW t \in released, run' = [run EXCEPT ![u].tag = t], Goto(u, "probe")
      PROVE  IInv'
  <2>1. t \in Tags
    BY DEF IInv, TypeOK
  <2>2. run' \in [Updaters -> Runs]
    BY <1>3, <2>1 DEF IInv, Runs
  <2>3. Alone(u)
    BY <1>3, <2>2 DEF Resolve, Goto, IInv, TypeOK, Alone, Steps, server
  <2>4. Sound(u)' /\ Tidy(u)'
    BY <1>3, <2>1 DEF Resolve, Goto, IInv, TypeOK, Runs, Sound, Tidy, Kept, Underway, Steps
  <2>5. QED
    BY <1>1, <2>3, <2>4, OneStep
<1>4. QED
  BY <1>2, <1>3 DEF Resolve

\* Steps that only end the command with a failure.
LEMMA FinishStep ==
  ASSUME IInv, NEW u \in Updaters, pc[u] \in {"probe", "create"}, Finish(u, "failed"),
         UNCHANGED <<server, binary, writable, files, unremoved, installed>>
  PROVE  IInv'
<1>1. run' \in [Updaters -> Runs] /\ pc' = [pc EXCEPT ![u] = "ended"]
  BY Ended DEF Finish, Goto, IInv
<1>2. Alone(u)
  BY <1>1 DEF Finish, IInv, TypeOK, Alone, server
<1>3. Sound(u)' /\ Tidy(u)'
  BY <1>1, Ended DEF Finish, IInv, TypeOK, Sound, Tidy, Kept, Underway, Steps
<1>4. BinaryIsWhole'
  BY DEF server, IInv, Outgrown, BinaryIsWhole
<1>5. QED
  BY <1>2, <1>3, <1>4, OneStep

\* A failure before the rename leaves the tarball to the defer.
LEMMA FailStep ==
  ASSUME IInv, NEW u \in Updaters, Fail(u),
         pc[u] \in {"checksum", "verify", "extract", "write", "rename"},
         \/ UNCHANGED <<files, unremoved>> /\ pc[u] \notin {"write", "rename"}
         \/ Remove(u, "staged"),
         UNCHANGED <<server, binary, writable, installed>>
  PROVE  IInv'
<1>1. /\ run' \in [Updaters -> Runs] /\ pc' = [pc EXCEPT ![u] = "clean"]
      /\ run' = [run EXCEPT ![u].outcome = "failed"]
  BY RunFields DEF Fail, Goto, IInv
<1>2. Alone(u)
  BY <1>1, Removed DEF IInv, TypeOK, Alone, Steps, server
<1>3. u \notin unremoved' => u \notin unremoved /\ files'[u] \subseteq files[u] \ {"staged"}
  BY Removed DEF IInv, Tidy, Kept, TypeOK, Steps
<1>4. Sound(u)'
  BY <1>1 DEF IInv, TypeOK, Sound, Underway, Steps
<1>5. Tidy(u)'
  BY <1>1, <1>3 DEF IInv, TypeOK, Tidy, Kept, Underway, Steps
<1>6. BinaryIsWhole'
  BY DEF server, IInv, Outgrown, BinaryIsWhole
<1>7. QED
  BY <1>2, <1>4, <1>5, <1>6, OneStep

\* checkWritable and downloadTemp.
LEMMA FetchSteps ==
  ASSUME IInv, NEW u \in Updaters, Probe(u) \/ Unprobe(u) \/ OpenDownload(u) \/ Download(u)
  PROVE  IInv'
<1> USE DEF IInv
<1>0. BinaryIsWhole'
  BY DEF Probe, Unprobe, OpenDownload, Download, server, Outgrown, BinaryIsWhole
<1>1. CASE Probe(u)
  <2>1. CASE Create(u, "probe") /\ Goto(u, "unprobe") /\ UNCHANGED run
    <3>1. Alone(u)
      BY <1>1, <2>1 DEF Probe, Create, Goto, TypeOK, Alone, Steps, Files, server
    <3>2. Sound(u)' /\ Tidy(u)'
      BY <1>1, <2>1 DEF Probe, Create, Goto, TypeOK, Sound, Tidy, Kept, Underway, Steps
    <3>3. QED
      BY <1>0, <3>1, <3>2, OneStep
  <2>2. QED
    BY <1>1, <2>1, FinishStep DEF Probe
<1>2. CASE Unprobe(u)
  <2>1. Alone(u)
    BY <1>2, Removed DEF Unprobe, Goto, TypeOK, Alone, Steps, server
  <2>2. Sound(u)' /\ Tidy(u)'
    BY <1>2, Removed DEF Unprobe, Goto, TypeOK, Sound, Tidy, Kept, Underway, Steps
  <2>3. QED
    BY <1>0, <2>1, <2>2, OneStep
<1>3. CASE OpenDownload(u)
  <2>1. CASE /\ Create(u, "download") /\ Goto(u, "download")
             /\ tarball[run[u].tag] # None
             /\ run' = [run EXCEPT ![u].got = tarball[run[u].tag]]
    <3>1. tarball[run[u].tag] \in Archives
      BY <1>3, <2>1 DEF OpenDownload, TypeOK, Sound, Underway, Steps
    <3>2. run' \in [Updaters -> Runs]
      BY <2>1, <3>1, RunFields
    <3>3. Alone(u)
      BY <1>3, <2>1, <3>2 DEF OpenDownload, Create, Goto, TypeOK, Alone, Steps, Files, server
    <3>4. Sound(u)' /\ Tidy(u)'
      BY <1>3, <2>1, <3>1
      DEF OpenDownload, Create, Goto, TypeOK, Runs, Sound, Tidy, Kept, Underway, Steps
    <3>5. QED
      BY <1>0, <3>3, <3>4, OneStep
  <2>2. QED
    BY <1>3, <2>1, FinishStep DEF OpenDownload
<1>4. CASE Download(u)
  <2>1. ASSUME NEW body \in {run[u].got, Damaged},
               run' = [run EXCEPT ![u].got = body], Goto(u, "checksum"),
               UNCHANGED <<files, unremoved>>
        PROVE  IInv'
    <3>1. Damaged \in Archives /\ run[u].got \in Archives \cup {None}
      BY SelfUpdateAssumption DEF Damaged, Archives, Forms, Runs
    <3>2. run' \in [Updaters -> Runs]
      BY <2>1, <3>1, RunFields
    <3>3. Alone(u)
      BY <1>4, <2>1, <3>2 DEF Download, Goto, TypeOK, Alone, Steps, server
    <3>4. Sound(u)' /\ Tidy(u)'
      BY <1>4, <2>1 DEF Download, Goto, TypeOK, Runs, Sound, Tidy, Kept, Underway, Steps
    <3>5. QED
      BY <1>0, <3>3, <3>4, OneStep
  <2>2. CASE Finish(u, "failed") /\ Remove(u, "download")
    <3>1. run' \in [Updaters -> Runs] /\ pc' = [pc EXCEPT ![u] = "ended"]
      BY <2>2, Ended DEF Finish, Goto
    <3>2. Alone(u)
      BY <1>4, <2>2, <3>1, Removed DEF Download, Finish, TypeOK, Alone, server
    <3>3. u \notin unremoved' => files'[u] = {}
      BY <1>4, <2>2, Removed DEF Download, Tidy, Kept
    <3>4. Sound(u)' /\ Tidy(u)'
      BY <1>4, <2>2, <3>1, <3>3, Ended
      DEF Download, Finish, TypeOK, Sound, Tidy, Kept, Underway, Steps
    <3>5. QED
      BY <1>0, <3>2, <3>4, OneStep
  <2>3. QED
    BY <1>4, <2>1, <2>2 DEF Download
<1>5. QED
  BY <1>1, <1>2, <1>3, <1>4

\* fetchChecksum, the comparison, and extractBinary.
LEMMA VerifySteps ==
  ASSUME IInv, NEW u \in Updaters,
         FetchChecksum(u) \/ Verify(u) \/ Extract(u) \/ WriteStaged(u)
  PROVE  IInv'
<1> USE DEF IInv
<1>0. BinaryIsWhole'
  BY DEF FetchChecksum, Verify, Extract, WriteStaged, server, Outgrown, BinaryIsWhole
<1>1. CASE FetchChecksum(u)
  <2>1. CASE Fail(u)
    BY <1>1, <2>1, FailStep DEF FetchChecksum
  <2>2. CASE ~Fail(u)
    <3>1. /\ run[u].tag \in Tags
          /\ checksum[run[u].tag] \notin {None, NotAHash}
          /\ run' = [run EXCEPT ![u].want = checksum[run[u].tag]]
          /\ Vouched(checksum[run[u].tag], run[u].tag)
      BY <1>1, <2>2 DEF FetchChecksum, Sound, Underway, Steps, Backed
    <3>2. checksum[run[u].tag] \in Archives
      BY <3>1 DEF TypeOK
    <3>3. run' \in [Updaters -> Runs]
      BY <3>1, <3>2, RunFields
    <3>4. Alone(u)
      BY <1>1, <2>2, <3>3 DEF FetchChecksum, Goto, TypeOK, Alone, Steps, server
    <3>5. Sound(u)' /\ Tidy(u)'
      BY <1>1, <2>2, <3>1
      DEF FetchChecksum, Goto, TypeOK, Runs, Sound, Tidy, Kept, Underway, Steps, Vouched, server
    <3>6. QED
      BY <1>0, <3>4, <3>5, OneStep
  <2>3. QED
    BY <2>1, <2>2
<1>2. CASE Verify(u)
  <2>1. CASE Fail(u)
    BY <1>2, <2>1, FailStep DEF Verify
  <2>2. CASE ~Fail(u)
    <3>1. Alone(u)
      BY <1>2, <2>2 DEF Verify, Goto, TypeOK, Alone, Steps, server
    <3>2. Sound(u)' /\ Tidy(u)'
      BY <1>2, <2>2 DEF Verify, Goto, TypeOK, Sound, Tidy, Kept, Underway, Steps, Vouched, server
    <3>3. QED
      BY <1>0, <3>1, <3>2, OneStep
  <2>3. QED
    BY <2>1, <2>2
<1>3. CASE Extract(u)
  <2>1. CASE Fail(u) /\ UNCHANGED files
    BY <1>3, <2>1, FailStep DEF Extract
  <2>2. CASE ~(Fail(u) /\ UNCHANGED files)
    <3>1. Alone(u)
      BY <1>3, <2>2 DEF Extract, Create, Goto, TypeOK, Alone, Steps, Files, server
    <3>2. Sound(u)' /\ Tidy(u)'
      BY <1>3, <2>2
      DEF Extract, Create, Goto, TypeOK, Sound, Tidy, Kept, Underway, Steps, Vouched, server
    <3>3. QED
      BY <1>0, <3>1, <3>2, OneStep
  <2>3. QED
    BY <2>1, <2>2
<1>4. CASE WriteStaged(u)
  <2>1. CASE Fail(u) /\ Remove(u, "staged")
    BY <1>4, <2>1, FailStep DEF WriteStaged
  <2>2. CASE ~(Fail(u) /\ Remove(u, "staged"))
    <3>1. /\ run' = [run EXCEPT ![u].staged = Written(run[u].got)]
          /\ run[u].got \in Archives /\ Vouched(run[u].got, run[u].tag)
          /\ run[u].got.form \in {"binary", "oversize"}
      BY <1>4, <2>2 DEF WriteStaged, TypeOK, Sound, Vouched, Archives, Forms
    <3>5. Whole(Written(run[u].got), run[u].tag)
      BY <3>1 DEF Written, Whole, Outgrown, Vouched, Archives, Contents
    <3>2. run' \in [Updaters -> Runs]
      BY <3>1, <3>5, RunFields DEF Whole
    <3>3. Alone(u)
      BY <1>4, <2>2, <3>2 DEF WriteStaged, Goto, TypeOK, Alone, Steps, server
    <3>4. Sound(u)' /\ Tidy(u)'
      BY <1>4, <2>2, <3>1, <3>5
      DEF WriteStaged, Goto, TypeOK, Runs, Sound, Tidy, Kept, Underway, Steps, Whole,
          Outgrown, server
    <3>6. QED
      BY <1>0, <3>3, <3>4, OneStep
  <2>3. QED
    BY <2>1, <2>2
<1>5. QED
  BY <1>1, <1>2, <1>3, <1>4

\* The new binary is put in place, and the defer removes the tarball.
LEMMA InstallSteps ==
  ASSUME IInv, NEW u \in Updaters, Rename(u) \/ Clean(u)
  PROVE  IInv'
<1> USE DEF IInv
<1>1. CASE Rename(u)
  <2>1. CASE Fail(u) /\ Remove(u, "staged") /\ UNCHANGED <<binary, installed>>
    BY <1>1, <2>1, FailStep DEF Rename
  <2>2. CASE ~(Fail(u) /\ Remove(u, "staged") /\ UNCHANGED <<binary, installed>>)
    <3>1. /\ binary' = run[u].staged
          /\ Whole(binary', run[u].tag)
          /\ binary'.tag = run[u].tag /\ run[u].tag \in Tags
          /\ run' = [run EXCEPT ![u].outcome = "updated"]
      BY <1>1, <2>2 DEF Rename, TypeOK, Sound, Whole, Underway, Steps
    <3>2. run' \in [Updaters -> Runs] /\ installed' = [installed EXCEPT ![u] = run[u].tag]
      BY <1>1, <2>2, <3>1, RunFields DEF Rename
    <3>3. Alone(u)
      BY <1>1, <2>2, <3>1, <3>2 DEF Rename, Goto, TypeOK, Alone, Steps, Whole, server
    <3>4. Sound(u)'
      BY <1>1, <2>2, <3>1 DEF Rename, Goto, TypeOK, Sound, Underway, Steps
    <3>5. Tidy(u)'
      BY <1>1, <2>2, <3>1, <3>2 DEF Rename, Goto, TypeOK, Tidy, Kept, Underway, Steps
    <3>6. BinaryIsWhole'
      BY <1>1, <3>1 DEF Rename, server, Whole, Outgrown, BinaryIsWhole
    <3>7. QED
      BY <3>3, <3>4, <3>5, <3>6, OneStep
  <2>3. QED
    BY <2>1, <2>2
<1>2. CASE Clean(u)
  <2>1. run[u].outcome \in {"none", "failed", "current", "updated"}
    BY DEF Runs
  <2>2. /\ run' \in [Updaters -> Runs] /\ pc' = [pc EXCEPT ![u] = "ended"]
        /\ run'[u].tag = run[u].tag /\ run'[u].outcome = run[u].outcome
        /\ \A v \in Updaters \ {u} : run'[v] = run[v]
    BY <1>2, <2>1, Ended DEF Clean, Finish, Goto
  <2>3. Alone(u)
    BY <1>2, <2>2, Removed DEF Clean, TypeOK, Alone, server
  <2>4. Sound(u)' /\ Tidy(u)'
    <3>1. u \notin unremoved' => files'[u] = {}
      BY <1>2, Removed DEF Clean, Tidy, Kept
    <3>2. QED
      BY <1>2, <2>2, <3>1 DEF Clean, TypeOK, Sound, Tidy, Kept, Underway, Steps
  <2>5. BinaryIsWhole'
    BY <1>2 DEF Clean, server, Outgrown, BinaryIsWhole
  <2>6. QED
    BY <2>3, <2>4, <2>5, OneStep
<1>3. QED
  BY <1>1, <1>2

\* A killed update may leave anything but a broken binary.
LEMMA KillStep ==
  ASSUME IInv, NEW u \in Updaters, Kill(u)
  PROVE  IInv'
<1>1. Blank \in Runs
  BY SelfUpdateAssumption DEF Blank, Runs
<1>2. Alone(u)
  BY <1>1 DEF Kill, Goto, IInv, TypeOK, Alone, server
<1>3. Sound(u)' /\ Tidy(u)'
  BY DEF Kill, Goto, IInv, TypeOK, Sound, Tidy, Kept, Underway, Steps
<1>4. BinaryIsWhole'
  BY DEF Kill, server, IInv, Outgrown, BinaryIsWhole
<1>5. QED
  BY <1>2, <1>3, <1>4, OneStep

\* Nothing changes.
LEMMA StutterStep ==
  ASSUME IInv, UNCHANGED vars
  PROVE  IInv'
BY DEF IInv, vars, server, TypeOK, Backed, Sound, Tidy, Vouched, Whole, Outgrown, BinaryIsWhole
----------------------------------------------------------------------------
\* The invariant holds in every reachable state, for any number of updates,
\* releases and uploads.
THEOREM Invariance == Spec => []IInv
<1>1. Init => IInv
  BY Initially
<1>2. IInv /\ [Next]_vars => IInv'
  <2> SUFFICES ASSUME IInv, [Next]_vars PROVE IInv'
    OBVIOUS
  <2>1. CASE Publish
    BY <2>1, PublishStep
  <2>2. CASE Chmod \/ \E t \in released : UploadTarball(t) \/ UploadChecksum(t)
    BY <2>2, ServerStep
  <2>3. ASSUME NEW u \in Updaters, Start(u) \/ Resolve(u) \/ Install(u) \/ Kill(u)
        PROVE  IInv'
    BY <2>3, StartStep, ResolveStep, FetchSteps, VerifySteps, InstallSteps, KillStep
    DEF Install
  <2>4. CASE UNCHANGED vars
    BY <2>4, StutterStep
  <2>5. QED
    BY <2>1, <2>2, <2>3, <2>4 DEF Next
<1>3. QED
  BY <1>1, <1>2, PTL DEF Spec

\* Every variable keeps its type.
THEOREM TypeCorrect == Spec => []TypeOK
<1>1. IInv => TypeOK
  BY DEF IInv
<1>2. QED
  BY <1>1, Invariance, PTL

\* What is installed is whole and was vouched for (install.go), whatever is
\* killed, damaged or replaced, unless its release published a binary above
\* maxBinaryBytes.
THEOREM BinarySafe == Spec => []BinaryIsWhole
<1>1. IInv => BinaryIsWhole
  BY DEF IInv
<1>2. QED
  BY <1>1, Invariance, PTL

\* An update that ended left no file behind that it could remove, and reports
\* what it did (runUpdate and Install's defers).
THEOREM EndsTidily == Spec => []EndsClean
<1>1. IInv => EndsClean
  BY DEF IInv, EndsClean, Tidy, Kept
<1>2. QED
  BY <1>1, Invariance, PTL
=============================================================================
