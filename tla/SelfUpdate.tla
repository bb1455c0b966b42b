----------------------------- MODULE SelfUpdate -----------------------------
(***************************************************************************)
(* "lazyswap update": processes that resolve a release, download its       *)
(* tarball beside the running binary, check it against the checksum        *)
(* published with it, extract the binary and rename it into place.  Assets *)
(* are uploaded one at a time and may be replaced, a download may come     *)
(* back damaged, the directory may lose its write permission, and a        *)
(* process may be killed between any two steps.                            *)
(*                                                                         *)
(* A tarball is the release it is for and what is inside; a checksum is    *)
(* the tarball it belongs to.  Tags are numbered in order of publication.  *)
(***************************************************************************)
EXTENDS Naturals, FiniteSets

CONSTANTS
  Updaters,    \* processes, each running the command once
  MaxTag,      \* bound: releases ever published
  MaxUploads,  \* bound: assets ever uploaded
  NotAHash,    \* a checksum file that holds no sha256
  None         \* nothing

ASSUME SelfUpdateAssumption == MaxTag \in Nat /\ MaxUploads \in Nat

VARIABLES
  released,   \* tags published
  stable,     \* those that are not prereleases
  tarball,    \* the tarball uploaded for each tag
  checksum,   \* the tarball whose hash the checksum of each tag holds
  uploads,    \* assets uploaded so far
  vouched,    \* tarballs whose checksum was once published
  binary,     \* what is at the path of the binary
  writable,   \* the user may write to its directory
  pc,         \* where each process is
  run,        \* what each process has found out
  files,      \* the temporary files of each process
  unremoved,  \* processes that could not remove a file
  installed   \* the tag of the binary that each process has put in place

server == <<released, stable, tarball, checksum, uploads, vouched>>
vars == <<server, binary, writable, pc, run, files, unremoved, installed>>

Tags == 1..MaxTag

\* What a tarball may hold: the binary, the binary and more, anything else, or
\* a binary above maxBinaryBytes.
Forms == {"binary", "more", "other", "oversize"}
Archives == [tag : 0..MaxTag, form : Forms]

\* What may be written of one: all of it, or the part below the limit.
Contents == [tag : 0..MaxTag, form : Forms \cup {"partial"}]
Damaged == [tag |-> 0, form |-> "other"]
Original == [tag |-> 0, form |-> "binary"]
Files == {"probe", "download", "staged"}
Steps == {"resolve", "probe", "unprobe", "create", "download", "checksum",
          "verify", "extract", "write", "rename", "clean"}

Blank == [version |-> 0, tag |-> None, got |-> None, want |-> None,
          staged |-> None, outcome |-> "none"]

Goto(u, step) == pc' = [pc EXCEPT ![u] = step]

\* os.Remove, whose error is ignored.
Remove(u, f) ==
  IF writable \/ f \notin files[u]
    THEN files' = [files EXCEPT ![u] = @ \ {f}] /\ UNCHANGED unremoved
    ELSE unremoved' = unremoved \cup {u} /\ UNCHANGED files

\* os.CreateTemp.
Create(u, f) == writable /\ files' = [files EXCEPT ![u] = @ \cup {f}]

\* The command ends here with this outcome, or has only its defer left to run.
Finish(u, outcome) ==
  /\ run' = [run EXCEPT ![u] = [Blank EXCEPT !.tag = run[u].tag, !.outcome = outcome]]
  /\ Goto(u, "ended")
Fail(u) == run' = [run EXCEPT ![u].outcome = "failed"] /\ Goto(u, "clean")
----------------------------------------------------------------------------
\* The project publishes a release: the newest so far, a prerelease or not.
Publish ==
  /\ Cardinality(released) < MaxTag
  /\ LET t == Cardinality(released) + 1
     IN  /\ released' = released \cup {t}
         /\ stable' \in {stable, stable \cup {t}}
  /\ UNCHANGED <<tarball, checksum, uploads, vouched, binary, writable, pc, run,
                 files, unremoved, installed>>

\* It uploads a tarball, the first or a replacement, ...
UploadTarball(t) ==
  /\ uploads < MaxUploads
  /\ uploads' = uploads + 1
  /\ \E f \in Forms : tarball' = [tarball EXCEPT ![t] = [tag |-> t, form |-> f]]
  /\ UNCHANGED <<released, stable, checksum, vouched, binary, writable, pc, run,
                 files, unremoved, installed>>

\* ... or the checksum of the tarball that is there, or a file that is none.
UploadChecksum(t) ==
  /\ uploads < MaxUploads
  /\ uploads' = uploads + 1
  /\ \/ /\ tarball[t] # None
        /\ checksum' = [checksum EXCEPT ![t] = tarball[t]]
        /\ vouched' = vouched \cup {tarball[t]}
     \/ checksum' = [checksum EXCEPT ![t] = NotAHash] /\ UNCHANGED vouched
  /\ UNCHANGED <<released, stable, tarball, binary, writable, pc, run, files,
                 unremoved, installed>>

\* The user loses the permission to write to the directory.
Chmod ==
  /\ writable /\ writable' = FALSE
  /\ UNCHANGED <<server, binary, pc, run, files, unremoved, installed>>

\* runUpdate starts: its version is that of the binary it was started from.
Start(u) ==
  /\ pc[u] = "off"
  /\ run' = [run EXCEPT ![u].version = binary.tag]
  /\ Goto(u, "resolve")
  /\ UNCHANGED <<server, binary, writable, files, unremoved, installed>>

\* A release that pick accepts: it has this platform's tarball and a checksum.
Pickable(t) == tarball[t] # None /\ checksum[t] # None

\* Latest: the latest stable release, or without one the first of the list.
Latest ==
  LET from == IF stable # {} THEN stable ELSE released
  IN  {t \in from : \A s \in from : s <= t}

\* resolveRelease, of the tag asked for or the latest; --check stops here, and
\* so does a latest release that is the running one.
Resolve(u) ==
  /\ pc[u] = "resolve"
  /\ \/ Finish(u, "failed")
     \/ \E pinned \in BOOLEAN, t \in released :
          /\ pinned \/ t \in Latest
          /\ Pickable(t)
          /\ \/ Finish(u, "current")
             \/ /\ pinned \/ t # run[u].version
                /\ run' = [run EXCEPT ![u].tag = t]
                /\ Goto(u, "probe")
  /\ UNCHANGED <<server, binary, writable, files, unremoved, installed>>

\* checkWritable creates a file ...
Probe(u) ==
  /\ pc[u] = "probe"
  /\ \/ Finish(u, "failed") /\ UNCHANGED files
     \/ Create(u, "probe") /\ Goto(u, "unprobe") /\ UNCHANGED run
  /\ UNCHANGED <<server, binary, writable, unremoved, installed>>

\* ... and removes it.
Unprobe(u) ==
  /\ pc[u] = "unprobe"
  /\ Remove(u, "probe")
  /\ Goto(u, "create")
  /\ UNCHANGED <<server, binary, writable, run, installed>>

\* downloadTemp: the request is answered and the file created ...
OpenDownload(u) ==
  /\ pc[u] = "create"
  /\ \/ Finish(u, "failed") /\ UNCHANGED files
     \/ /\ tarball[run[u].tag] # None
        /\ Create(u, "download")
        /\ run' = [run EXCEPT ![u].got = tarball[run[u].tag]]
        /\ Goto(u, "download")
  /\ UNCHANGED <<server, binary, writable, unremoved, installed>>

\* ... and the body copied into it, whole, damaged or cut at the limit; an
\* error removes it.
Download(u) ==
  /\ pc[u] = "download"
  /\ \/ Finish(u, "failed") /\ Remove(u, "download")
     \/ /\ \E body \in {run[u].got, Damaged} : run' = [run EXCEPT ![u].got = body]
        /\ Goto(u, "checksum")
        /\ UNCHANGED <<files, unremoved>>
  /\ UNCHANGED <<server, binary, writable, installed>>

\* Mutant of FetchChecksum: what the file holds is not looked at.
FetchAnyChecksum(u) ==
  /\ pc[u] = "checksum"
  /\ \/ Fail(u)
     \/ /\ run' = [run EXCEPT ![u].want = checksum[run[u].tag]]
        /\ Goto(u, "verify")
  /\ UNCHANGED <<server, binary, writable, files, unremoved, installed>>

\* fetchChecksum.
FetchChecksum(u) ==
  /\ pc[u] = "checksum"
  /\ \/ Fail(u)
     \/ /\ checksum[run[u].tag] \notin {None, NotAHash}
        /\ run' = [run EXCEPT ![u].want = checksum[run[u].tag]]
        /\ Goto(u, "verify")
  /\ UNCHANGED <<server, binary, writable, files, unremoved, installed>>

\* Mutant of Verify: the hashes are not compared.
VerifyNothing(u) ==
  /\ pc[u] = "verify"
  /\ Goto(u, "extract")
  /\ UNCHANGED <<server, run, binary, writable, files, unremoved, installed>>

\* Mutant of Verify: no defer removes the tarball of a refused update.
VerifyNoDefer(u) ==
  /\ pc[u] = "verify"
  /\ IF run[u].got = run[u].want
       THEN Goto(u, "extract") /\ UNCHANGED run
       ELSE Finish(u, "failed")
  /\ UNCHANGED <<server, binary, writable, files, unremoved, installed>>

\* The downloaded file must hash to the published checksum.
Verify(u) ==
  /\ pc[u] = "verify"
  /\ \/ Fail(u)
     \/ run[u].got = run[u].want /\ Goto(u, "extract") /\ UNCHANGED run
  /\ UNCHANGED <<server, binary, writable, files, unremoved, installed>>

\* extractBinary: the first entry must be the binary, for which a file is
\* created ...
Extract(u) ==
  /\ pc[u] = "extract"
  /\ \/ Fail(u) /\ UNCHANGED files
     \/ /\ run[u].got.form # "other"
        /\ Create(u, "staged")
        /\ Goto(u, "write")
        /\ UNCHANGED run
  /\ UNCHANGED <<server, binary, writable, unremoved, installed>>

\* What is written of an archive's binary: no more than maxBinaryBytes, and a
\* binary that ends there is no error.
Written(a) == IF a.form = "oversize" THEN [a EXCEPT !.form = "partial"] ELSE a

\* ... written, made executable and closed; an error, or a second entry in the
\* archive, removes it.
WriteStaged(u) ==
  /\ pc[u] = "write"
  /\ \/ Fail(u) /\ Remove(u, "staged")
     \/ /\ run[u].got.form # "more"
        /\ run' = [run EXCEPT ![u].staged = Written(run[u].got)]
        /\ Goto(u, "rename")
        /\ UNCHANGED <<files, unremoved>>
  /\ UNCHANGED <<server, binary, writable, installed>>

\* os.Rename moves it over the binary, or fails and it is removed.
Rename(u) ==
  /\ pc[u] = "rename"
  /\ \/ Fail(u) /\ Remove(u, "staged") /\ UNCHANGED <<binary, installed>>
     \/ /\ writable
        /\ binary' = run[u].staged
        /\ installed' = [installed EXCEPT ![u] = binary'.tag]
        /\ files' = [files EXCEPT ![u] = @ \ {"staged"}]
        /\ run' = [run EXCEPT ![u].outcome = "updated"]
        /\ Goto(u, "clean")
        /\ UNCHANGED unremoved
  /\ UNCHANGED <<server, writable>>

\* Install's defer removes the tarball.
Clean(u) ==
  /\ pc[u] = "clean"
  /\ Remove(u, "download")
  /\ Finish(u, run[u].outcome)
  /\ UNCHANGED <<server, binary, writable, installed>>

\* A process is killed: nothing more of it runs.
Kill(u) ==
  /\ pc[u] \in Steps
  /\ Goto(u, "killed")
  /\ run' = [run EXCEPT ![u] = Blank]
  /\ UNCHANGED <<server, binary, writable, files, unremoved, installed>>
----------------------------------------------------------------------------
Init ==
  /\ released = {} /\ stable = {}
  /\ tarball = [t \in Tags |-> None] /\ checksum = tarball
  /\ uploads = 0 /\ vouched = {}
  /\ binary = Original
  /\ writable = TRUE
  /\ pc = [u \in Updaters |-> "off"]
  /\ run = [u \in Updaters |-> Blank]
  /\ files = [u \in Updaters |-> {}]
  /\ unremoved = {}
  /\ installed = [u \in Updaters |-> None]

Install(u) ==
  \/ Probe(u) \/ Unprobe(u) \/ OpenDownload(u) \/ Download(u)
  \/ FetchChecksum(u) \/ Verify(u) \/ Extract(u) \/ WriteStaged(u)
  \/ Rename(u) \/ Clean(u)

Next ==
  \/ Publish \/ Chmod
  \/ \E t \in released : UploadTarball(t) \/ UploadChecksum(t)
  \/ \E u \in Updaters : Start(u) \/ Resolve(u) \/ Install(u) \/ Kill(u)

Spec == Init /\ [][Next]_vars
----------------------------------------------------------------------------
\* The types of the state.
TypeOK ==
  /\ stable \subseteq released /\ released \subseteq Tags
  /\ tarball \in [Tags -> Archives \cup {None}]
  /\ checksum \in [Tags -> Archives \cup {None, NotAHash}]
  /\ uploads \in 0..MaxUploads /\ vouched \subseteq Archives
  /\ binary \in Contents /\ writable \in BOOLEAN
  /\ pc \in [Updaters -> Steps \cup {"off", "ended", "killed"}]
  /\ files \in [Updaters -> SUBSET Files] /\ unremoved \subseteq Updaters
  /\ installed \in [Updaters -> Tags \cup {None}]
  /\ \A u \in Updaters :
       /\ run[u].tag \in Tags \cup {None} /\ run[u].version \in 0..MaxTag
       /\ {run[u].got, run[u].want} \subseteq Archives \cup {None}
       /\ run[u].staged \in Contents \cup {None}
       /\ run[u].outcome \in {"none", "updated", "current", "failed"}

\* The release published, and vouched for, a binary above maxBinaryBytes.
Outgrown(t) == \E a \in vouched : a.tag = t /\ a.form = "oversize"

\* The binary is never damaged, partial or something else than a binary,
\* whatever is interrupted, damaged or replaced meanwhile and by however many
\* updates ("either the old binary or the new one is there, never a partial
\* file"): it is the one installed at first or the whole binary of a tarball
\* whose checksum its release published, unless that release published one
\* above maxBinaryBytes, which is cut there and installed all the same.
BinaryIsWhole ==
  ~Outgrown(binary.tag) =>
    binary = Original \/ (binary \in vouched /\ binary.form = "binary")

\* An update that ended by itself leaves no file behind unless the directory
\* refused to remove it, and has put a binary in place exactly if it reports
\* success, that of the release it resolved.
EndsClean ==
  \A u \in Updaters : pc[u] = "ended" =>
    /\ files[u] # {} => u \in unremoved
    /\ installed[u] = IF run[u].outcome = "updated" THEN run[u].tag ELSE None
=============================================================================
