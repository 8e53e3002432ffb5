--------------------------- MODULE UserlandProofs ---------------------------
(***************************************************************************)
(* The programs of a session: the installer's consent, the package         *)
(* database, the shell's history and its children, for every set of        *)
(* packages, disks and programs, every size of the ring and every length   *)
(* of a pipeline; and, for every source file, the S compiler: what its     *)
(* lexer takes for a literal, what its translator keeps, and that both end.*)
(***************************************************************************)
EXTENDS Userland, SLang, FiniteSetTheorems, NaturalsInduction, SequenceTheorems,
        WellFoundedInduction, TLAPS

USE DEF Shell, AnyChild, Stale

-----------------------------------------------------------------------------
(* The installer *)

(***************************************************************************)
(* When do_install runs, the disk it will partition is the one the user    *)
(* agreed to: step_confirm is the only way there, and no later step asks   *)
(* for a disk again.  If the answer was left from an earlier line, that    *)
(* line was too long.                                                      *)
(***************************************************************************)
ConsentMatches ==
  /\ ipc = "partition" => consent = cfg.disk \/ toolong
  /\ stdin # <<>> => toolong

\* Only the installer's own steps change what the installer keeps.
LEMMA InstallerAlone ==
  ASSUME [Next]_vars
  PROVE  \/ UNCHANGED instVars \/ AskUser \/ InstallStep \/ InstReset \/ InstStart
<1>1. CASE UNCHANGED vars
  BY <1>1 DEF vars
<1>2. CASE ShellRuns
  BY <1>2 DEF ShellRuns
<1>3. CASE InstallerRuns
  BY <1>3 DEF InstallerRuns
<1>4. CASE UserKey
  BY <1>4 DEF UserKey
<1>5. CASE UserAnswers
  BY <1>5 DEF UserAnswers
<1>6. ASSUME NEW c \in Slots, TerminalEnds(c) \/ PhxKilled(c)
      PROVE  UNCHANGED instVars
  BY <1>6 DEF TerminalEnds, PhxKilled
<1>7. ASSUME NEW c \in Slots, ProgramRuns(c)
      PROVE  UNCHANGED instVars \/ InstReset \/ InstStart
  BY <1>7 DEF ProgramRuns, ChildStarts, WriteByte, ReadByte, GenEnds, PhxRuns, PhxEnds,
              InstallerStarts, InstallerEnds
<1> QED
  BY <1>1, <1>2, <1>3, <1>4, <1>5, <1>6, <1>7, Zenon DEF Next, System

\* What a question reads comes from a fresh line, or some line was too long.
LEMMA ReadFrom ==
  ASSUME ConsentMatches, NEW a, Gets(a)
  PROVE  /\ toolong => toolong'
         /\ stdin' # <<>> => toolong'
         /\ stdin # <<>> => toolong
<1>1. CASE stdin # <<>>
  BY <1>1, Zenon DEF ConsentMatches, Gets
<1>2. CASE stdin = <<>>
  <2>1. CASE UNCHANGED inputVars
    BY <1>2, <2>1, Zenon DEF inputVars
  <2>2. CASE toolong' = (toolong \/ stdin' # <<>>)
    BY <1>2, <2>2, Zenon
  <2> QED BY <1>2, <2>1, <2>2, Zenon DEF Gets
<1> QED BY <1>1, <1>2

\* Each step of the installer keeps ConsentMatches.
LEMMA ConsentKept ==
  ASSUME ConsentMatches, [Next]_vars
  PROVE  ConsentMatches'
<1>1. CASE UNCHANGED instVars
  BY <1>1 DEF ConsentMatches, instVars, inputVars
<1>2. CASE AskUser
  <2>1. ASSUME NEW a, Gets(a), ipc' # "partition"
        PROVE  ConsentMatches'
    BY <2>1, ReadFrom DEF ConsentMatches
  <2>2. CASE step_welcome
    BY <2>1, <2>2 DEF step_welcome, Prompt_yn
  <2>3. CASE step_select_disk
    BY <2>1, <2>3 DEF step_select_disk
  <2>4. CASE step_desktop_choice
    BY <2>1, <2>4 DEF step_desktop_choice, Prompt_yn
  <2>5. CASE step_user_config
    BY <2>1, <2>5 DEF step_user_config
  <2>6. CASE step_confirm
    <3>1. PICK a : /\ Gets(a) /\ ipc' = Prompt_yn(a, "partition", "exit")
                   /\ consent' = IF a = "y" /\ stdin = <<>> THEN cfg.disk ELSE consent
                   /\ cfg' = cfg /\ ipc = "confirm"
      BY <2>6 DEF step_confirm
    <3>2. CASE ipc' # "partition"
      BY <2>1, <3>1, <3>2
    <3>3. CASE ipc' = "partition"
      <4>1. a = "y"
        BY <3>1, <3>3 DEF Prompt_yn, Yes, No
      <4>2. CASE stdin = <<>>
        <5>1. consent' = cfg'.disk
          BY <3>1, <4>1, <4>2
        <5> QED BY <3>1, <5>1, ReadFrom, Zenon DEF ConsentMatches
      <4>3. CASE stdin # <<>>
        <5>1. toolong'
          BY <3>1, <4>3, ReadFrom, Zenon
        <5> QED BY <5>1, Zenon DEF ConsentMatches
      <4> QED BY <4>2, <4>3
    <3> QED BY <3>2, <3>3
  <2> QED BY <1>2, <2>2, <2>3, <2>4, <2>5, <2>6 DEF AskUser
<1>3. CASE InstallStep
  BY <1>3 DEF InstallStep, discover_disks, Partition, Format, Mount, MakeDirs, CopyKernel,
              WriteGrubCfg, CopyBin, WriteEtc, GrubInstall, Umount, DesktopService, Success, Run,
              WriteFiles, Leave, ConsentMatches, inputVars
<1>4. CASE InstReset \/ InstStart
  BY <1>4 DEF InstReset, InstStart, ConsentMatches, inputVars
<1> QED BY <1>1, <1>2, <1>3, <1>4, InstallerAlone

\* A step that partitions a disk does so with the consent for that disk.
LEMMA EraseStep ==
  ASSUME ConsentMatches, [Next]_vars
  PROVE  [\A d \in erased' \ erased : consent = d \/ toolong]_instVars
<1>1. CASE UNCHANGED instVars
  BY <1>1
<1>2. CASE AskUser
  BY <1>2 DEF AskUser, step_welcome, step_select_disk, step_desktop_choice, step_user_config,
              step_confirm
<1>3. CASE InstallStep
  <2>1. CASE Partition
    BY <2>1 DEF Partition, ConsentMatches
  <2>2. CASE ~Partition
    BY <1>3, <2>2 DEF InstallStep, discover_disks, Format, Mount, MakeDirs, CopyKernel,
              WriteGrubCfg, CopyBin, WriteEtc, GrubInstall, Umount, DesktopService, Success, Run,
              WriteFiles
  <2> QED BY <2>1, <2>2
<1>4. CASE InstReset \/ InstStart
  BY <1>4 DEF InstReset, InstStart
<1> QED BY <1>1, <1>2, <1>3, <1>4, InstallerAlone

(***************************************************************************)
(* The installer erases a disk only after step_confirm was answered with   *)
(* yes for that disk, whatever else runs in the session and whatever was   *)
(* typed at the other questions, unless a line was longer than its buffer. *)
(***************************************************************************)
THEOREM ErasedWithConsent == Spec => EraseNeedsConsent
<1>1. Init => ConsentMatches
  BY DEF Init, InstInit, ConsentMatches, inputVars
<1>2. ConsentMatches /\ [Next]_vars => ConsentMatches'
  BY ConsentKept
<1>3. ConsentMatches /\ [Next]_vars =>
        [\A d \in erased' \ erased : consent = d \/ toolong]_instVars
  BY EraseStep
<1> QED BY <1>1, <1>2, <1>3, PTL DEF Spec, EraseNeedsConsent

-----------------------------------------------------------------------------
(* The package manager *)

Paths == UNION {PkgFiles[x] : x \in Packages}

Listing == SUBSET (Paths \cup {Stump})

Databases == UNION {[S -> Listing] : S \in SUBSET Packages}

PhxLabels == {"idle", "install", "copy", "copying", "write", "fill", "remove", "delete",
              "done", "failed"}

Process == [pc : PhxLabels, pkg : Packages \cup {"none"}, todo : Listing, files : Listing,
            now : Paths \cup {Stump, "none"}, db : Databases]

\* A database whose entries list files of their own package, all of them in D
\* unless the package is in R.
WholeIn(d, D, R) ==
  \A x \in DOMAIN d : /\ d[x] \subseteq PkgFiles[x] \cup {Stump}
                      /\ x \notin R => d[x] \ {Stump} \subseteq D

(***************************************************************************)
(* What a command in state r relies on, when D is on the disk and the      *)
(* removes of R have started.  A copy of the database that is yet to be    *)
(* written back is as whole as the database was when it was read; what an  *)
(* install has copied stays on the disk; and only the files of a package   *)
(* whose remove has started are ever deleted.                              *)
(***************************************************************************)
CopiedIn(r, D, R) ==
  r.pc \in {"install", "copy", "copying"} =>
     /\ r.files \subseteq PkgFiles[r.pkg] /\ (r.pkg \notin R => r.files \subseteq D)
     /\ r.pc # "install" => r.todo \subseteq PkgFiles[r.pkg]
     /\ r.pc = "copying" => r.now \in PkgFiles[r.pkg] /\ (r.pkg \notin R => r.now \in D)

Fits(r, D, R) ==
  /\ r.pc \notin {"idle", "done", "failed"} => r.pkg \in Packages
  /\ r.pc \in {"write", "fill", "delete"} => WholeIn(r.db, D, R)
  /\ CopiedIn(r, D, R)
  /\ r.pc = "delete" => r.pkg \in R /\ r.todo \subseteq PkgFiles[r.pkg] \cup {Stump}

\* A file of a package whose copy was cut short.
InCut(f, C) == \E y \in C : f \in PkgFiles[y]

\* A torn file is being copied by the process that truncated it, or its copy
\* was cut short.
TornKnown ==
  \A p \in Procs : \A f : <<f, p>> \in torn =>
     (px[p].pc = "copying" /\ px[p].now = f) \/ InCut(f, cut)

PhxSound ==
  /\ db \in Databases /\ px \in [Procs -> Process] /\ cut \in SUBSET Packages
  /\ WholeIn(db, disk, removing)
  /\ \A p \in Procs : Fits(px[p], disk, removing)
  /\ TornKnown

\* Once two processes have written over each other nothing is claimed.
PhxInv == mixed \/ PhxSound

\* A truncated database lists nothing.
LEMMA EmptyDatabase == <<>> \in Databases /\ \A D, R : WholeIn(<<>>, D, R)
<1>1. <<>> \in [{} -> Listing] /\ DOMAIN <<>> = {}
  OBVIOUS
<1> QED BY <1>1 DEF Databases, WholeIn

\* Each entry of a database is a listing of a package.
LEMMA DatabaseEntry ==
  ASSUME NEW d \in Databases
  PROVE  /\ DOMAIN d \subseteq Packages
         /\ d = [x \in DOMAIN d |-> d[x]]
         /\ \A x \in DOMAIN d : d[x] \in Listing
  BY DEF Databases

\* Any function from packages to listings is a database.
LEMMA DatabaseMade ==
  ASSUME NEW S \in SUBSET Packages, NEW d \in [S -> Listing]
  PROVE  d \in Databases
  BY DEF Databases

\* The files of an archive.
LEMMA ArchiveFiles ==
  \A x \in Packages : PkgFiles[x] \subseteq Paths /\ PkgFiles[x] \in Listing
  BY DEF Paths, Listing

\* A part of a whole database is one.
LEMMA RestrictedWhole ==
  ASSUME NEW d \in Databases, NEW D, NEW R, WholeIn(d, D, R), NEW S
  PROVE  Restricted(d, S) \in Databases /\ WholeIn(Restricted(d, S), D, R)
<1> DEFINE T == (DOMAIN d) \cap S
           e == Restricted(d, S)
<1>1. e = [x \in T |-> d[x]]
  BY DEF Restricted
<1>2. e \in [T -> Listing] /\ T \in SUBSET Packages
  BY <1>1, DatabaseEntry
<1>3. e \in Databases
  <2> HIDE DEF e, T
  <2> QED BY <1>2, DatabaseMade
<1>4. DOMAIN e = T /\ \A x \in T : e[x] = d[x] /\ x \in DOMAIN d
  BY <1>1
<1> HIDE DEF e, T
<1>5. WholeIn(e, D, R)
  BY <1>4 DEF WholeIn
<1> QED BY <1>3, <1>5 DEF e

\* One more entry, of files that are there, keeps it whole.
LEMMA InsertedWhole ==
  ASSUME NEW d \in Databases, NEW D, NEW R, WholeIn(d, D, R), NEW x \in Packages,
         NEW F \in Listing, F \subseteq PkgFiles[x] \cup {Stump},
         x \notin R => F \ {Stump} \subseteq D
  PROVE  /\ Inserted(d, Entry(x, F)) \in Databases
         /\ WholeIn(Inserted(d, Entry(x, F)), D, R)
<1> DEFINE T == DOMAIN d \cup {x}
           e == Inserted(d, Entry(x, F))
<1>1. e = [y \in T |-> IF y = x THEN F ELSE d[y]]
  BY DEF Inserted, Entry
<1>2. e \in [T -> Listing] /\ T \in SUBSET Packages
  BY <1>1, DatabaseEntry
<1>3. e \in Databases
  <2> HIDE DEF e, T
  <2> QED BY <1>2, DatabaseMade
<1>4. DOMAIN e = T /\ e[x] = F /\ \A y \in T : y # x => e[y] = d[y] /\ y \in DOMAIN d
  BY <1>1
<1> HIDE DEF e, T
<1>5. WholeIn(e, D, R)
  <2> SUFFICES ASSUME NEW y \in T
               PROVE  /\ e[y] \subseteq PkgFiles[y] \cup {Stump}
                      /\ y \notin R => e[y] \ {Stump} \subseteq D
    BY <1>4 DEF WholeIn
  <2>1. CASE y = x
    BY <1>4, <2>1
  <2>2. CASE y # x
    BY <1>4, <2>2 DEF WholeIn
  <2> QED BY <2>1, <2>2
<1> QED BY <1>3, <1>5 DEF e

\* A text cut short lists no more than the text.
LEMMA CutWhole ==
  ASSUME NEW d \in Databases, NEW D, NEW R, WholeIn(d, D, R), NEW t \in Cuts(d)
  PROVE  t \in Databases /\ WholeIn(t, D, R)
<1>1. CASE \E S \in SUBSET DOMAIN d : t = Restricted(d, S)
  BY <1>1, RestrictedWhole
<1>2. ASSUME NEW S \in SUBSET DOMAIN d, NEW x \in Packages,
             NEW F \in SUBSET (IF x \in DOMAIN d THEN d[x] \cup {Stump} ELSE {}),
             t = Inserted(Restricted(d, S), Entry(x, F))
      PROVE  t \in Databases /\ WholeIn(t, D, R)
  <2> DEFINE e == Restricted(d, S)
  <2>1. e \in Databases /\ WholeIn(e, D, R)
    BY RestrictedWhole
  <2>2. F \in Listing /\ F \subseteq PkgFiles[x] \cup {Stump} /\ (x \notin R => F \ {Stump} \subseteq D)
    <3>1. CASE x \in DOMAIN d
      BY <3>1, DatabaseEntry DEF WholeIn, Listing
    <3>2. CASE x \notin DOMAIN d
      BY <3>2 DEF Listing
    <3> QED BY <3>1, <3>2
  <2> HIDE DEF e
  <2>3. t = Inserted(e, Entry(x, F))
    BY <1>2 DEF e
  <2> QED BY <2>1, <2>2, <2>3, InsertedWhole
<1>3. ASSUME NEW S \in SUBSET DOMAIN d, NEW x \in Packages, t \in CutIn(d, S, x)
      PROVE  t \in Databases /\ WholeIn(t, D, R)
  BY <1>2, <1>3 DEF CutIn
<1>4. \/ \E S \in SUBSET DOMAIN d : t = Restricted(d, S)
      \/ \E S \in SUBSET DOMAIN d, x \in Packages : t \in CutIn(d, S, x)
  BY DEF Cuts
<1> QED BY <1>1, <1>3, <1>4

(***************************************************************************)
(* What one process may do to the others: it takes files from the disk     *)
(* only when they belong to a package whose remove has started.            *)
(***************************************************************************)
Kept(D, R, D2, R2) ==
  /\ R \subseteq R2
  /\ \A x \in Packages : \A f \in PkgFiles[x] : x \notin R2 /\ f \in D => f \in D2

\* A database that nothing was taken from is as whole as before.
LEMMA WholeStays ==
  ASSUME NEW d \in Databases, NEW D, NEW R, NEW D2, NEW R2, Kept(D, R, D2, R2), WholeIn(d, D, R)
  PROVE  WholeIn(d, D2, R2)
  BY DatabaseEntry DEF WholeIn, Kept

\* And so is what a process relies on.
LEMMA FitsStays ==
  ASSUME NEW r \in Process, NEW D, NEW R, NEW D2, NEW R2, Kept(D, R, D2, R2), Fits(r, D, R)
  PROVE  Fits(r, D2, R2)
<1>1. r.db \in Databases
  BY DEF Process
<1>2. r.pc \in {"write", "fill", "delete"} => WholeIn(r.db, D2, R2)
  BY <1>1, WholeStays DEF Fits
<1>3. CopiedIn(r, D2, R2)
  BY DEF Fits, CopiedIn, Kept
<1> QED BY <1>2, <1>3 DEF Fits, Kept

(***************************************************************************)
(* A step of one process that takes nothing, leaves no file torn that is   *)
(* not accounted for, and leaves that process in a state r that relies on  *)
(* nothing false keeps the invariant.                                      *)
(***************************************************************************)
LEMMA StepKeeps ==
  ASSUME PhxSound, NEW p \in Procs, NEW r \in Process, px' = [px EXCEPT ![p] = r],
         Kept(disk, removing, disk', removing'),
         db' \in Databases, WholeIn(db', disk', removing'), Fits(r, disk', removing'),
         cut \subseteq cut', cut' \in SUBSET Packages,
         \A q \in Procs \ {p} : \A f : <<f, q>> \in torn' => <<f, q>> \in torn,
         \A f : <<f, p>> \in torn' => (r.pc = "copying" /\ r.now = f) \/ InCut(f, cut')
  PROVE  PhxSound'
<1>0. px \in [Procs -> Process]
  BY DEF PhxSound
<1>1. px' \in [Procs -> Process] /\ px'[p] = r /\ \A q \in Procs : q # p => px'[q] = px[q]
  BY <1>0
<1>2. ASSUME NEW q \in Procs PROVE Fits(px'[q], disk', removing')
  <2>1. CASE q = p
    BY <1>1, <2>1
  <2>2. CASE q # p
    <3>1. px'[q] = px[q] /\ px[q] \in Process /\ Fits(px[q], disk, removing)
      BY <1>0, <1>1, <2>2 DEF PhxSound
    <3> QED BY <3>1, FitsStays
  <2> QED BY <2>1, <2>2
<1>3. ASSUME NEW q \in Procs, NEW f, <<f, q>> \in torn'
      PROVE  (px'[q].pc = "copying" /\ px'[q].now = f) \/ InCut(f, cut')
  <2>1. CASE q = p
    BY <1>1, <1>3, <2>1
  <2>2. CASE q # p
    <3>1. <<f, q>> \in torn /\ px'[q] = px[q]
      BY <1>1, <1>3, <2>2
    <3>2. (px[q].pc = "copying" /\ px[q].now = f) \/ InCut(f, cut)
      BY <3>1 DEF PhxSound, TornKnown
    <3>3. InCut(f, cut) => InCut(f, cut')
      BY DEF InCut
    <3> QED BY <3>1, <3>2, <3>3
  <2> QED BY <2>1, <2>2
<1> QED BY <1>1, <1>2, <1>3 DEF PhxSound, TornKnown

\* Nothing taken.
LEMMA AllKept == \A D, R : Kept(D, R, D, R)
  BY DEF Kept

\* A process that was not copying has left torn only what was cut short.
LEMMA QuietStep ==
  ASSUME PhxSound, NEW p \in Procs, NEW r \in Process, px' = [px EXCEPT ![p] = r],
         px[p].pc # "copying", UNCHANGED cut, torn' \subseteq torn,
         Kept(disk, removing, disk', removing'),
         db' \in Databases, WholeIn(db', disk', removing'), Fits(r, disk', removing')
  PROVE  PhxSound'
<1>1. \A f : <<f, p>> \in torn' => InCut(f, cut')
  BY DEF PhxSound, TornKnown
<1>2. cut \subseteq cut' /\ cut' \in SUBSET Packages
  BY DEF PhxSound
<1>3. \A q \in Procs \ {p} : \A f : <<f, q>> \in torn' => <<f, q>> \in torn
  OBVIOUS
<1> QED BY <1>1, <1>2, <1>3, StepKeeps

\* The state of a process that has ended, or does not run phx.
LEMMA EndedState ==
  ASSUME NEW how \in {"idle", "done", "failed"}
  PROVE  /\ [Idle EXCEPT !.pc = how] \in Process
         /\ [Idle EXCEPT !.pc = how].pc = how
         /\ \A D, R : Fits([Idle EXCEPT !.pc = how], D, R)
<1> DEFINE r == [Idle EXCEPT !.pc = how]
<1>1. Idle \in Process
  BY EmptyDatabase DEF Idle, Process, PhxLabels, Listing
<1>2. r \in Process
  BY <1>1 DEF Process, PhxLabels
<1>3. r.pc = how
  BY <1>1 DEF Process
<1> HIDE DEF r
<1>4. \A D, R : Fits(r, D, R)
  BY <1>3 DEF Fits, CopiedIn
<1> QED BY <1>2, <1>3, <1>4 DEF r

\* A command ends, or is stopped in the middle of a copy.
LEMMA EndKeeps ==
  ASSUME PhxSound, NEW p \in Procs, NEW how \in {"idle", "done", "failed"},
         px' = [px EXCEPT ![p] = [Idle EXCEPT !.pc = how]], CutShort(p),
         UNCHANGED <<disk, removing, torn>>, db' \in Databases, WholeIn(db', disk, removing)
  PROVE  PhxSound'
<1> DEFINE r == [Idle EXCEPT !.pc = how]
<1>0. r \in Process /\ r.pc = how /\ Fits(r, disk', removing') /\ px' = [px EXCEPT ![p] = r]
  BY EndedState
<1> HIDE DEF r
<1>1. Kept(disk, removing, disk', removing') /\ WholeIn(db', disk', removing')
  BY AllKept
<1>2. CASE px[p].pc # "copying"
  <2>1. cut' = cut
    BY <1>2 DEF CutShort, At
  <2> QED BY <1>0, <1>1, <1>2, <2>1, QuietStep
<1>3. CASE px[p].pc = "copying"
  <2>1. cut' = cut \cup {px[p].pkg}
    BY <1>3 DEF CutShort, At
  <2>2. Fits(px[p], disk, removing) /\ cut \in SUBSET Packages /\ TornKnown
    BY DEF PhxSound
  <2>3. px[p].pkg \in Packages /\ px[p].now \in PkgFiles[px[p].pkg]
    BY <1>3, <2>2 DEF Fits, CopiedIn
  <2>4. ASSUME NEW f, <<f, p>> \in torn' PROVE InCut(f, cut')
    <3>1. px[p].now = f \/ InCut(f, cut)
      BY <2>2, <2>4 DEF TornKnown
    <3> QED BY <2>1, <2>3, <3>1 DEF InCut
  <2>5. cut \subseteq cut' /\ cut' \in SUBSET Packages
    BY <2>1, <2>2, <2>3
  <2>6. \A q \in Procs \ {p} : \A f : <<f, q>> \in torn' => <<f, q>> \in torn
    OBVIOUS
  <2> QED BY <1>0, <1>1, <2>4, <2>5, <2>6, StepKeeps
<1> QED BY <1>2, <1>3

\* The start of a command, in a process that ran none.
LEMMA StartKeeps ==
  ASSUME PhxSound, NEW p \in Procs, NEW o \in {"install", "remove"}, NEW pkg \in Packages,
         px[p].pc # "copying", px' = PhxStart(p, o, pkg), UNCHANGED pkgVars
  PROVE  PhxSound'
<1> DEFINE r == [Idle EXCEPT !.pc = o, !.pkg = pkg]
<1>1. Idle \in Process /\ Idle.files = {}
  BY EmptyDatabase DEF Idle, Process, PhxLabels, Listing
<1>2. r \in Process
  BY <1>1 DEF Process, PhxLabels
<1>3. r.pc = o /\ r.pkg = pkg /\ r.files = {}
  BY <1>1 DEF Process
<1>4. px' = [px EXCEPT ![p] = r]
  BY DEF PhxStart
<1> HIDE DEF r
<1>5. Fits(r, disk', removing')
  BY <1>3 DEF Fits, CopiedIn
<1>6. /\ Kept(disk, removing, disk', removing') /\ db' \in Databases
      /\ WholeIn(db', disk', removing') /\ UNCHANGED cut /\ torn' \subseteq torn
  BY AllKept DEF pkgVars, PhxSound
<1> QED BY <1>2, <1>4, <1>5, <1>6, QuietStep

\* Each step of an install or a remove keeps the invariant.
LEMMA PhxStepKeeps ==
  ASSUME PhxInv, NEW p \in Procs, PhxStep(p)
  PROVE  PhxInv'
<1> SUFFICES ASSUME PhxSound, ~mixed' PROVE PhxSound'
  <2>1. mixed => mixed'
    BY DEF PhxStep, Extract, ExtractFails, CopyFile, CopyEnds, CopyFails, Register, db_truncate,
           db_fill, Unregister, DeleteFile, DeleteDone, pkgVars
  <2> QED BY <2>1 DEF PhxInv
<1>0. /\ px \in [Procs -> Process] /\ px[p] \in Process /\ db \in Databases
      /\ WholeIn(db, disk, removing) /\ Fits(px[p], disk, removing)
      /\ cut \in SUBSET Packages /\ TornKnown
  BY DEF PhxSound
<1>00. ASSUME UNCHANGED pkgVars
       PROVE  /\ Kept(disk, removing, disk', removing') /\ db' \in Databases
              /\ WholeIn(db', disk', removing') /\ UNCHANGED cut /\ torn' \subseteq torn
              /\ disk' = disk /\ removing' = removing
  BY <1>0, <1>00, AllKept DEF pkgVars
<1>1. CASE Extract(p)
  <2> DEFINE r == [px[p] EXCEPT !.pc = "copy", !.todo = PkgFiles[px[p].pkg]]
  <2>1. px' = [px EXCEPT ![p] = r] /\ UNCHANGED pkgVars /\ px[p].pc = "install"
    BY <1>0, <1>1 DEF Extract, At
  <2>2. px[p].pkg \in Packages
    BY <1>0, <2>1 DEF Fits
  <2>3. /\ r \in Process /\ r.pc = "copy" /\ r.pkg = px[p].pkg /\ r.files = px[p].files
        /\ r.todo = PkgFiles[px[p].pkg]
    BY <1>0, <2>1, <2>2, ArchiveFiles DEF Process, PhxLabels
  <2> HIDE DEF r
  <2>4. Fits(r, disk, removing)
    BY <1>0, <2>1, <2>2, <2>3 DEF Fits, CopiedIn
  <2> QED BY <1>00, <2>1, <2>3, <2>4, QuietStep
<1>2. CASE ExtractFails(p) \/ CopyFails(p)
  <2>1. /\ UNCHANGED <<db, disk, removing, torn>> /\ CutShort(p)
        /\ px' = [px EXCEPT ![p] = [Idle EXCEPT !.pc = "failed"]]
    BY <1>2 DEF ExtractFails, CopyFails, pkgVars, CutShort, At, End
  <2> QED BY <1>0, <2>1, EndKeeps
<1>3. CASE CopyFile(p)
  <2>1. PICK f \in px[p].todo :
          /\ disk' = disk \cup {f} /\ torn' = TornElse(f) \cup {<<f, p>>}
          /\ px' = [px EXCEPT ![p].pc = "copying", ![p].now = f]
    BY <1>3 DEF CopyFile
  <2> DEFINE r == [px[p] EXCEPT !.pc = "copying", !.now = f]
  <2>2. px' = [px EXCEPT ![p] = r] /\ UNCHANGED <<db, removing, cut>> /\ px[p].pc = "copy"
    BY <1>0, <1>3, <2>1 DEF CopyFile, At
  <2>3. px[p].pkg \in Packages /\ f \in PkgFiles[px[p].pkg]
    BY <1>0, <2>2 DEF Fits, CopiedIn
  <2>4. /\ r \in Process /\ r.pc = "copying" /\ r.pkg = px[p].pkg /\ r.files = px[p].files
        /\ r.todo = px[p].todo /\ r.now = f
    BY <1>0, <2>3, ArchiveFiles DEF Process, PhxLabels
  <2> HIDE DEF r
  <2>5. Kept(disk, removing, disk', removing')
    BY <2>1, <2>2 DEF Kept
  <2>6. WholeIn(db', disk', removing')
    BY <1>0, <2>2, <2>5, WholeStays
  <2>7. Fits(r, disk', removing')
    BY <1>0, <2>1, <2>2, <2>3, <2>4 DEF Fits, CopiedIn
  <2>8. ASSUME NEW q \in Procs, NEW g, <<g, q>> \in torn'
        PROVE  <<g, q>> \in torn \/ (q = p /\ g = f)
    BY <2>1, <2>8 DEF TornElse
  <2>9. \A g : <<g, p>> \in torn' => (r.pc = "copying" /\ r.now = g) \/ InCut(g, cut')
    BY <1>0, <2>2, <2>4, <2>8 DEF TornKnown
  <2>10. cut \subseteq cut' /\ cut' \in SUBSET Packages
    BY <1>0, <2>2
  <2>11. \A q \in Procs \ {p} : \A g : <<g, q>> \in torn' => <<g, q>> \in torn
    BY <2>8
  <2> QED BY <1>0, <2>2, <2>4, <2>5, <2>6, <2>7, <2>9, <2>10, <2>11, StepKeeps
<1>4. CASE CopyEnds(p)
  <2> DEFINE f == px[p].now
             r == [px[p] EXCEPT !.pc = "copy", !.now = "none", !.todo = px[p].todo \ {f},
                                !.files = px[p].files \cup {f}]
  <2>1. px' = [px EXCEPT ![p] = r]
    BY <1>0, <1>4 DEF CopyEnds
  <2>2. /\ UNCHANGED <<db, disk, removing, cut>> /\ px[p].pc = "copying"
        /\ torn' \in {TornElse(f)} \cup (IF <<f, p>> \in torn THEN {} ELSE {torn})
    BY <1>4 DEF CopyEnds, At
  <2>3. /\ px[p].pkg \in Packages /\ f \in PkgFiles[px[p].pkg] /\ f \in Paths
        /\ px[p].todo \subseteq PkgFiles[px[p].pkg] /\ px[p].files \subseteq PkgFiles[px[p].pkg]
        /\ px[p].pkg \notin removing => f \in disk /\ px[p].files \subseteq disk
    BY <1>0, <2>2, ArchiveFiles DEF Fits, CopiedIn
  <2>4. /\ r \in Process /\ r.pc = "copy" /\ r.pkg = px[p].pkg
        /\ r.files = px[p].files \cup {f} /\ r.todo = px[p].todo \ {f}
    BY <1>0, <2>3 DEF Process, PhxLabels, Listing
  <2> HIDE DEF r
  <2>5. Fits(r, disk', removing')
    BY <2>2, <2>3, <2>4 DEF Fits, CopiedIn
  <2>6. ASSUME NEW q \in Procs, NEW g, <<g, q>> \in torn'
        PROVE  <<g, q>> \in torn /\ ~(q = p /\ g = f)
    <3>1. CASE torn' = TornElse(f)
      BY <2>6, <3>1 DEF TornElse
    <3>2. CASE torn' = torn /\ <<f, p>> \notin torn
      BY <2>6, <3>2
    <3> QED BY <2>2, <3>1, <3>2
  <2>7. \A g : <<g, p>> \in torn' => InCut(g, cut')
    BY <1>0, <2>2, <2>6 DEF TornKnown
  <2>8. Kept(disk, removing, disk', removing') /\ WholeIn(db', disk', removing')
        /\ db' \in Databases /\ cut \subseteq cut' /\ cut' \in SUBSET Packages
    BY <1>0, <2>2, AllKept
  <2>9. \A q \in Procs \ {p} : \A g : <<g, q>> \in torn' => <<g, q>> \in torn
    BY <2>6
  <2> QED BY <2>1, <2>4, <2>5, <2>7, <2>8, <2>9, StepKeeps
<1>5. CASE Register(p)
  <2> DEFINE d == Inserted(db, Entry(px[p].pkg, px[p].files))
             r == [px[p] EXCEPT !.pc = "write", !.files = {}, !.db = d]
  <2>1. px' = [px EXCEPT ![p] = r] /\ UNCHANGED pkgVars /\ px[p].pc = "copy"
    BY <1>0, <1>5 DEF Register, At, db_read
  <2>2. /\ px[p].pkg \in Packages /\ px[p].files \in Listing
        /\ px[p].files \subseteq PkgFiles[px[p].pkg]
        /\ px[p].pkg \notin removing => px[p].files \subseteq disk
    BY <1>0, <2>1 DEF Fits, CopiedIn, Process
  <2>3. d \in Databases /\ WholeIn(d, disk, removing)
    <3> DEFINE P == px[p].pkg
               F == px[p].files
    <3>1. P \in Packages /\ F \in Listing /\ F \subseteq PkgFiles[P] \cup {Stump}
          /\ (P \notin removing => F \ {Stump} \subseteq disk)
      BY <2>2
    <3>2. d = Inserted(db, Entry(P, F))
      OBVIOUS
    <3> HIDE DEF P, F, d
    <3> QED BY <1>0, <3>1, <3>2, InsertedWhole
  <2> HIDE DEF d
  <2>4. r \in Process /\ r.pc = "write" /\ r.pkg = px[p].pkg /\ r.db = d
    BY <1>0, <2>3 DEF Process, PhxLabels, Listing
  <2> HIDE DEF r
  <2>5. Fits(r, disk, removing)
    BY <2>2, <2>3, <2>4 DEF Fits, CopiedIn
  <2> QED BY <1>00, <2>1, <2>4, <2>5, QuietStep
<1>6. CASE db_truncate(p)
  <2>1. CASE db' = <<>> /\ Goto(p, "fill")
    <3> DEFINE r == [px[p] EXCEPT !.pc = "fill"]
    <3>1. /\ px' = [px EXCEPT ![p] = r] /\ UNCHANGED <<disk, torn, removing, cut>>
          /\ px[p].pc = "write"
      BY <1>0, <1>6, <2>1 DEF db_truncate, At, Goto
    <3>2. r \in Process /\ r.pc = "fill" /\ r.pkg = px[p].pkg /\ r.db = px[p].db
      BY <1>0 DEF Process, PhxLabels
    <3> HIDE DEF r
    <3>3. /\ Kept(disk, removing, disk', removing') /\ db' \in Databases
          /\ WholeIn(db', disk', removing') /\ torn' \subseteq torn
      BY <2>1, <3>1, EmptyDatabase, AllKept
    <3>4. Fits(r, disk', removing')
      BY <1>0, <3>1, <3>2 DEF Fits, CopiedIn
    <3> QED BY <3>1, <3>2, <3>3, <3>4, QuietStep
  <2>2. CASE End(p, "failed") /\ UNCHANGED db
    <3>1. /\ UNCHANGED <<db, disk, removing, torn>> /\ CutShort(p)
          /\ px' = [px EXCEPT ![p] = [Idle EXCEPT !.pc = "failed"]]
      BY <1>6, <2>2 DEF db_truncate, CutShort, At, End
    <3> QED BY <1>0, <3>1, EndKeeps
  <2> QED BY <1>6, <2>1, <2>2 DEF db_truncate
<1>7. CASE db_fill(p)
  <2>1. /\ px[p].pc = "fill" /\ UNCHANGED <<disk, torn, removing, cut>> /\ db = <<>>
    BY <1>7 DEF db_fill, At
  <2>2. px[p].db \in Databases /\ WholeIn(px[p].db, disk, removing) /\ CutShort(p)
    BY <1>0, <2>1 DEF Fits, Process, CutShort, At
  <2>3. ASSUME NEW t PROVE Over(t, db) = {t}
    <3>1. DOMAIN db = {}
      BY <2>1
    <3> QED BY <3>1 DEF Over
  <2>4. CASE db' \in Over(px[p].db, db) /\ End(p, "done")
    <3>1. db' = px[p].db /\ px' = [px EXCEPT ![p] = [Idle EXCEPT !.pc = "done"]]
      BY <2>3, <2>4 DEF End
    <3> QED BY <2>1, <2>2, <3>1, EndKeeps
  <2>5. CASE db' \in UNION {Over(text, db) : text \in Cuts(px[p].db)} /\ End(p, "failed")
    <3>1. db' \in Cuts(px[p].db) /\ px' = [px EXCEPT ![p] = [Idle EXCEPT !.pc = "failed"]]
      BY <2>3, <2>5 DEF End
    <3>2. db' \in Databases /\ WholeIn(db', disk, removing)
      BY <2>2, <3>1, CutWhole
    <3> QED BY <2>1, <2>2, <3>1, <3>2, EndKeeps
  <2> QED BY <1>7, <2>4, <2>5 DEF db_fill
<1>8. CASE Unregister(p)
  <2>1. CASE px[p].pkg \notin DOMAIN db
    <3>1. /\ UNCHANGED <<db, disk, removing, torn>> /\ CutShort(p)
          /\ px' = [px EXCEPT ![p] = [Idle EXCEPT !.pc = "failed"]]
      BY <1>8, <2>1 DEF Unregister, End, db_read, CutShort, At
    <3> QED BY <1>0, <3>1, EndKeeps
  <2>2. CASE px[p].pkg \in DOMAIN db
    <3> DEFINE d == Restricted(db, Packages \ {px[p].pkg})
               r == [px[p] EXCEPT !.pc = "delete", !.todo = db[px[p].pkg], !.db = d]
    <3>1. /\ px' = [px EXCEPT ![p] = r] /\ UNCHANGED <<db, disk, torn, cut>>
          /\ px[p].pc = "remove" /\ removing' = removing \cup {px[p].pkg}
      BY <1>0, <1>8, <2>2 DEF Unregister, At, db_read
    <3>2. Kept(disk, removing, disk', removing')
      BY <3>1 DEF Kept
    <3>3. d \in Databases /\ WholeIn(d, disk, removing)
      BY <1>0, RestrictedWhole
    <3> HIDE DEF d
    <3>4. /\ WholeIn(d, disk', removing') /\ WholeIn(db', disk', removing')
          /\ db' \in Databases /\ torn' \subseteq torn
      BY <1>0, <3>1, <3>2, <3>3, WholeStays
    <3>5. /\ db[px[p].pkg] \in Listing /\ db[px[p].pkg] \subseteq PkgFiles[px[p].pkg] \cup {Stump}
          /\ px[p].pkg \in Packages
      BY <1>0, <2>2, DatabaseEntry DEF WholeIn
    <3>6. /\ r \in Process /\ r.pc = "delete" /\ r.pkg = px[p].pkg /\ r.db = d
          /\ r.todo = db[px[p].pkg]
      BY <1>0, <3>3, <3>5 DEF Process, PhxLabels
    <3> HIDE DEF r
    <3>7. Fits(r, disk', removing')
      BY <3>1, <3>4, <3>5, <3>6 DEF Fits, CopiedIn
    <3> QED BY <3>1, <3>2, <3>4, <3>6, <3>7, QuietStep
  <2> QED BY <2>1, <2>2
<1>9. CASE DeleteFile(p)
  <2>1. PICK f \in px[p].todo :
          /\ \/ disk' = disk \ {f} /\ torn' = TornElse(f)
             \/ UNCHANGED <<disk, torn>>
          /\ px' = [px EXCEPT ![p].todo = @ \ {f}]
    BY <1>9 DEF DeleteFile
  <2> DEFINE r == [px[p] EXCEPT !.todo = px[p].todo \ {f}]
  <2>2. px' = [px EXCEPT ![p] = r] /\ UNCHANGED <<db, removing, cut>> /\ px[p].pc = "delete"
    BY <1>0, <1>9, <2>1 DEF DeleteFile, At
  <2>3. /\ r \in Process /\ r.pc = "delete" /\ r.pkg = px[p].pkg /\ r.db = px[p].db
        /\ r.todo = px[p].todo \ {f}
    BY <1>0, <2>2 DEF Process, PhxLabels, Listing
  <2> HIDE DEF r
  <2>4. /\ px[p].pkg \in removing /\ px[p].pkg \in Packages /\ WholeIn(px[p].db, disk, removing)
        /\ px[p].todo \subseteq PkgFiles[px[p].pkg] \cup {Stump} /\ px[p].db \in Databases
    BY <1>0, <2>2 DEF Fits, Process
  <2>5. Kept(disk, removing, disk', removing')
    <3> SUFFICES ASSUME NEW x \in Packages, NEW g \in PkgFiles[x], x \notin removing, g \in disk
                 PROVE  g \in disk'
      BY <2>2 DEF Kept
    <3>1. x # px[p].pkg
      BY <2>4
    <3>2. g # f
      BY <2>4, <3>1, PhxAssumption
    <3> QED BY <2>1, <3>2
  <2>6. torn' \subseteq torn
    BY <2>1 DEF TornElse
  <2>7. /\ WholeIn(db', disk', removing') /\ WholeIn(px[p].db, disk', removing')
        /\ db' \in Databases
    BY <1>0, <2>2, <2>4, <2>5, WholeStays
  <2>8. Fits(r, disk', removing')
    BY <2>2, <2>3, <2>4, <2>7 DEF Fits, CopiedIn
  <2> QED BY <2>2, <2>3, <2>5, <2>6, <2>7, <2>8, QuietStep
<1>10. CASE DeleteDone(p)
  <2> DEFINE r == [px[p] EXCEPT !.pc = "write"]
  <2>1. px' = [px EXCEPT ![p] = r] /\ UNCHANGED pkgVars /\ px[p].pc = "delete"
    BY <1>0, <1>10 DEF DeleteDone, At, Goto
  <2>2. r \in Process /\ r.pc = "write" /\ r.pkg = px[p].pkg /\ r.db = px[p].db
    BY <1>0 DEF Process, PhxLabels
  <2> HIDE DEF r
  <2>3. Fits(r, disk, removing)
    BY <1>0, <2>1, <2>2 DEF Fits, CopiedIn
  <2> QED BY <1>00, <2>1, <2>2, <2>3, QuietStep
<1> QED BY <1>1, <1>2, <1>3, <1>4, <1>5, <1>6, <1>7, <1>8, <1>9, <1>10 DEF PhxStep

-----------------------------------------------------------------------------
(* The history of the line editor *)

\* The smaller of two numbers.
LEMMA MinOfTwo ==
  ASSUME NEW a \in Int, NEW b \in Int
  PROVE  Min({a, b}) = IF a <= b THEN a ELSE b
<1> DEFINE m == IF a <= b THEN a ELSE b
<1>1. m \in {a, b} /\ \A y \in {a, b} : m <= y
  OBVIOUS
<1>2. \A x \in {a, b} : (\A y \in {a, b} : x <= y) => x = m
  OBVIOUS
<1> QED BY <1>1, <1>2 DEF Min

\* A sequence of whatever elements, with one more.
LEMMA AppendAny ==
  ASSUME NEW s, s \in Seq(Range(s)), NEW e
  PROVE  /\ Len(s) \in Nat
         /\ Append(s, e) \in Seq(Range(Append(s, e)))
         /\ Len(Append(s, e)) = Len(s) + 1
         /\ \A n \in 1 .. Len(s) : Append(s, e)[n] = s[n]
         /\ Append(s, e)[Len(s) + 1] = e
<1> DEFINE T == Range(s) \cup {e}
           t == Append(s, e)
<1>1. s \in Seq(T) /\ e \in T
  <2>1. Range(s) \subseteq T
    OBVIOUS
  <2>2. DOMAIN s = 1 .. Len(s) /\ Len(s) \in Nat /\ s \in [1 .. Len(s) -> Range(s)]
    BY LenProperties
  <2>3. s \in [1 .. Len(s) -> T]
    BY <2>1, <2>2
  <2> QED BY <2>2, <2>3, SeqDef
<1>2. /\ t \in Seq(T) /\ Len(t) = Len(s) + 1 /\ Len(s) \in Nat
      /\ \A n \in 1 .. Len(s) : t[n] = s[n]
      /\ t[Len(s) + 1] = e
  BY <1>1, AppendProperties, LenProperties
<1>3. t \in [1 .. Len(t) -> T] /\ DOMAIN t = 1 .. Len(t) /\ Len(t) \in Nat
  BY <1>2, LenProperties
<1> HIDE DEF t, T
<1>4. t \in [1 .. Len(t) -> Range(t)]
  BY <1>3 DEF Range
<1>5. t \in Seq(Range(t))
  BY <1>3, <1>4, SeqDef
<1> QED BY <1>2, <1>5 DEF t

\* Where hist_get finds the line n before the newest.
LEMMA BackInRing ==
  ASSUME NEW M \in Nat \ {0}, NEW i \in 0 .. (M - 1), NEW n \in 0 .. (M - 1)
  PROVE  (i - 1 - n + M * 2) % M = IF n < i THEN i - 1 - n ELSE i - 1 - n + M
<1> DEFINE x == i - 1 - n + M * 2
<1>1. x \in Int /\ x >= M /\ x < 3 * M
  OBVIOUS
<1>2. x % M = IF x < 2 * M THEN x - M ELSE x - 2 * M
  BY <1>1
<1> QED BY <1>2

\* hist_push looks at the same slot as hist_get for the newest line.
LEMMA NewestSlot ==
  ASSUME NEW M \in Nat \ {0}, NEW i \in 0 .. (M - 1)
  PROVE  /\ (i - 1 + M) % M = (i - 1 - 0 + M * 2) % M
         /\ (i + 1) % M = IF i + 1 < M THEN i + 1 ELSE 0
<1>1. (i - 1 - 0 + M * 2) % M = IF 0 < i THEN i - 1 ELSE i - 1 + M
  BY BackInRing
<1>2. (i - 1 + M) % M = IF 0 < i THEN i - 1 ELSE i - 1 + M
  OBVIOUS
<1> QED BY <1>1, <1>2

(***************************************************************************)
(* The ring against the log of all lines that hist_push kept.              *)
(***************************************************************************)
HistInv ==
  /\ log \in Seq(Range(log))
  /\ history = [s \in 0 .. (MaxHistory - 1) |-> history[s]]
  /\ hist_idx \in 0 .. (MaxHistory - 1)
  /\ HistoryFaithful

\* A line that is kept takes the oldest line's slot and moves all others one back.
LEMMA PushKeeps ==
  ASSUME HistInv, NEW l, hist_push(l)
  PROVE  HistInv'
<1> DEFINE M == MaxHistory
           i == hist_idx
           L == Len(log)
<1>0. M \in Nat \ {0} /\ i \in 0 .. (M - 1) /\ L \in Nat
  BY HistoryAssumption, LenProperties DEF HistInv
<1>1. CASE UNCHANGED histVars
  BY <1>1 DEF HistInv, HistoryFaithful, histVars, hist_get
<1>2. CASE ~(hist_count > 0 /\ history[(i - 1 + M) % M] = l)
  <2>1. /\ history' = [history EXCEPT ![i] = l] /\ hist_idx' = (i + 1) % M
        /\ hist_count' = Min({hist_count + 1, M}) /\ log' = Append(log, l)
    BY <1>2 DEF hist_push, NextIndex
  <2>2. hist_count = IF L <= M THEN L ELSE M
    <3>1. hist_count = Min({L, M})
      BY DEF HistInv, HistoryFaithful
    <3>2. Min({L, M}) = IF L <= M THEN L ELSE M
      BY <1>0, MinOfTwo
    <3> QED BY <3>1, <3>2
  <2>3. /\ log' \in Seq(Range(log')) /\ Len(log') = L + 1
        /\ \A n \in 1 .. L : log'[n] = log[n]
        /\ log'[L + 1] = l
    BY <2>1, AppendAny DEF HistInv
  <2>4. hist_count' = (IF L + 1 <= M THEN L + 1 ELSE M) /\ hist_count' = Min({Len(log'), M})
    BY <1>0, <2>1, <2>2, <2>3, MinOfTwo
  <2>5. /\ hist_idx' = (IF i + 1 < M THEN i + 1 ELSE 0) /\ hist_idx' \in 0 .. (M - 1)
    <3>1. (i + 1) % M = IF i + 1 < M THEN i + 1 ELSE 0
      BY <1>0, NewestSlot
    <3> QED BY <1>0, <2>1, <3>1
  <2>6. /\ history' = [s \in 0 .. (M - 1) |-> history'[s]] /\ history'[i] = l
        /\ \A s \in 0 .. (M - 1) : s # i => history'[s] = history[s]
    BY <1>0, <2>1 DEF HistInv
  <2>7. ASSUME NEW n \in 0 .. (hist_count' - 1)
        PROVE  hist_get(n)' = log'[Len(log') - n]
    <3>0. n \in 0 .. (M - 1) /\ n <= L
      BY <1>0, <2>4
    <3>1. (hist_idx' - 1 - n + M * 2) % M
            = IF n < hist_idx' THEN hist_idx' - 1 - n ELSE hist_idx' - 1 - n + M
      BY <1>0, <2>5, <3>0, BackInRing
    <3> DEFINE k == (hist_idx' - 1 - n + M * 2) % M
    <3>2. hist_get(n)' = history'[k]
      BY DEF hist_get
    <3>3. CASE n = 0
      <4>1. k = i
        BY <1>0, <2>5, <3>1, <3>3
      <4>2. Len(log') - n = L + 1
        BY <1>0, <2>3, <3>3
      <4> QED BY <2>3, <2>6, <3>2, <4>1, <4>2
    <3>4. CASE n > 0
      <4>1. n - 1 \in 0 .. (M - 1) /\ n - 1 \in 0 .. (hist_count - 1)
        BY <1>0, <2>2, <2>4, <3>4
      <4>2. (i - 1 - (n - 1) + M * 2) % M
              = IF n - 1 < i THEN i - 1 - (n - 1) ELSE i - 1 - (n - 1) + M
        BY <1>0, <4>1, BackInRing
      <4>3. k = (i - 1 - (n - 1) + M * 2) % M /\ k \in 0 .. (M - 1) /\ k # i
        BY <1>0, <2>5, <3>0, <3>1, <3>4, <4>2
      <4>4. hist_get(n - 1) = log[L - (n - 1)]
        BY <4>1 DEF HistInv, HistoryFaithful
      <4>5. hist_get(n - 1) = history[k]
        BY <4>3 DEF hist_get
      <4>6. L - (n - 1) \in 1 .. L /\ Len(log') - n = L - (n - 1)
        BY <1>0, <2>3, <3>0, <3>4
      <4> QED BY <2>3, <2>6, <3>2, <4>3, <4>4, <4>5, <4>6
    <3> QED BY <3>0, <3>3, <3>4
  <2>8. ASSUME NEW n \in 1 .. (Len(log') - 1)
        PROVE  log'[n] # log'[n + 1]
    <3>1. CASE n < L
      <4>1. n \in 1 .. L /\ n + 1 \in 1 .. L /\ n \in 1 .. (L - 1)
        BY <1>0, <2>3, <3>1
      <4> QED BY <2>3, <4>1 DEF HistInv, HistoryFaithful
    <3>2. CASE n = L
      <4>1. L \in 1 .. L /\ 0 \in 0 .. (hist_count - 1) /\ hist_count > 0
        BY <1>0, <2>2, <2>3, <3>2
      <4>2. hist_get(0) = log[L - 0]
        BY <4>1 DEF HistInv, HistoryFaithful
      <4>3. hist_get(0) = history[(i - 1 + M) % M]
        BY <1>0, NewestSlot DEF hist_get
      <4>4. history[(i - 1 + M) % M] # l
        BY <1>2, <4>1
      <4>5. L - 0 = L
        BY <1>0
      <4> QED BY <2>3, <3>2, <4>1, <4>2, <4>3, <4>4, <4>5
    <3> QED BY <1>0, <2>3, <3>1, <3>2
  <2> QED BY <2>3, <2>4, <2>5, <2>6, <2>7, <2>8 DEF HistInv, HistoryFaithful
<1> QED BY <1>1, <1>2 DEF hist_push

\* Only execute_line changes the history, and only by hist_push.
LEMMA HistoryAlone ==
  ASSUME [Next]_vars
  PROVE  UNCHANGED histVars \/ \E l : hist_push(l)
<1>1. ASSUME NEW l, execute_line(l)
      PROVE  UNCHANGED histVars \/ hist_push(l)
  BY <1>1, Zenon DEF execute_line
<1>2. CASE UserKey
  <2>1. CASE (\E w \in Words : TypeWord(w)) \/ Backspace \/ MoveCursor \/ UpArrow \/ DownArrow
    BY <2>1 DEF TypeWord, Backspace, MoveCursor, UpArrow, DownArrow, Editing
  <2>2. CASE Enter \/ CtrlC
    BY <1>1, <2>2, Zenon DEF Enter, CtrlC
  <2>3. CASE CtrlD
    BY <2>3 DEF CtrlD
  <2> QED BY <1>2, <2>1, <2>2, <2>3 DEF UserKey, User
<1>3. CASE ShellRuns
  <2>1. CASE source_file
    BY <1>1, <2>1, Zenon DEF source_file
  <2>2. CASE SkipEmpty \/ Fork \/ CloseEnds \/ StartWait \/ Wait \/ PipelineDone
    BY <2>2 DEF SkipEmpty, Fork, Spawning, CloseEnds, StartWait, Wait, PipelineDone
  <2> QED BY <1>3, <2>1, <2>2 DEF ShellRuns, ShellStep
<1>4. ASSUME NEW c \in Slots, ProgramRuns(c) \/ TerminalEnds(c) \/ PhxKilled(c)
      PROVE  UNCHANGED histVars
  BY <1>4 DEF ProgramRuns, TerminalEnds, PhxKilled, ChildStarts, ChildSetup, WriteByte, ReadByte,
              GenEnds, PhxRuns, PhxEnds, InstallerStarts, InstallerEnds, Exits, pyreVars
<1>5. CASE InstallerRuns \/ UserAnswers \/ UNCHANGED vars
  BY <1>5 DEF InstallerRuns, UserAnswers, vars, pyreVars
<1> QED BY <1>2, <1>3, <1>4, <1>5, Zenon DEF Next, System

(***************************************************************************)
(* The history of PyreShell is right for every MAX_HISTORY, however often  *)
(* the ring has gone round.                                                *)
(***************************************************************************)
THEOREM HistoryStaysFaithful == Spec => []HistoryFaithful
<1>1. ASSUME Init PROVE HistInv
  <2>1. /\ log = <<>> /\ hist_idx = 0 /\ hist_count = 0
        /\ history = [s \in 0 .. (MaxHistory - 1) |-> <<>>]
    BY <1>1 DEF Init, PyreInit
  <2>2. log \in Seq(Range(log)) /\ Len(log) = 0
    BY <2>1, EmptySeq
  <2>3. Min({0, MaxHistory}) = 0 /\ MaxHistory \in Nat \ {0}
    BY MinOfTwo, HistoryAssumption
  <2> QED BY <2>1, <2>2, <2>3 DEF HistInv, HistoryFaithful
<1>2. HistInv /\ [Next]_vars => HistInv'
  <2>1. HistInv /\ UNCHANGED histVars => HistInv'
    BY DEF HistInv, HistoryFaithful, histVars, hist_get
  <2> QED BY <2>1, HistoryAlone, PushKeeps, Zenon
<1>3. HistInv => HistoryFaithful
  BY DEF HistInv
<1> QED BY <1>1, <1>2, <1>3, PTL DEF Spec

-----------------------------------------------------------------------------
(* The children of a pipeline *)

ShellPhases == {"rc", "edit", "spawn", "close", "wait", "logout"}

\* The line being edited and the lines to recall.
LineOK == buf \in Seq(STRING) /\ cur \in 0 .. Len(buf) /\ offset \in Int

RingOK == /\ history \in [0 .. (MaxHistory - 1) -> Seq(STRING)]
          /\ hist_idx \in 0 .. (MaxHistory - 1)

\* What the loops over a pipeline work with.
LoopOK == /\ phase \in ShellPhases /\ rc \in Seq(Seq(STRING)) /\ (phase = "rc" => rc # <<>>)
          /\ Len(cmds) \in Nat /\ idx \in Nat
          /\ DOMAIN pids = Slots /\ DOMAIN child = Slots
          /\ child = [c \in Slots |-> child[c]]
          /\ \A c \in Slots : "state" \in DOMAIN child[c]

(***************************************************************************)
(* A child that has not been waited for is one the loop of waitpids is     *)
(* still to reach, under its own pid: a pid of -1 may take a later child   *)
(* early, but never leaves an earlier one behind.                          *)
(***************************************************************************)
ChildrenAhead ==
  \A c \in Unreaped :
    /\ pids[c] = c /\ c <= LastCmd
    /\ \/ phase = "spawn" /\ c < idx
       \/ phase = "close" /\ c <= idx
       \/ phase = "wait" /\ idx <= c

ShellInv == LineOK /\ RingOK /\ LoopOK /\ ChildrenAhead

\* A line has a whole number of commands, whatever parse_pipeline takes back.
LEMMA PipelineLength ==
  ASSUME NEW l \in Seq(STRING)
  PROVE  Len(parse_pipeline(l)) \in Nat
<1> DEFINE bars == {0, Len(l) + 1} \cup {k \in DOMAIN l : l[k] = "|"}
           m == Cardinality(bars)
<1>1. Len(l) \in Nat /\ DOMAIN l = 1 .. Len(l)
  BY LenProperties
<1>2. bars \subseteq 0 .. (Len(l) + 1) /\ 0 \in bars
  BY <1>1
<1>3. IsFiniteSet(bars) /\ m \in Nat /\ m # 0
  <2>1. 0 \in Int /\ Len(l) + 1 \in Int
    BY <1>1
  <2>2. IsFiniteSet(0 .. (Len(l) + 1))
    BY <2>1, FS_Interval
  <2>3. IsFiniteSet(bars)
    BY <1>2, <2>2, FS_Subset
  <2> QED BY <1>2, <2>3, FS_CardinalityType, FS_EmptySet
<1> DEFINE Bar(k) == CHOOSE b \in bars : Cardinality({a \in bars : a < b}) = k
           segs == [k \in 1 .. (m - 1) |-> SubSeq(l, Bar(k - 1) + 1, Bar(k) - 1)]
<1>4. Segments(l) = segs
  BY DEF Segments
<1> HIDE DEF m
<1>5. Len(segs) = m - 1 /\ m - 1 \in Nat
  <2>1. m - 1 \in Nat
    BY <1>3
  <2> HIDE DEF Bar
  <2>2. segs \in Seq({segs[k] : k \in 1 .. (m - 1)})
    <3>1. segs \in [1 .. (m - 1) -> {segs[k] : k \in 1 .. (m - 1)}]
      OBVIOUS
    <3> QED BY <2>1, <3>1, SeqDef
  <2>3. Len(segs) \in Nat /\ DOMAIN segs = 1 .. Len(segs)
    BY <2>2, LenProperties
  <2>4. DOMAIN segs = 1 .. (m - 1)
    OBVIOUS
  <2> HIDE DEF segs
  <2>5. \A a, b \in Nat : 1 .. a = 1 .. b => a = b
    OBVIOUS
  <2> QED BY <2>1, <2>3, <2>4, <2>5
<1> HIDE DEF segs
<1> DEFINE n == Min({Len(segs), MaxCmds})
           parsed == [k \in 1 .. n |-> ParseSegment(segs[k], k = n)]
<1>6. n \in Nat
  BY <1>5, MinOfTwo, TextAssumption
<1>7. parse_pipeline(l) = IF parsed[n].argv = <<>> THEN SubSeq(parsed, 1, n - 1) ELSE parsed
  BY <1>4 DEF parse_pipeline
<1> HIDE DEF n
<1> DEFINE T == {parsed[k] : k \in 1 .. n}
<1>8. parsed \in [1 .. n -> T]
  OBVIOUS
<1> HIDE DEF parsed
<1>9. parsed \in Seq(T) /\ Len(parsed) \in Nat /\ \A i \in 1 .. n : parsed[i] \in T
  <2> HIDE DEF T
  <2>1. parsed \in Seq(T)
    BY <1>6, <1>8, SeqDef
  <2> QED BY <1>8, <2>1, LenProperties
<1>10. Len(SubSeq(parsed, 1, n - 1)) \in Nat
  <2> HIDE DEF T
  <2>0. n - 1 \in Int /\ \A i \in 1 .. (n - 1) : i \in 1 .. n
    BY <1>6
  <2>1. 1 \in Int /\ n - 1 \in Int /\ \A i \in 1 .. (n - 1) : parsed[i] \in T
    BY <1>9, <2>0
  <2>2. SubSeq(parsed, 1, n - 1) \in Seq(T)
    BY <2>1, SubSeqProperties
  <2> QED BY <2>2, LenProperties
<1> QED BY <1>7, <1>9, <1>10

\* One word is a line.
LEMMA OneWord ==
  ASSUME NEW S, NEW e \in S
  PROVE  <<e>> \in Seq(S) /\ Len(<<e>>) = 1
  OBVIOUS

\* The larger of two numbers.
LEMMA MaxOfTwo ==
  ASSUME NEW a \in Int, NEW b \in Int
  PROVE  Max({a, b}) = IF a >= b THEN a ELSE b
<1> DEFINE m == IF a >= b THEN a ELSE b
<1>1. m \in {a, b} /\ \A y \in {a, b} : m >= y
  OBVIOUS
<1>2. \A x \in {a, b} : (\A y \in {a, b} : x >= y) => x = m
  OBVIOUS
<1> QED BY <1>1, <1>2 DEF Max

\* A piece of a line is a line.
LEMMA PieceOfLine ==
  ASSUME NEW l \in Seq(STRING), NEW i \in 1 .. (Len(l) + 1), NEW j \in 0 .. Len(l)
  PROVE  /\ SubSeq(l, i, j) \in Seq(STRING)
         /\ Len(SubSeq(l, i, j)) = IF i <= j THEN j - i + 1 ELSE 0
<1>1. Len(l) \in Nat /\ \A k \in 1 .. Len(l) : l[k] \in STRING
  BY ElementOfSeq, LenProperties
<1>2. i \in Int /\ j \in Int /\ \A k \in i .. j : l[k] \in STRING
  BY <1>1
<1> QED BY <1>2, SubSeqProperties

\* Every line the history can give is one that was typed.
LEMMA RecalledLine ==
  ASSUME RingOK, NEW n \in Int
  PROVE  hist_get(n) \in Seq(STRING)
<1> DEFINE k == hist_idx - 1 - n + MaxHistory * 2
<1>1. k \in Int /\ MaxHistory \in Nat \ {0}
  BY HistoryAssumption DEF RingOK
<1> HIDE DEF k
<1>2. k % MaxHistory \in 0 .. (MaxHistory - 1)
  BY <1>1
<1> QED BY <1>2 DEF RingOK, hist_get, k

\* Each key of the line editor leaves the cursor on the line.
LEMMA KeyKeepsLine ==
  ASSUME LineOK, RingOK,
         \/ \E w \in Words : TypeWord(w)
         \/ Backspace \/ MoveCursor \/ UpArrow \/ DownArrow
  PROVE  LineOK'
<1>0. /\ buf \in Seq(STRING) /\ cur \in 0 .. Len(buf) /\ offset \in Int /\ Len(buf) \in Nat
  BY LenProperties DEF LineOK
<1>1. ASSUME NEW w \in Words, TypeWord(w)
      PROVE  LineOK'
  <2> DEFINE x == SubSeq(buf, 1, (cur + 1) - 1)
             y == SubSeq(buf, cur + 1, Len(buf))
  <2>1. buf' = x \o <<w>> \o y /\ cur' = cur + 1 /\ offset' = offset
    BY <1>1 DEF TypeWord, InsertAt
  <2>2. x \in Seq(STRING) /\ Len(x) = cur
    <3>1. (cur + 1) - 1 = cur /\ cur \in 0 .. Len(buf) /\ 1 \in 1 .. (Len(buf) + 1)
      BY <1>0
    <3>2. /\ SubSeq(buf, 1, cur) \in Seq(STRING)
          /\ Len(SubSeq(buf, 1, cur)) = IF 1 <= cur THEN cur - 1 + 1 ELSE 0
      BY <1>0, <3>1, PieceOfLine
    <3> QED BY <1>0, <3>1, <3>2
  <2>3. y \in Seq(STRING) /\ Len(y) \in Nat
    <3>1. cur + 1 \in 1 .. (Len(buf) + 1) /\ Len(buf) \in 0 .. Len(buf)
      BY <1>0
    <3>2. y \in Seq(STRING)
      BY <1>0, <3>1, PieceOfLine
    <3> QED BY <3>2, LenProperties
  <2>4. <<w>> \in Seq(STRING) /\ Len(<<w>>) = 1
    <3>1. w \in STRING
      BY TextAssumption
    <3> QED BY <3>1, OneWord
  <2> HIDE DEF x, y
  <2>5. x \o <<w>> \in Seq(STRING) /\ Len(x \o <<w>>) = cur + 1
    BY <2>2, <2>4, ConcatProperties
  <2>6. buf' \in Seq(STRING) /\ Len(buf') = cur + 1 + Len(y)
    BY <2>1, <2>3, <2>5, ConcatProperties
  <2>7. cur' \in 0 .. Len(buf')
    BY <1>0, <2>1, <2>3, <2>6
  <2> QED BY <1>0, <2>1, <2>6, <2>7 DEF LineOK
<1>2. CASE Backspace
  <2> DEFINE x == SubSeq(buf, 1, cur - 1)
             y == SubSeq(buf, cur + 1, Len(buf))
  <2>1. buf' = x \o y /\ cur' = cur - 1 /\ offset' = offset /\ cur > 0
    BY <1>2 DEF Backspace, RemoveAt
  <2>2. x \in Seq(STRING) /\ Len(x) = cur - 1
    <3>1. cur - 1 \in 0 .. Len(buf) /\ 1 \in 1 .. (Len(buf) + 1)
      BY <1>0, <2>1
    <3>2. x \in Seq(STRING) /\ Len(x) = IF 1 <= cur - 1 THEN (cur - 1) - 1 + 1 ELSE 0
      BY <1>0, <3>1, PieceOfLine
    <3> QED BY <1>0, <2>1, <3>1, <3>2
  <2>3. y \in Seq(STRING) /\ Len(y) \in Nat
    <3>1. cur + 1 \in 1 .. (Len(buf) + 1) /\ Len(buf) \in 0 .. Len(buf)
      BY <1>0
    <3>2. y \in Seq(STRING)
      BY <1>0, <3>1, PieceOfLine
    <3> QED BY <3>2, LenProperties
  <2> HIDE DEF x, y
  <2>4. buf' \in Seq(STRING) /\ Len(buf') = (cur - 1) + Len(y)
    BY <2>1, <2>2, <2>3, ConcatProperties
  <2>5. cur' \in 0 .. Len(buf')
    BY <1>0, <2>1, <2>3, <2>4
  <2> QED BY <1>0, <2>1, <2>4, <2>5 DEF LineOK
<1>3. CASE MoveCursor
  <2>1. /\ cur' \in {0, Len(buf), Max({0, cur - 1}), Min({Len(buf), cur + 1})}
        /\ buf' = buf /\ offset' = offset
    BY <1>3 DEF MoveCursor
  <2>2. /\ Max({0, cur - 1}) = IF 0 >= cur - 1 THEN 0 ELSE cur - 1
        /\ Min({Len(buf), cur + 1}) = IF Len(buf) <= cur + 1 THEN Len(buf) ELSE cur + 1
    BY <1>0, MaxOfTwo, MinOfTwo
  <2>3. cur' \in 0 .. Len(buf)
    BY <1>0, <2>1, <2>2
  <2> QED BY <1>0, <2>1, <2>3 DEF LineOK
<1>4. ASSUME NEW n \in Int, Recall(n)
      PROVE  LineOK'
  <2>1. buf' = hist_get(n) /\ cur' = Len(buf') /\ offset' = n
    BY <1>4 DEF Recall
  <2>2. buf' \in Seq(STRING)
    BY <2>1, RecalledLine
  <2>3. Len(buf') \in Nat
    BY <2>2, LenProperties
  <2> QED BY <2>1, <2>2, <2>3 DEF LineOK
<1>5. CASE UpArrow
  BY <1>0, <1>4, <1>5 DEF UpArrow
<1>6. CASE DownArrow
  <2>1. CASE offset <= 0
    <3>1. buf' = <<>> /\ cur' = 0 /\ offset' = -1
      BY <1>6, <2>1 DEF DownArrow
    <3> QED BY <3>1, EmptySeq DEF LineOK
  <2>2. CASE ~(offset <= 0)
    BY <1>0, <1>4, <1>6, <2>2 DEF DownArrow
  <2> QED BY <2>1, <2>2
<1> QED BY <1>1, <1>2, <1>3, <1>5, <1>6

\* hist_push puts a line into one slot of the ring.
LEMMA PushKeepsRing ==
  ASSUME RingOK, NEW l \in Seq(STRING), UNCHANGED histVars \/ hist_push(l)
  PROVE  RingOK'
<1>1. CASE UNCHANGED histVars
  BY <1>1 DEF RingOK, histVars
<1>2. CASE /\ history' = [history EXCEPT ![hist_idx] = l]
           /\ hist_idx' = NextIndex(hist_idx)
  <2>1. hist_idx' \in 0 .. (MaxHistory - 1)
    BY <1>2, HistoryAssumption, NewestSlot DEF RingOK, NextIndex
  <2>2. history' \in [0 .. (MaxHistory - 1) -> Seq(STRING)]
    BY <1>2 DEF RingOK
  <2> QED BY <2>1, <2>2 DEF RingOK
<1> QED BY <1>1, <1>2 DEF hist_push

-----------------------------------------------------------------------------

\* With no child, and none made, nothing is left to wait for.
LEMMA NobodyToWaitFor ==
  ASSUME LoopOK, ChildrenAhead, phase \in {"edit", "rc", "logout"}
  PROVE  Unreaped = {}
  BY DEF ChildrenAhead, LoopOK, ShellPhases

\* execute_line starts from a prompt or the startup file, with all children reaped.
LEMMA LineKeeps ==
  ASSUME ShellInv, phase \in {"edit", "rc"}, rc' \in Seq(Seq(STRING)),
         NEW l \in Seq(STRING), execute_line(l)
  PROVE  ShellInv'
<1>0. Unreaped = {} /\ LoopOK /\ LineOK /\ RingOK
  BY NobodyToWaitFor DEF ShellInv
<1>1. UNCHANGED histVars \/ hist_push(l)
  BY Zenon DEF execute_line
<1>2. RingOK'
  BY <1>0, <1>1, PushKeepsRing
<1>3. ASSUME NEW r, Prompt(r)
      PROVE  /\ LineOK'
             /\ phase' \in ShellPhases /\ (phase' = "rc" => rc' # <<>>)
  <2>1. /\ buf' = <<>> /\ cur' = 0 /\ offset' = -1
        /\ phase' = IF rc' = <<>> THEN "edit" ELSE "rc"
    BY <1>3 DEF Prompt
  <2> QED BY <2>1, EmptySeq DEF LineOK, ShellPhases
<1>4. ASSUME UNCHANGED editVars
      PROVE  LineOK'
  BY <1>0, <1>4 DEF LineOK, editVars
<1>5. ASSUME LineOK', phase' \in ShellPhases, phase' = "rc" => rc' # <<>>,
             Len(cmds') \in Nat, idx' \in Nat, UNCHANGED <<pids, child>>
      PROVE  ShellInv'
  <2>1. LoopOK'
    BY <1>0, <1>5 DEF LoopOK
  <2>2. Unreaped' = {}
    BY <1>0, <1>5 DEF Unreaped
  <2> QED BY <1>2, <1>5, <2>1, <2>2 DEF ShellInv, ChildrenAhead
<1>6. Len(cmds) \in Nat /\ idx \in Nat
  BY <1>0 DEF LoopOK
<1>7. ASSUME NEW r, Prompt(r), UNCHANGED <<cmds, idx, pids, child>>
      PROVE  ShellInv'
  BY <1>3, <1>5, <1>6, <1>7
<1>8. CASE l = <<>>
  <2>1. Prompt(0) /\ UNCHANGED <<cmds, idx, pids, child>>
    BY <1>8 DEF execute_line, procVars
  <2> QED BY <1>7, <2>1
<1>9. CASE l # <<>>
  <2> DEFINE p == parse_pipeline(l)
             argv == IF p = <<>> THEN <<>> ELSE p[1].argv
             single == IF Len(p) = 1 /\ argv # <<>> THEN argv[1] ELSE ""
  <2>1. Len(p) \in Nat
    BY PipelineLength
  <2>2. \/ Prompt(0) /\ UNCHANGED procVars
        \/ Builtin(single) /\ UNCHANGED procVars
        \/ single = "install" /\ cmds' = p /\ builtin_install
        \/ /\ phase' = "spawn" /\ cmds' = p /\ idx' = 1
           /\ UNCHANGED <<pids, child, editVars>>
    BY <1>9, Zenon DEF execute_line
  <2> HIDE DEF p
  <2>3. single = "install" => Len(p) = 1
    OBVIOUS
  <2> HIDE DEF single
  <2>4. CASE Prompt(0) /\ UNCHANGED procVars
    BY <1>7, <2>4 DEF procVars
  <2>5. CASE Builtin(single) /\ UNCHANGED procVars
    <3>1. CASE Prompt(0) \/ Prompt(1)
      BY <1>7, <2>5, <3>1 DEF procVars
    <3>2. CASE phase' = "logout" /\ UNCHANGED editVars
      BY <1>4, <1>5, <1>6, <2>5, <3>2 DEF procVars, ShellPhases
    <3> QED BY <2>5, <3>1, <3>2 DEF Builtin
  <2>6. CASE single = "install" /\ cmds' = p /\ builtin_install
    <3>1. CASE /\ phase' = "wait" /\ idx' = 1 /\ UNCHANGED editVars
               /\ pids' = [pids EXCEPT ![1] = 1]
               /\ child' = [child EXCEPT ![1] =
                              [NoChild EXCEPT !.state = "run", !.prog = "install"]]
      <4>1. DOMAIN pids' = Slots /\ DOMAIN child' = Slots /\ child' = [c \in Slots |-> child'[c]]
        BY <1>0, <3>1 DEF LoopOK
      <4>2. \A c \in Slots : "state" \in DOMAIN child'[c]
        BY <1>0, <3>1 DEF LoopOK, NoChild
      <4>3. LoopOK'
        BY <2>1, <2>6, <3>1, <4>1, <4>2 DEF LoopOK, ShellPhases
      <4>4. Unreaped' \subseteq {1}
        BY <1>0, <3>1 DEF Unreaped, LoopOK
      <4>5. 1 \in Slots => pids'[1] = 1
        BY <1>0, <3>1 DEF LoopOK
      <4>6. Unreaped' \subseteq Slots
        BY DEF Unreaped
      <4>7. Len(cmds') = 1
        BY <2>3, <2>6
      <4>8. ASSUME NEW c \in Unreaped'
            PROVE  /\ pids'[c] = c /\ c <= Len(cmds')
                   /\ phase' = "wait" /\ idx' <= c
        BY <3>1, <4>4, <4>5, <4>6, <4>7, <4>8
      <4>9. ChildrenAhead'
        BY <4>8 DEF ChildrenAhead, LastCmd
      <4> QED BY <1>2, <1>4, <3>1, <4>3, <4>9 DEF ShellInv
    <3>2. CASE Prompt(1) /\ UNCHANGED <<idx, pids, child>>
      BY <1>3, <1>5, <1>6, <2>1, <2>6, <3>2
    <3> QED BY <2>6, <3>1, <3>2 DEF builtin_install
  <2>7. CASE /\ phase' = "spawn" /\ cmds' = p /\ idx' = 1
             /\ UNCHANGED <<pids, child, editVars>>
    BY <1>4, <1>5, <2>1, <2>7 DEF ShellPhases
  <2> QED BY <2>2, <2>4, <2>5, <2>6, <2>7
<1> QED BY <1>8, <1>9

\* A step that makes no child and forgets no pid keeps what is ahead.
LEMMA NoNewChild ==
  ASSUME ShellInv, UNCHANGED <<phase, rc, editVars, histVars, cmds, idx, pids>>,
         DOMAIN child' = Slots, child' = [c \in Slots |-> child'[c]],
         \A c \in Slots : "state" \in DOMAIN child'[c],
         Unreaped' \subseteq Unreaped
  PROVE  ShellInv'
<1>1. LineOK' /\ RingOK'
  BY DEF ShellInv, LineOK, RingOK, editVars, histVars
<1>2. LoopOK'
  BY DEF ShellInv, LoopOK
<1>3. ChildrenAhead'
  BY DEF ShellInv, ChildrenAhead, LastCmd
<1> QED BY <1>1, <1>2, <1>3 DEF ShellInv

\* Children that set up, run and end stay to be waited for.
LEMMA ChildKeeps ==
  ASSUME ShellInv, NEW c \in Slots,
         ProgramRuns(c) \/ TerminalEnds(c) \/ PhxKilled(c)
  PROVE  ShellInv'
<1>0. /\ LoopOK /\ DOMAIN child = Slots /\ child = [s \in Slots |-> child[s]]
      /\ \A s \in Slots : "state" \in DOMAIN child[s]
  BY DEF ShellInv, LoopOK
<1>1. CASE UNCHANGED pyreVars
  BY <1>0, <1>1, NoNewChild DEF pyreVars, procVars, Unreaped
<1>2. ASSUME UNCHANGED <<phase, rc, editVars, histVars, cmds, idx, pids>>,
             c \in Unreaped, NEW r, "state" \in DOMAIN r, child' = [child EXCEPT ![c] = r]
      PROVE  ShellInv'
  <2>1. /\ DOMAIN child' = Slots /\ child' = [s \in Slots |-> child'[s]]
        /\ \A s \in Slots : s # c => child'[s] = child[s]
        /\ child'[c] = r
    BY <1>0, <1>2
  <2>2. Unreaped' \subseteq Unreaped
    BY <1>2, <2>1 DEF Unreaped
  <2> QED BY <1>0, <1>2, <2>1, <2>2, NoNewChild
<1>3. ASSUME NEW code, Exits(c, code), c \in Unreaped
      PROVE  ShellInv'
  <2> DEFINE r == [child[c] EXCEPT !.state = "zombie", !.status = code]
  <2>1. child' = [child EXCEPT ![c] = r]
    BY <1>0, <1>3 DEF Exits, ChildEnds
  <2>2. "state" \in DOMAIN r
    BY <1>0
  <2>3. UNCHANGED <<phase, rc, editVars, histVars, cmds, idx, pids>>
    BY <1>3 DEF Exits
  <2> HIDE DEF r
  <2> QED BY <1>2, <1>3, <2>1, <2>2, <2>3
<1>4. CASE ChildStarts(c)
  <2>1. c \in Unreaped /\ UNCHANGED <<phase, rc, editVars, histVars, cmds, idx, pids>>
    BY <1>4 DEF ChildStarts, ChildSetup, Unreaped
  <2>2. CASE \E code : ChildEnds(c, code)
    <3>1. PICK code : ChildEnds(c, code)
      BY <2>2
    <3> DEFINE r == [child[c] EXCEPT !.state = "zombie", !.status = code]
    <3>2. child' = [child EXCEPT ![c] = r] /\ "state" \in DOMAIN r
      BY <1>0, <3>1 DEF ChildEnds
    <3> HIDE DEF r
    <3> QED BY <1>2, <2>1, <3>2
  <2>3. CASE \E prog, in, wend :
               child' = [child EXCEPT ![c].state = "run", ![c].prog = prog,
                                      ![c].in = in, ![c].out = wend]
    <3>1. PICK prog, in, wend :
               child' = [child EXCEPT ![c].state = "run", ![c].prog = prog,
                                      ![c].in = in, ![c].out = wend]
      BY <2>3
    <3> DEFINE r == [child[c] EXCEPT !.state = "run", !.prog = prog, !.in = in, !.out = wend]
    <3>2. child' = [child EXCEPT ![c] = r] /\ "state" \in DOMAIN r
      BY <1>0, <3>1
    <3> HIDE DEF r
    <3> QED BY <1>2, <2>1, <3>2
  <2>4. ChildSetup(c)
    BY <1>4 DEF ChildStarts
  <2> DEFINE cin == IF cmds[c].redir_in = <<>> THEN child[c].in ELSE -1
             cout == IF cmds[c].redir_out = <<>> THEN child[c].out ELSE -1
  <2>5. \/ ChildEnds(c, 1) \/ ChildEnds(c, 127)
        \/ child' = [child EXCEPT ![c].state = "run", ![c].prog = cmds[c].argv[1],
                                  ![c].in = cin, ![c].out = cout]
    BY <2>4 DEF ChildSetup
  <2> HIDE DEF cin, cout
  <2> QED BY <2>2, <2>3, <2>5, Zenon
<1>5. ASSUME NEW progs, Runs(c, progs)
      PROVE  c \in Unreaped
  BY <1>5 DEF Runs, Unreaped
<1>6. CASE WriteByte(c) \/ ReadByte(c) \/ GenEnds(c) \/ TerminalEnds(c)
  <2>1. c \in Unreaped
    BY <1>5, <1>6, Zenon DEF WriteByte, ReadByte, GenEnds, TerminalEnds
  <2>2. UNCHANGED pyreVars \/ Exits(c, 0) \/ Exits(c, 1)
    BY <1>6, Zenon DEF WriteByte, ReadByte, GenEnds, TerminalEnds
  <2> QED BY <1>1, <1>3, <2>1, <2>2
<1>7. CASE PhxRuns(c) \/ PhxKilled(c) \/ InstallerStarts(c)
  BY <1>1, <1>7 DEF PhxRuns, PhxKilled, InstallerStarts
<1>8. CASE PhxEnds(c) \/ InstallerEnds(c)
  <2>1. c \in Unreaped
    BY <1>5, <1>8, Zenon DEF PhxEnds, InstallerEnds
  <2>2. \E code : Exits(c, code)
    BY <1>8, Zenon DEF PhxEnds, InstallerEnds
  <2> QED BY <1>3, <2>1, <2>2
<1> QED BY <1>4, <1>6, <1>7, <1>8 DEF ProgramRuns

\* The user's keys; only Enter makes anything of the line.
LEMMA UserKeeps ==
  ASSUME ShellInv, User
  PROVE  ShellInv'
<1>0. /\ LoopOK /\ LineOK /\ RingOK /\ DOMAIN child = Slots
      /\ child = [s \in Slots |-> child[s]] /\ \A s \in Slots : "state" \in DOMAIN child[s]
  BY DEF ShellInv, LoopOK
<1>1. CASE (\E w \in Words : TypeWord(w)) \/ Backspace \/ MoveCursor \/ UpArrow \/ DownArrow
  <2>1. LineOK'
    BY <1>0, <1>1, KeyKeepsLine
  <2>2. UNCHANGED <<phase, rc, histVars, procVars>>
    BY <1>1 DEF TypeWord, Backspace, MoveCursor, UpArrow, DownArrow, Editing
  <2>3. RingOK' /\ LoopOK'
    BY <1>0, <2>2 DEF RingOK, LoopOK, histVars, procVars
  <2>4. ChildrenAhead'
    BY <2>2 DEF ShellInv, ChildrenAhead, Unreaped, LastCmd, procVars
  <2> QED BY <2>1, <2>3, <2>4 DEF ShellInv
<1>2. CASE Enter \/ CtrlC
  <2>1. phase = "edit" /\ rc' = rc /\ (execute_line(buf) \/ execute_line(<<>>))
    BY <1>2, Zenon DEF Enter, CtrlC, AtPrompt
  <2>2. buf \in Seq(STRING) /\ <<>> \in Seq(STRING) /\ rc' \in Seq(Seq(STRING))
    BY <1>0, <2>1, EmptySeq DEF LineOK, LoopOK
  <2> QED BY <2>1, <2>2, LineKeeps
<1>3. CASE CtrlD
  <2>1. /\ UNCHANGED <<rc, editVars, histVars, procVars>> /\ phase' = "logout" /\ phase = "edit"
    BY <1>3 DEF CtrlD, AtPrompt
  <2>2. LineOK' /\ RingOK' /\ LoopOK'
    BY <1>0, <2>1 DEF LineOK, RingOK, LoopOK, ShellPhases, editVars, histVars, procVars
  <2>3. Unreaped = {}
    BY <2>1, NobodyToWaitFor DEF ShellInv
  <2>4. Unreaped' = {}
    BY <2>1, <2>3 DEF Unreaped, procVars
  <2> QED BY <2>2, <2>4 DEF ShellInv, ChildrenAhead
<1> QED BY <1>1, <1>2, <1>3 DEF User

\* The shell's own steps on a pipeline.
LEMMA ShellKeeps ==
  ASSUME ShellInv, ShellStep
  PROVE  ShellInv'
<1>0. /\ LoopOK /\ LineOK /\ RingOK /\ ChildrenAhead
      /\ DOMAIN pids = Slots /\ DOMAIN child = Slots
      /\ child = [s \in Slots |-> child[s]] /\ \A s \in Slots : "state" \in DOMAIN child[s]
      /\ Len(cmds) \in Nat /\ idx \in Nat /\ Slots \subseteq Nat
  BY DEF ShellInv, LoopOK, Slots
<1>1. CASE source_file
  <2>1. phase = "rc" /\ rc' = Tail(rc) /\ execute_line(Head(rc))
    BY <1>1 DEF source_file
  <2>2. rc \in Seq(Seq(STRING)) /\ rc # <<>>
    BY <1>0, <2>1 DEF LoopOK
  <2>3. Head(rc) \in Seq(STRING) /\ rc' \in Seq(Seq(STRING))
    BY <2>1, <2>2, HeadTailProperties
  <2> QED BY <2>1, <2>3, LineKeeps
<1>2. ASSUME UNCHANGED <<editVars, histVars, rc, cmds>>, phase' \in {"spawn", "close", "wait"},
             idx' \in Nat, DOMAIN pids' = Slots, DOMAIN child' = Slots,
             child' = [s \in Slots |-> child'[s]], \A s \in Slots : "state" \in DOMAIN child'[s],
             ChildrenAhead'
      PROVE  ShellInv'
  <2>1. LineOK' /\ RingOK' /\ LoopOK'
    BY <1>0, <1>2 DEF LineOK, RingOK, LoopOK, ShellPhases, editVars, histVars
  <2> QED BY <1>2, <2>1 DEF ShellInv
<1>3. CASE SkipEmpty
  <2>1. /\ phase = "spawn" /\ phase' = "spawn" /\ idx' = idx + 1 /\ child' = child
        /\ UNCHANGED <<editVars, histVars, rc, cmds>>
    BY <1>3 DEF SkipEmpty, Spawning
  <2>2. PICK g : pids' = [pids EXCEPT ![idx] = g]
    BY <1>3 DEF SkipEmpty
  <2>3. ASSUME NEW c \in Unreaped
        PROVE  pids'[c] = c /\ c <= Len(cmds) /\ c < idx'
    <3>1. c \in Slots /\ pids[c] = c /\ c <= Len(cmds) /\ c < idx
      BY <1>0, <2>1, <2>3 DEF ChildrenAhead, Unreaped, LastCmd
    <3> QED BY <1>0, <2>1, <2>2, <3>1
  <2>4. ChildrenAhead'
    BY <2>1, <2>3 DEF ChildrenAhead, Unreaped, LastCmd
  <2> QED BY <1>0, <1>2, <2>1, <2>2, <2>4
<1>4. CASE Fork
  <2>1. /\ phase = "spawn" /\ phase' = "close" /\ idx' = idx /\ idx <= Len(cmds)
        /\ UNCHANGED <<editVars, histVars, rc, cmds>>
    BY <1>4 DEF Fork, Spawning, LastCmd
  <2>2. PICK ok \in BOOLEAN : \E wend :
          /\ pids' = [pids EXCEPT ![idx] = IF ok THEN idx ELSE AnyChild]
          /\ child' = [child EXCEPT ![idx] =
                IF ok THEN [NoChild EXCEPT !.state = "forked", !.in = prev, !.out = wend]
                      ELSE NoChild]
    BY <1>4, Zenon DEF Fork
  <2>3. PICK wend :
          /\ pids' = [pids EXCEPT ![idx] = IF ok THEN idx ELSE AnyChild]
          /\ child' = [child EXCEPT ![idx] =
                IF ok THEN [NoChild EXCEPT !.state = "forked", !.in = prev, !.out = wend]
                      ELSE NoChild]
    BY <2>2
  <2> DEFINE r == IF ok THEN [NoChild EXCEPT !.state = "forked", !.in = prev, !.out = wend]
                        ELSE NoChild
  <2>4. "state" \in DOMAIN r /\ (~ok => r.state = "none")
    BY DEF NoChild
  <2>5. child' = [child EXCEPT ![idx] = r]
    BY <2>3
  <2> HIDE DEF r
  <2>6. /\ DOMAIN child' = Slots /\ child' = [s \in Slots |-> child'[s]]
        /\ \A s \in Slots : s # idx => child'[s] = child[s]
        /\ idx \in Slots => child'[idx] = r
    BY <1>0, <2>5
  <2>7. \A s \in Slots : "state" \in DOMAIN child'[s]
    BY <1>0, <2>4, <2>6
  <2>8. DOMAIN pids' = Slots
    BY <1>0, <2>3
  <2>9. ASSUME NEW c \in Unreaped'
        PROVE  pids'[c] = c /\ c <= Len(cmds') /\ c <= idx'
    <3>0. c \in Slots /\ child'[c].state \notin {"none", "reaped"}
      BY <2>9 DEF Unreaped
    <3>1. CASE c = idx
      <4>1. ok
        BY <2>4, <2>6, <3>0, <3>1
      <4>2. pids'[c] = c
        BY <1>0, <2>3, <3>0, <3>1, <4>1
      <4> QED BY <1>0, <2>1, <3>1, <4>2
    <3>2. CASE c # idx
      <4>1. c \in Unreaped
        BY <2>6, <3>0, <3>2 DEF Unreaped
      <4>2. pids[c] = c /\ c <= Len(cmds) /\ c < idx
        BY <1>0, <2>1, <4>1 DEF ChildrenAhead, LastCmd
      <4> QED BY <1>0, <2>1, <2>3, <3>0, <3>2, <4>2
    <3> QED BY <3>1, <3>2
  <2>10. ChildrenAhead'
    BY <2>1, <2>9 DEF ChildrenAhead, LastCmd
  <2> QED BY <1>0, <1>2, <2>1, <2>6, <2>7, <2>8, <2>10
<1>5. CASE CloseEnds
  <2>1. /\ phase = "close" /\ phase' = "spawn" /\ idx' = idx + 1
        /\ UNCHANGED <<editVars, histVars, rc, cmds, pids, child>>
    BY <1>5 DEF CloseEnds
  <2>2. ASSUME NEW c \in Unreaped
        PROVE  c < idx'
    <3>1. c \in Slots /\ c <= idx
      BY <1>0, <2>1 DEF ChildrenAhead, Unreaped
    <3> QED BY <1>0, <2>1, <3>1
  <2>3. ChildrenAhead'
    BY <1>0, <2>1, <2>2 DEF ChildrenAhead, Unreaped, LastCmd
  <2> QED BY <1>0, <1>2, <2>1, <2>3
<1>6. CASE StartWait
  <2>1. /\ phase = "spawn" /\ phase' = "wait" /\ idx' = 1
        /\ UNCHANGED <<editVars, histVars, rc, cmds, pids, child>>
    BY <1>6 DEF StartWait
  <2>2. \A c \in Unreaped : c \in Slots /\ idx' <= c
    BY <2>1 DEF Unreaped, Slots
  <2>3. ChildrenAhead'
    BY <1>0, <2>1, <2>2 DEF ChildrenAhead, Unreaped, LastCmd
  <2> QED BY <1>0, <1>2, <2>1, <2>3
<1>7. CASE Wait
  <2> DEFINE awaited == IF pids[idx] = AnyChild THEN Unreaped ELSE Unreaped \cap {pids[idx]}
  <2>1. /\ phase = "wait" /\ phase' = "wait" /\ idx' = idx + 1
        /\ UNCHANGED <<editVars, histVars, rc, cmds, pids>>
    BY <1>7 DEF Wait
  <2>2. \/ awaited = {} /\ child' = child
        \/ \E c \in awaited : child' = [child EXCEPT ![c].state = "reaped"]
    BY <1>7, Zenon DEF Wait
  <2>3. awaited \subseteq Unreaped /\ (idx \in Unreaped => awaited = {idx})
    <3>1. idx \in Unreaped => pids[idx] = idx
      BY <1>0 DEF ChildrenAhead
    <3>2. idx # AnyChild
      BY <1>0
    <3> QED BY <3>1, <3>2
  <2> HIDE DEF awaited
  <2>4. /\ DOMAIN child' = Slots /\ child' = [s \in Slots |-> child'[s]]
        /\ \A s \in Slots : "state" \in DOMAIN child'[s]
        /\ Unreaped' \subseteq Unreaped \ {idx}
    <3>1. CASE awaited = {} /\ child' = child
      BY <1>0, <2>3, <3>1 DEF Unreaped
    <3>2. CASE \E c \in awaited : child' = [child EXCEPT ![c].state = "reaped"]
      <4>1. PICK c \in awaited : child' = [child EXCEPT ![c].state = "reaped"]
        BY <3>2
      <4>2. c \in Slots /\ (idx \in Unreaped => c = idx)
        BY <2>3, <4>1 DEF Unreaped
      <4> DEFINE r == [child[c] EXCEPT !.state = "reaped"]
      <4>3. "state" \in DOMAIN r /\ r.state = "reaped" /\ child' = [child EXCEPT ![c] = r]
        BY <1>0, <4>1, <4>2
      <4> HIDE DEF r
      <4>4. /\ DOMAIN child' = Slots /\ child' = [s \in Slots |-> child'[s]]
            /\ \A s \in Slots : s # c => child'[s] = child[s]
            /\ child'[c] = r
        BY <1>0, <4>2, <4>3
      <4>5. Unreaped' \subseteq Unreaped \ {c}
        BY <4>3, <4>4 DEF Unreaped
      <4> QED BY <1>0, <4>2, <4>3, <4>4, <4>5
    <3> QED BY <2>2, <3>1, <3>2
  <2>5. ASSUME NEW c \in Unreaped'
        PROVE  pids'[c] = c /\ c <= Len(cmds') /\ idx' <= c
    <3>1. c \in Unreaped /\ c # idx /\ c \in Slots
      BY <2>4, <2>5 DEF Unreaped
    <3>2. pids[c] = c /\ c <= Len(cmds) /\ idx <= c
      BY <1>0, <2>1, <3>1 DEF ChildrenAhead, LastCmd
    <3> QED BY <1>0, <2>1, <3>1, <3>2
  <2>6. ChildrenAhead'
    BY <2>1, <2>5 DEF ChildrenAhead, LastCmd
  <2> QED BY <1>0, <1>2, <2>1, <2>4, <2>6
<1>8. CASE PipelineDone
  <2>1. /\ phase = "wait" /\ idx > Len(cmds) /\ rc' = rc /\ Prompt(status) /\ cmds' = <<>>
        /\ idx' = 1 /\ pids' = [s \in Slots |-> Stale] /\ UNCHANGED histVars
        /\ child' = [s \in Slots |-> IF s \in Unreaped THEN child[s] ELSE NoChild]
    BY <1>8 DEF PipelineDone, WaitedForAll, LastCmd
  <2>2. Unreaped = {}
    <3>1. ASSUME NEW c \in Unreaped
          PROVE  FALSE
      <4>1. c \in Nat /\ c <= Len(cmds) /\ idx <= c
        BY <1>0, <2>1 DEF ChildrenAhead, Unreaped, LastCmd
      <4> QED BY <1>0, <2>1, <4>1
    <3> QED BY <3>1
  <2>3. child' = [s \in Slots |-> NoChild]
    BY <2>1, <2>2
  <2>4. /\ Unreaped' = {} /\ \A s \in Slots : "state" \in DOMAIN child'[s]
    BY <2>3 DEF Unreaped, NoChild
  <2>5. /\ buf' = <<>> /\ cur' = 0 /\ offset' = -1
        /\ phase' = IF rc' = <<>> THEN "edit" ELSE "rc"
    BY <2>1 DEF Prompt
  <2>6. LineOK' /\ RingOK'
    BY <1>0, <2>1, <2>5, EmptySeq DEF LineOK, RingOK, histVars
  <2>7. Len(cmds') \in Nat /\ rc' \in Seq(Seq(STRING))
    BY <1>0, <2>1, EmptySeq DEF LoopOK
  <2>8. LoopOK'
    BY <2>1, <2>3, <2>4, <2>5, <2>7 DEF LoopOK, ShellPhases
  <2> QED BY <2>4, <2>6, <2>8 DEF ShellInv, ChildrenAhead
<1> QED BY <1>1, <1>3, <1>4, <1>5, <1>6, <1>7, <1>8 DEF ShellStep

\* Every step of the session keeps it.
LEMMA ShellInvKept ==
  ASSUME ShellInv, [Next]_vars
  PROVE  ShellInv'
<1>1. CASE UNCHANGED pyreVars
  BY <1>1 DEF ShellInv, LineOK, RingOK, LoopOK, ChildrenAhead, Unreaped, LastCmd,
              pyreVars, editVars, histVars, procVars
<1>2. ASSUME InstallerRuns \/ UserAnswers \/ UNCHANGED vars
      PROVE  UNCHANGED pyreVars
  BY <1>2 DEF InstallerRuns, UserAnswers, vars
<1>3. CASE ShellRuns
  BY <1>3, ShellKeeps DEF ShellRuns
<1>4. CASE UserKey
  BY <1>4, UserKeeps DEF UserKey
<1> QED BY <1>1, <1>2, <1>3, <1>4, ChildKeeps, Zenon DEF Next, System

\* The session starts without children.
LEMMA ShellInvInit ==
  ASSUME Init
  PROVE  ShellInv
<1>1. /\ rc \in RcFiles /\ phase = (IF rc = <<>> THEN "edit" ELSE "rc")
      /\ buf = <<>> /\ cur = 0 /\ offset = -1 /\ hist_idx = 0 /\ cmds = <<>> /\ idx = 1
      /\ history = [s \in 0 .. (MaxHistory - 1) |-> <<>>]
      /\ pids = [s \in Slots |-> Stale] /\ child = [s \in Slots |-> NoChild]
  BY DEF Init, PyreInit
<1>2. <<>> \in Seq(STRING) /\ Len(<<>>) = 0
  BY EmptySeq
<1>3. LineOK
  BY <1>1, <1>2 DEF LineOK
<1>4. RingOK
  BY <1>1, <1>2, HistoryAssumption DEF RingOK
<1>5. LoopOK
  BY <1>1, <1>2, TextAssumption DEF LoopOK, ShellPhases, NoChild
<1>6. Unreaped = {}
  BY <1>1 DEF Unreaped, NoChild
<1> QED BY <1>3, <1>4, <1>5, <1>6 DEF ShellInv, ChildrenAhead

(***************************************************************************)
(* For every number of commands in a line and every schedule: when the     *)
(* shell asks for the next line, no child of an earlier one is left, also  *)
(* after failed forks and empty commands.                                  *)
(***************************************************************************)
THEOREM NoChildLeftHolds == Spec => []NoChildLeft
<1>1. Init => ShellInv
  BY ShellInvInit
<1>2. ShellInv /\ [Next]_vars => ShellInv'
  BY ShellInvKept
<1>3. ShellInv => NoChildLeft
  BY NobodyToWaitFor DEF ShellInv, NoChildLeft
<1> QED BY <1>1, <1>2, <1>3, PTL DEF Spec

-----------------------------------------------------------------------------
(* The package managers of a session *)

\* A process in the middle of a copy is a child that runs phx.
CopierRuns ==
  /\ px = [p \in Procs |-> px[p]]
  /\ \A c \in Slots : px[c].pc = "copying" =>
        child[c].state = "run" /\ child[c].prog \in DOMAIN PhxCommands

\* A step of one process leaves the others where they are.
LEMMA OneProcess ==
  ASSUME px = [q \in Procs |-> px[q]], NEW p \in Procs, PhxStep(p) \/ Killed(p)
  PROVE  px' = [q \in Procs |-> px'[q]] /\ \A q \in Procs : q # p => px'[q] = px[q]
<1>1. CASE \/ Extract(p) \/ ExtractFails(p) \/ CopyFile(p) \/ CopyEnds(p) \/ CopyFails(p)
  BY <1>1 DEF Extract, ExtractFails, CopyFile, CopyEnds, CopyFails, End
<1>2. CASE Register(p) \/ Unregister(p) \/ DeleteFile(p) \/ DeleteDone(p) \/ Killed(p)
  BY <1>2 DEF Register, Unregister, DeleteFile, DeleteDone, Killed, End, Goto
<1>3. CASE db_truncate(p) \/ db_fill(p)
  <2>1. PICK how : End(p, how) \/ Goto(p, how)
    BY <1>3, Zenon DEF db_truncate, db_fill
  <2> QED BY <2>1 DEF End, Goto
<1> QED BY <1>1, <1>2, <1>3 DEF PhxStep

\* The children that run are left alone by the steps of the shell.
LEMMA RunnersStay ==
  ASSUME ShellInv, ShellStep \/ User, NEW c \in Slots, child[c].state = "run"
  PROVE  child'[c] = child[c]
<1>0. /\ DOMAIN child = Slots /\ ChildrenAhead /\ idx \in Nat /\ c \in Unreaped /\ c \in Nat
      /\ DOMAIN pids = Slots
  BY DEF ShellInv, LoopOK, Unreaped, Slots
<1>1. phase \notin {"edit", "rc", "logout"}
  BY <1>0 DEF ChildrenAhead
<1>2. ~User /\ ~source_file
  BY <1>1, Zenon DEF User, source_file, TypeWord, Backspace, MoveCursor, UpArrow, DownArrow, Editing,
                     Enter, CtrlC, CtrlD, AtPrompt
<1>3. CASE Fork
  <2>1. phase = "spawn" /\ \E r : child' = [child EXCEPT ![idx] = r]
    BY <1>3, Zenon DEF Fork, Spawning
  <2>2. c < idx
    BY <1>0, <2>1 DEF ChildrenAhead
  <2> QED BY <1>0, <2>1, <2>2
<1>4. CASE Wait
  <2>1. child' = child \/ \E s : child[s].state = "zombie" /\ child' = [child EXCEPT ![s].state = "reaped"]
    BY <1>4, Zenon DEF Wait
  <2> QED BY <1>0, <2>1
<1>5. CASE PipelineDone
  BY <1>0, <1>5 DEF PipelineDone
<1>6. CASE SkipEmpty \/ CloseEnds \/ StartWait
  BY <1>6 DEF SkipEmpty, CloseEnds, StartWait
<1> QED BY <1>2, <1>3, <1>4, <1>5, <1>6 DEF ShellStep

\* Every step keeps it.
LEMMA CopierKept ==
  ASSUME ShellInv, CopierRuns, [Next]_vars
  PROVE  CopierRuns'
<1>0. /\ Slots \subseteq Procs /\ px = [p \in Procs |-> px[p]]
      /\ DOMAIN child = Slots /\ child = [s \in Slots |-> child[s]]
  BY ProcsAssumption DEF CopierRuns, ShellInv, LoopOK
<1>1. CASE UNCHANGED <<px, child>>
  BY <1>1 DEF CopierRuns
<1>2. CASE ShellRuns \/ UserKey
  <2>1. UNCHANGED px /\ (ShellStep \/ User)
    BY <1>2 DEF ShellRuns, UserKey, phxVars
  <2> QED BY <2>1, RunnersStay DEF CopierRuns
<1>3. ASSUME NEW c \in Slots, NEW code, ChildEnds(c, code), px[c].pc # "copying", UNCHANGED px
      PROVE  CopierRuns'
  <2>1. \A s \in Slots : s # c => child'[s] = child[s]
    BY <1>0, <1>3 DEF ChildEnds
  <2> QED BY <1>3, <2>1 DEF CopierRuns
<1>4. ASSUME NEW c \in Slots, ChildStarts(c)
      PROVE  CopierRuns'
  <2>1. child[c].state = "forked" /\ px[c].pc # "copying"
    BY <1>4 DEF ChildStarts, ChildSetup, CopierRuns
  <2>2. \A s \in Slots : s # c => child'[s] = child[s]
    BY <1>0, <1>4 DEF ChildStarts, ChildSetup, ChildEnds
  <2>3. px' = px \/ \E cmd \in {"install", "remove"} \X Packages : px' = PhxStart(c, cmd[1], cmd[2])
    BY <1>4, CommandsAssumption, Zenon DEF ChildStarts
  <2>4. CASE px' = px
    BY <2>1, <2>2, <2>4 DEF CopierRuns
  <2>5. ASSUME NEW cmd \in {"install", "remove"} \X Packages, px' = PhxStart(c, cmd[1], cmd[2])
        PROVE  CopierRuns'
    <3>1. cmd[1] # "copying"
      OBVIOUS
    <3>2. /\ px' = [p \in Procs |-> px'[p]] /\ px'[c].pc = cmd[1]
          /\ \A s \in Slots : s # c => px'[s] = px[s]
      BY <1>0, <2>5 DEF PhxStart, Idle
    <3> QED BY <2>2, <3>1, <3>2 DEF CopierRuns
  <2> QED BY <2>3, <2>4, <2>5
<1>5. ASSUME NEW c \in Slots, PhxRuns(c) \/ PhxKilled(c)
      PROVE  CopierRuns'
  <2>1. /\ child' = child /\ child[c].state = "run" /\ child[c].prog \in DOMAIN PhxCommands
        /\ PhxStep(c) \/ Killed(c)
    BY <1>5 DEF PhxRuns, PhxKilled, Runs, pyreVars, procVars
  <2>2. px' = [p \in Procs |-> px'[p]] /\ \A s \in Slots : s # c => px'[s] = px[s]
    BY <1>0, <2>1, OneProcess
  <2> QED BY <2>1, <2>2 DEF CopierRuns
<1>6. ASSUME NEW c \in Slots, PhxEnds(c)
      PROVE  CopierRuns'
  <2>1. px' = [px EXCEPT ![c] = Idle] /\ \A s \in Slots : s # c => child'[s] = child[s]
    BY <1>0, <1>6 DEF PhxEnds, Exits, ChildEnds
  <2>2. /\ px' = [p \in Procs |-> px'[p]] /\ px'[c].pc = "idle"
        /\ \A s \in Slots : s # c => px'[s] = px[s]
    BY <1>0, <2>1 DEF Idle
  <2> QED BY <2>1, <2>2 DEF CopierRuns
<1>7. ASSUME NEW c \in Slots,
             WriteByte(c) \/ ReadByte(c) \/ GenEnds(c) \/ InstallerEnds(c) \/ TerminalEnds(c)
      PROVE  CopierRuns'
  <2>1. UNCHANGED px
    BY <1>7 DEF WriteByte, ReadByte, GenEnds, InstallerEnds, TerminalEnds, phxVars
  <2>2. child[c].prog \in {"gen", "cat", "install"}
    BY <1>7, Zenon DEF WriteByte, ReadByte, GenEnds, InstallerEnds, TerminalEnds, Runs
  <2>3. px[c].pc # "copying"
    BY <2>2, CommandsAssumption DEF CopierRuns
  <2>4. UNCHANGED pyreVars \/ \E code : ChildEnds(c, code)
    BY <1>7, Zenon DEF WriteByte, ReadByte, GenEnds, InstallerEnds, TerminalEnds, Exits
  <2>5. UNCHANGED pyreVars => UNCHANGED child
    BY DEF pyreVars, procVars
  <2> QED BY <1>1, <1>3, <2>1, <2>3, <2>4, <2>5
<1>8. ASSUME \/ InstallerRuns \/ UserAnswers \/ UNCHANGED vars
             \/ \E c \in Slots : InstallerStarts(c)
      PROVE  UNCHANGED <<px, child>>
  BY <1>8 DEF InstallerRuns, UserAnswers, InstallerStarts, vars, phxVars, pyreVars, procVars
<1> QED BY <1>1, <1>2, <1>4, <1>5, <1>6, <1>7, <1>8, Zenon DEF Next, System, ProgramRuns

\* Once written over each other is for ever, and other steps leave it alone.
LEMMA MixedStays ==
  ASSUME mixed, [Next]_vars
  PROVE  mixed'
<1>1. CASE UNCHANGED pkgVars
  BY <1>1 DEF pkgVars
<1>2. ASSUME NEW c \in Slots, PhxRuns(c) \/ PhxKilled(c)
      PROVE  mixed'
  BY <1>2 DEF PhxRuns, PhxKilled, PhxStep, Killed, Extract, ExtractFails, CopyFile, CopyEnds,
              CopyFails, Register, db_truncate, db_fill, Unregister, DeleteFile, DeleteDone, pkgVars
<1>3. ASSUME NEW c \in Slots,
             \/ ChildStarts(c) \/ PhxEnds(c) \/ WriteByte(c) \/ ReadByte(c) \/ GenEnds(c)
             \/ InstallerStarts(c) \/ InstallerEnds(c) \/ TerminalEnds(c)
      PROVE  UNCHANGED pkgVars
  BY <1>3 DEF ChildStarts, PhxEnds, WriteByte, ReadByte, GenEnds, InstallerStarts, InstallerEnds,
              TerminalEnds, phxVars
<1>4. ASSUME \/ ShellRuns \/ InstallerRuns \/ UserKey \/ UserAnswers \/ UNCHANGED vars
      PROVE  UNCHANGED pkgVars
  BY <1>4 DEF ShellRuns, InstallerRuns, UserKey, UserAnswers, vars, phxVars
<1> QED BY <1>1, <1>2, <1>3, <1>4, Zenon DEF Next, System, ProgramRuns

\* Every step of the session keeps what the package managers rely on.
LEMMA PhxInvKept ==
  ASSUME PhxInv, CopierRuns, [Next]_vars
  PROVE  PhxInv'
<1>0. Slots \subseteq Procs
  BY ProcsAssumption
<1> SUFFICES ASSUME PhxSound PROVE PhxInv'
  BY MixedStays DEF PhxInv
<1>1. CASE UNCHANGED phxVars
  BY <1>1 DEF phxVars, pkgVars, PhxInv, PhxSound, TornKnown
<1>2. ASSUME NEW c \in Slots, ChildStarts(c)
      PROVE  PhxInv'
  <2>1. CASE child'[c].prog \in DOMAIN PhxCommands
    <3> DEFINE cmd == PhxCommands[child'[c].prog]
    <3>1. cmd[1] \in {"install", "remove"} /\ cmd[2] \in Packages
      BY <2>1, CommandsAssumption
    <3>2. px' = PhxStart(c, cmd[1], cmd[2]) /\ UNCHANGED pkgVars
      BY <1>2, <2>1 DEF ChildStarts
    <3>3. px[c].pc # "copying"
      BY <1>2 DEF ChildStarts, ChildSetup, CopierRuns
    <3> HIDE DEF cmd
    <3> QED BY <1>0, <3>1, <3>2, <3>3, StartKeeps DEF PhxInv
  <2>2. CASE child'[c].prog \notin DOMAIN PhxCommands
    BY <1>1, <1>2, <2>2 DEF ChildStarts, phxVars
  <2> QED BY <2>1, <2>2
<1>3. ASSUME NEW c \in Slots, PhxRuns(c)
      PROVE  PhxInv'
  BY <1>0, <1>3, PhxStepKeeps DEF PhxRuns
<1>4. ASSUME NEW c \in Slots, PhxKilled(c) \/ PhxEnds(c)
      PROVE  PhxInv'
  <2>0. c \in Procs /\ db \in Databases /\ WholeIn(db, disk, removing)
    BY <1>0 DEF PhxSound
  <2>1. UNCHANGED <<disk, removing, torn>> /\ UNCHANGED db /\ CutShort(c)
    BY <1>4 DEF PhxKilled, Killed, PhxEnds, CutShort, At, pkgVars
  <2>2. \E how \in {"idle", "failed"} : px' = [px EXCEPT ![c] = [Idle EXCEPT !.pc = how]]
    BY <1>4 DEF PhxKilled, Killed, PhxEnds, End, Idle
  <2>3. db' \in Databases /\ WholeIn(db', disk, removing)
    BY <2>0, <2>1
  <2> QED BY <2>0, <2>1, <2>2, <2>3, EndKeeps DEF PhxInv
<1>5. ASSUME NEW c \in Slots,
             \/ WriteByte(c) \/ ReadByte(c) \/ GenEnds(c) \/ InstallerStarts(c)
             \/ InstallerEnds(c) \/ TerminalEnds(c)
      PROVE  UNCHANGED phxVars
  BY <1>5 DEF WriteByte, ReadByte, GenEnds, InstallerStarts, InstallerEnds, TerminalEnds
<1>6. ASSUME \/ ShellRuns \/ InstallerRuns \/ UserKey \/ UserAnswers \/ UNCHANGED vars
      PROVE  UNCHANGED phxVars
  BY <1>6 DEF ShellRuns, InstallerRuns, UserKey, UserAnswers, vars
<1> QED
  BY <1>1, <1>2, <1>3, <1>4, <1>5, <1>6, Zenon DEF Next, System, ProgramRuns

\* The session starts with the packages that were installed before.
LEMMA PhxInvInit ==
  ASSUME Init
  PROVE  PhxInv /\ CopierRuns
<1> DEFINE S == Packages \cap Installed
<1>1. /\ db = [x \in S |-> PkgFiles[x]] /\ removing = {} /\ cut = {} /\ torn = {}
      /\ disk = UNION {PkgFiles[x] : x \in Installed}
      /\ px = [p \in Procs |-> Idle]
  BY PhxAssumption DEF Init, PhxInit, Restricted
<1>2. db \in Databases
  <2>1. db \in [S -> Listing] /\ S \in SUBSET Packages
    BY <1>1, ArchiveFiles
  <2> HIDE DEF S
  <2> QED BY <2>1, DatabaseMade
<1>3. WholeIn(db, disk, removing)
  BY <1>1 DEF WholeIn
<1>4. Idle \in Process /\ Idle.pc = "idle" /\ Fits(Idle, disk, removing)
  <2>1. Idle = [Idle EXCEPT !.pc = "idle"]
    BY DEF Idle
  <2> QED BY <2>1, EndedState
<1>5. /\ px \in [Procs -> Process] /\ \A p \in Procs : px[p].pc = "idle" /\ Fits(px[p], disk, removing)
  BY <1>1, <1>4
<1>6. PhxInv
  BY <1>1, <1>2, <1>3, <1>5 DEF PhxInv, PhxSound, TornKnown
<1>7. CopierRuns
  BY <1>5, ProcsAssumption DEF CopierRuns
<1> QED BY <1>6, <1>7

(***************************************************************************)
(* However many phx processes install and remove at once, fail or are      *)
(* killed: a listed package that nobody began to remove has all its files, *)
(* and each is complete unless its copy was cut short or goes on, as long  *)
(* as no two processes have written the database over each other.          *)
(***************************************************************************)
THEOREM ListedPackagesWhole == Spec => []ListedIsWhole
<1>1. Init => ShellInv /\ PhxInv /\ CopierRuns
  BY ShellInvInit, PhxInvInit
<1>2. ShellInv /\ PhxInv /\ CopierRuns /\ [Next]_vars => (ShellInv /\ PhxInv /\ CopierRuns)'
  BY ShellInvKept, PhxInvKept, CopierKept
<1>3. PhxInv => ListedIsWhole
  <2> SUFFICES ASSUME PhxSound, NEW x \in DOMAIN db \ removing, NEW f \in db[x] \ {Stump}
               PROVE  /\ f \in disk
                      /\ \A p \in Procs : <<f, p>> \in torn =>
                            x \in cut \/ (At(p, "copying") /\ px[p].now = f)
    BY DEF PhxInv, ListedIsWhole
  <2>1. x \in Packages /\ f \in PkgFiles[x] /\ f \in disk /\ cut \in SUBSET Packages
    BY DatabaseEntry DEF PhxSound, WholeIn
  <2>2. InCut(f, cut) => x \in cut
    BY <2>1, PhxAssumption DEF InCut
  <2> QED BY <2>1, <2>2 DEF PhxSound, TornKnown, At
<1> QED BY <1>1, <1>2, <1>3, PTL DEF Spec

-----------------------------------------------------------------------------
(* The compiler: numbers, sequences and recursive functions *)

\* The least of a set of natural numbers.
LEMMA MinIn ==
  ASSUME NEW T \in SUBSET Nat, T # {}
  PROVE  Min(T) \in T /\ \A k \in T : Min(T) <= k
<1> DEFINE R == OpToRel(<, Nat)
<1>1. IsWellFoundedOn(R, Nat)
  BY NatLessThanWellFounded
<1> HIDE DEF R
<1>2. PICK m \in T : \A y \in T : ~ (<<y, m>> \in R)
  BY <1>1, WFMin
<1>3. \A x, y \in Nat : x < y => <<x, y>> \in R
  BY DEF R, OpToRel
<1>4. ASSUME NEW k \in T PROVE m <= k
  <2>1. m \in Nat /\ k \in Nat /\ ~(<<k, m>> \in R)
    BY <1>2
  <2>2. ~(k < m)
    BY <1>3, <2>1
  <2> QED BY <2>1, <2>2
<1>5. m \in T /\ \A k \in T : m <= k
  BY <1>4
<1> QED BY <1>5 DEF Min

\* The greatest of a set of natural numbers with a bound.
LEMMA MaxIn ==
  ASSUME NEW n \in Nat, NEW T \in SUBSET (0 .. n), T # {}
  PROVE  Max(T) \in T /\ \A k \in T : Max(T) >= k
<1> DEFINE U == {x \in 0 .. n : n - x \in T}
           m == Min(U)
<1>1. ASSUME NEW k \in T PROVE n - k \in U
  <2>1. k \in 0 .. n
    OBVIOUS
  <2>2. n - k \in 0 .. n /\ n - (n - k) = k
    BY <2>1
  <2> QED BY <2>2
<1>2. U \in SUBSET Nat /\ U # {}
  <2>1. 0 .. n \subseteq Nat
    OBVIOUS
  <2>2. PICK k \in T : TRUE
    OBVIOUS
  <2> QED BY <1>1, <2>1, <2>2
<1>3. m \in U /\ \A x \in U : m <= x
  BY <1>2, MinIn
<1>4. m \in 0 .. n /\ n - m \in T
  BY <1>3
<1> HIDE DEF m, U
<1>5. ASSUME NEW k \in T PROVE n - m >= k
  <2>1. m <= n - k /\ k \in 0 .. n
    BY <1>1, <1>3
  <2> QED BY <2>1, <1>4
<1>6. \E x \in T : \A k \in T : x >= k
  BY <1>4, <1>5
<1> QED BY <1>6 DEF Max

\* A set with 0 in it and the successor of each of its elements is Nat.
LEMMA NatSet ==
  ASSUME NEW S \in SUBSET Nat, 0 \in S, \A n \in S : n + 1 \in S
  PROVE  S = Nat
<1> SUFFICES ASSUME Nat \ S # {} PROVE FALSE
  OBVIOUS
<1> DEFINE m == Min(Nat \ S)
<1>1. m \in Nat \ S /\ \A k \in Nat \ S : m <= k
  BY MinIn
<1> HIDE DEF m
<1>2. m # 0 /\ m - 1 \in Nat
  BY <1>1
<1>3. m - 1 \in S
  BY <1>1, <1>2
<1> QED BY <1>1, <1>2, <1>3

\* There is a function over 0 .. n whose values follow from one another.
Follows(n, S, a, h) ==
  \E g \in [0 .. n -> S] : g[0] = a /\ \A i \in 1 .. n : g[i] = h[<<i, g[i - 1]>>]

\* A function given by its first value and a rule for the next exists.
LEMMA Primitive ==
  ASSUME NEW n \in Nat, NEW S, NEW a \in S, NEW h \in [(1 .. n) \X S -> S]
  PROVE  Follows(n, S, a, h)
<1> DEFINE Good(m) == \E g \in [0 .. m -> S] :
                        g[0] = a /\ \A i \in 1 .. m : g[i] = h[<<i, g[i - 1]>>]
           G == {m \in Nat : m > n \/ Good(m)}
<1>1. 0 \in G
  <2>1. [i \in 0 .. 0 |-> a] \in [0 .. 0 -> S]
    OBVIOUS
  <2>2. Good(0)
    <3> DEFINE g0 == [i \in 0 .. 0 |-> a]
    <3>1. g0 \in [0 .. 0 -> S] /\ g0[0] = a
      BY <2>1
    <3>2. \A i \in 1 .. 0 : g0[i] = h[<<i, g0[i - 1]>>]
      OBVIOUS
    <3> HIDE DEF g0
    <3> QED BY <3>1, <3>2
  <2> QED BY <2>2
<1>2. ASSUME NEW m \in G PROVE m + 1 \in G
  <2>1. m \in Nat
    OBVIOUS
  <2>2. CASE m + 1 > n
    BY <2>1, <2>2
  <2>3. CASE ~(m + 1 > n)
    <3>1. Good(m) /\ m + 1 \in 1 .. n
      BY <2>1, <2>3, <1>2
    <3>2. PICK g \in [0 .. m -> S] : g[0] = a /\ \A i \in 1 .. m : g[i] = h[<<i, g[i - 1]>>]
      BY <3>1
    <3> DEFINE f == [i \in 0 .. m + 1 |-> IF i = m + 1 THEN h[<<m + 1, g[m]>>] ELSE g[i]]
    <3>3. h[<<m + 1, g[m]>>] \in S
      BY <2>1, <3>1, <3>2
    <3>4. \A i \in 0 .. m + 1 : i = m + 1 \/ i \in 0 .. m
      BY <2>1
    <3>5. f \in [0 .. m + 1 -> S]
      BY <3>2, <3>3, <3>4
    <3>6. f[0] = a
      BY <2>1, <3>2
    <3>7. ASSUME NEW i \in 1 .. m + 1 PROVE f[i] = h[<<i, f[i - 1]>>]
      <4>1. CASE i = m + 1
        <5>1. f[m + 1] = h[<<m + 1, g[m]>>] /\ f[m] = g[m] /\ i - 1 = m
          BY <2>1, <4>1
        <5> QED BY <5>1, <4>1
      <4>2. CASE i # m + 1
        <5>1. i \in 1 .. m /\ i - 1 \in 0 .. m /\ i - 1 # m + 1
          BY <2>1, <4>2
        <5>2. f[i] = g[i] /\ f[i - 1] = g[i - 1]
          BY <2>1, <5>1, <4>2
        <5> QED BY <5>1, <5>2, <3>2
      <4> QED BY <4>1, <4>2
    <3> HIDE DEF f
    <3>8. Good(m + 1)
      BY <3>5, <3>6, <3>7
    <3> QED BY <3>8, <2>1
  <2> QED BY <2>2, <2>3
<1> HIDE DEF G
<1>3. G = Nat
  <2>1. G \in SUBSET Nat
    BY DEF G
  <2> QED BY <1>1, <1>2, <2>1, NatSet
<1>4. n > n \/ Good(n)
  <2>1. n \in G
    BY <1>3
  <2> HIDE DEF Good
  <2> QED BY <2>1 DEF G
<1>5. ~(n > n)
  OBVIOUS
<1> QED BY <1>4, <1>5 DEF Follows

-----------------------------------------------------------------------------
(* The compiler: where a token ends *)

Text == Seq(STRING \ {NUL})

\* Reading inside and outside of a source.
LEMMA SourceFacts ==
  ASSUME NEW s \in Text
  PROVE  /\ Len(s) \in Nat /\ DOMAIN s = 1 .. Len(s)
         /\ \A i \in 1 .. Len(s) : s[i] # NUL /\ peek(s, i) = s[i]
         /\ \A i : i \notin 1 .. Len(s) => peek(s, i) = NUL
         /\ \A i : peek(s, i) # NUL => i \in 1 .. Len(s) /\ s[i] = peek(s, i)
<1>1. Len(s) \in Nat /\ DOMAIN s = 1 .. Len(s)
  BY DEF Text
<1>2. \A i \in 1 .. Len(s) : s[i] \in STRING \ {NUL}
  BY DEF Text
<1> QED BY <1>1, <1>2 DEF peek

\* A run of characters.
LEMMA SpanFacts ==
  ASSUME NEW s \in Text, NEW p \in 1 .. (Len(s) + 1), NEW S, NUL \notin S
  PROVE  /\ SpanEnd(s, p, S) \in p .. (Len(s) + 1)
         /\ \A q \in p .. (SpanEnd(s, p, S) - 1) : q \in 1 .. Len(s) /\ s[q] \in S
         /\ peek(s, p) \in S => SpanEnd(s, p, S) \in (p + 1) .. (Len(s) + 1)
<1> DEFINE L == Len(s)
           T == {q \in p .. (L + 1) : peek(s, q) \notin S}
           e == SpanEnd(s, p, S)
<1>1. L \in Nat
  BY SourceFacts
<1>2. L + 1 \in T
  <2>1. peek(s, L + 1) = NUL
    BY <1>1, SourceFacts
  <2> QED BY <1>1, <2>1
<1>3. T \in SUBSET Nat
  BY <1>1
<1>4. e \in T /\ \A k \in T : e <= k
  BY <1>2, <1>3, MinIn DEF SpanEnd
<1> HIDE DEF e
<1>5. e \in p .. (L + 1) /\ peek(s, e) \notin S
  BY <1>4
<1>6. ASSUME NEW q \in p .. (e - 1) PROVE q \in 1 .. L /\ s[q] \in S
  <2>1. q \in p .. (L + 1) /\ ~(e <= q) /\ q \in 1 .. L
    BY <1>1, <1>5
  <2>2. peek(s, q) \in S
    BY <1>4, <2>1
  <2> QED BY <2>1, <2>2, SourceFacts
<1>7. peek(s, p) \in S => e \in (p + 1) .. (L + 1)
  BY <1>1, <1>5
<1> QED BY <1>5, <1>6, <1>7 DEF e

\* A comment to the end of the line.
LEMMA LineFacts ==
  ASSUME NEW s \in Text, NEW p \in 1 .. Len(s), s[p] # "\n"
  PROVE  /\ LineCommentEnd(s, p) \in (p + 1) .. (Len(s) + 1)
         /\ peek(s, LineCommentEnd(s, p)) \in {NUL, "\n"}
         /\ \A q \in p .. (LineCommentEnd(s, p) - 1) : peek(s, q) \notin {NUL, "\n"}
<1> DEFINE L == Len(s)
           T == {q \in p .. (L + 1) : peek(s, q) \in {NUL, "\n"}}
           e == LineCommentEnd(s, p)
<1>1. L \in Nat
  BY SourceFacts
<1>2. L + 1 \in T
  <2>1. peek(s, L + 1) = NUL
    BY <1>1, SourceFacts
  <2> QED BY <1>1, <2>1
<1>3. T \in SUBSET Nat
  BY <1>1
<1>4. e \in T /\ \A k \in T : e <= k
  BY <1>2, <1>3, MinIn DEF LineCommentEnd
<1> HIDE DEF e
<1>5. e \in p .. (L + 1) /\ peek(s, e) \in {NUL, "\n"}
  BY <1>4
<1>6. ASSUME NEW q \in p .. (e - 1) PROVE peek(s, q) \notin {NUL, "\n"}
  <2>1. q \in p .. (L + 1) /\ ~(e <= q)
    BY <1>1, <1>5
  <2> QED BY <1>4, <2>1
<1>7. peek(s, p) \notin {NUL, "\n"}
  BY SourceFacts
<1>8. e # p
  BY <1>5, <1>7
<1>9. e \in (p + 1) .. (L + 1)
  BY <1>1, <1>5, <1>8
<1> QED BY <1>5, <1>6, <1>9 DEF e

\* A comment to the next end of a comment.
Closes(s, q) == s[q] = "*" /\ s[q + 1] = "/"

\* Where a block comment ends: after the first closing pair, or short of the
\* file's end when there is none.
LEMMA BlockFacts ==
  ASSUME NEW s \in Text, NEW p \in 1 .. Len(s), p + 1 <= Len(s)
  PROVE  LET e == BlockCommentEnd(s, p)
         IN  /\ e \in (p + 2) .. (Len(s) + 1)
             /\ \/ \A q \in (p + 2) .. (Len(s) - 1) : ~Closes(s, q)
                \/ /\ e - 2 \in (p + 2) .. (Len(s) - 1) /\ Closes(s, e - 2)
                   /\ \A q \in (p + 2) .. (e - 3) : ~Closes(s, q)
<1> DEFINE L == Len(s)
           T == {q \in (p + 2) .. (L - 1) : s[q] = "*" /\ s[q + 1] = "/"}
           e == BlockCommentEnd(s, p)
<1>1. L \in Nat /\ p \in Nat
  BY SourceFacts
<1>2. CASE T = {}
  <2>1. e = Max({p + 2, L})
    BY <1>2 DEF BlockCommentEnd
  <2>2. e \in (p + 2) .. (L + 1)
    BY <1>1, <2>1, MaxOfTwo
  <2>3. \A q \in (p + 2) .. (L - 1) : ~Closes(s, q)
    BY <1>2 DEF Closes
  <2> QED BY <2>2, <2>3
<1>3. CASE T # {}
  <2> DEFINE m == Min(T)
  <2>1. T \in SUBSET Nat
    BY <1>1
  <2>2. m \in T /\ \A k \in T : m <= k
    BY <1>3, <2>1, MinIn
  <2>3. e = m + 2
    BY <1>3 DEF BlockCommentEnd
  <2> HIDE DEF m, e
  <2>4. m \in (p + 2) .. (L - 1) /\ Closes(s, m)
    BY <2>2 DEF Closes
  <2>5. ASSUME NEW q \in (p + 2) .. (e - 3) PROVE ~Closes(s, q)
    <3>1. q \in (p + 2) .. (L - 1) /\ ~(m <= q)
      BY <1>1, <2>3, <2>4
    <3> QED BY <2>2, <3>1 DEF Closes
  <2>6. e - 2 = m /\ e \in (p + 2) .. (L + 1)
    BY <1>1, <2>3, <2>4
  <2> QED BY <2>4, <2>5, <2>6 DEF e
<1> QED BY <1>2, <1>3

\* The rule by which a literal is scanned, one position from the next two.
QuotedRule(s, p, f) ==
  [q \in 1 .. (Len(s) + 1) |->
     IF q > Len(s) THEN q
     ELSE IF s[q] = "\\" THEN f[Min({q + 2, Len(s) + 1})]
     ELSE IF s[q] = s[p] THEN q + 1
     ELSE f[q + 1]]

\* There is a function that follows the rule.
LEMMA QuotedExists ==
  ASSUME NEW s \in Text, NEW p \in 1 .. Len(s)
  PROVE  \E f : f = QuotedRule(s, p, f)
<1> DEFINE L == Len(s)
           D == 1 .. (L + 1)
           S == D \X D
           h == [x \in (1 .. L) \X S |->
                  LET q == L + 1 - x[1]
                  IN  <<IF s[q] = "\\" THEN x[2][2]
                        ELSE IF s[q] = s[p] THEN q + 1 ELSE x[2][1], x[2][1]>>]
<1>1. L \in Nat
  BY SourceFacts
<1>2. <<L + 1, L + 1>> \in S
  BY <1>1
<1>3. h \in [(1 .. L) \X S -> S]
  <2> SUFFICES ASSUME NEW x \in (1 .. L) \X S PROVE h[x] \in S
    OBVIOUS
  <2>1. x[1] \in 1 .. L /\ x[2][1] \in D /\ x[2][2] \in D
    OBVIOUS
  <2>2. L + 1 - x[1] \in 1 .. L /\ L + 1 - x[1] + 1 \in D
    BY <1>1, <2>1
  <2> HIDE DEF D, L
  <2> QED BY <2>1, <2>2
<1> HIDE DEF S, h
<1>4. PICK g \in [0 .. L -> S] :
        g[0] = <<L + 1, L + 1>> /\ \A i \in 1 .. L : g[i] = h[<<i, g[i - 1]>>]
  <2> DEFINE a == <<L + 1, L + 1>>
  <2>1. a \in S
    BY <1>2
  <2> HIDE DEF a, L
  <2>2. Follows(L, S, a, h)
    BY <1>1, <1>3, <2>1, Primitive
  <2> QED BY <2>2 DEF a, Follows
<1> DEFINE f == [q \in D |-> g[L + 1 - q][1]]
<1>5. f[L + 1] = L + 1
  <2>1. L + 1 \in D /\ L + 1 - (L + 1) = 0
    BY <1>1
  <2> QED BY <2>1, <1>4
<1>6. ASSUME NEW q \in 1 .. L
      PROVE  /\ f[q] = IF s[q] = "\\" THEN g[L - q][2]
                       ELSE IF s[q] = s[p] THEN q + 1 ELSE g[L - q][1]
             /\ g[L + 1 - q][2] = g[L - q][1]
  <2> DEFINE i == L + 1 - q
  <2>1. i \in 1 .. L /\ i - 1 = L - q /\ i - 1 \in 0 .. L /\ L + 1 - i = q /\ q \in D
    BY <1>1
  <2>2. f[q] = g[i][1]
    BY <2>1
  <2>3. g[i] = h[<<i, g[i - 1]>>] /\ g[i - 1] \in S
    BY <1>4, <2>1
  <2> HIDE DEF i, f
  <2>4. h[<<i, g[i - 1]>>] = <<IF s[q] = "\\" THEN g[i - 1][2]
                               ELSE IF s[q] = s[p] THEN q + 1 ELSE g[i - 1][1], g[i - 1][1]>>
    BY <2>1, <2>3 DEF h
  <2> QED BY <2>1, <2>2, <2>3, <2>4 DEF i
<1>7. ASSUME NEW q \in D PROVE f[q] = QuotedRule(s, p, f)[q]
  <2>1. QuotedRule(s, p, f)[q] =
          IF q > L THEN q
          ELSE IF s[q] = "\\" THEN f[Min({q + 2, L + 1})]
          ELSE IF s[q] = s[p] THEN q + 1 ELSE f[q + 1]
    BY DEF QuotedRule
  <2>2. CASE q > L
    <3>1. q = L + 1
      BY <1>1, <2>2
    <3> QED BY <2>1, <2>2, <3>1, <1>5
  <2>3. CASE ~(q > L)
    <3>1. q \in 1 .. L /\ q + 1 \in D /\ L + 1 - (q + 1) = L - q
      BY <1>1, <2>3
    <3>2. f[q + 1] = g[L - q][1]
      BY <3>1
    <3>3. f[Min({q + 2, L + 1})] = g[L - q][2]
      <4>1. CASE q = L
        <5>1. Min({q + 2, L + 1}) = L + 1 /\ L - q = 0
          BY <1>1, <4>1, MinOfTwo
        <5> QED BY <5>1, <1>4, <1>5
      <4>2. CASE q # L
        <5>1. q + 1 \in 1 .. L /\ L - q = L + 1 - (q + 1) /\ q + 2 \in D
              /\ L - (q + 1) = L + 1 - (q + 2)
          BY <1>1, <3>1, <4>2
        <5>2. Min({q + 2, L + 1}) = q + 2
          BY <1>1, <3>1, <4>2, MinOfTwo
        <5>3. g[L - q][2] = g[L - (q + 1)][1]
          BY <1>6, <5>1
        <5>4. f[q + 2] = g[L + 1 - (q + 2)][1]
          BY <5>1
        <5> QED BY <5>1, <5>2, <5>3, <5>4
      <4> QED BY <4>1, <4>2
    <3> HIDE DEF f
    <3> QED BY <2>1, <2>3, <3>1, <3>2, <3>3, <1>6
  <2> QED BY <2>2, <2>3
<1>8. f = QuotedRule(s, p, f)
  <2>1. f = [q \in D |-> f[q]]
    OBVIOUS
  <2>2. QuotedRule(s, p, f) = [q \in D |-> QuotedRule(s, p, f)[q]]
    BY DEF QuotedRule
  <2> HIDE DEF f
  <2> QED BY <2>1, <2>2, <1>7
<1> QED BY <1>8

\* A literal ends where the function that follows the rule says.
LEMMA QuotedIs ==
  ASSUME NEW s \in Text, NEW p \in 1 .. Len(s)
  PROVE  \E f : f = QuotedRule(s, p, f) /\ QuotedEnd(s, p) = f[p + 1]
<1> DEFINE f == CHOOSE f : f = QuotedRule(s, p, f)
<1>1. f = QuotedRule(s, p, f)
  BY QuotedExists
<1>2. QuotedEnd(s, p) = f[p + 1]
  BY DEF QuotedEnd, QuotedRule
<1> HIDE DEF f
<1> QED BY <1>1, <1>2

\* A literal ends after its first character and within the source.
LEMMA QuotedEnds ==
  ASSUME NEW s \in Text, NEW p \in 1 .. Len(s)
  PROVE  QuotedEnd(s, p) \in (p + 1) .. (Len(s) + 1)
<1> DEFINE L == Len(s)
<1>1. L \in Nat
  BY SourceFacts
<1>2. PICK f : f = QuotedRule(s, p, f) /\ QuotedEnd(s, p) = f[p + 1]
  BY QuotedIs
<1> DEFINE Bad == {q \in 1 .. (L + 1) : f[q] \notin q .. (L + 1)}
<1>3. Bad = {}
  <2> SUFFICES ASSUME Bad # {} PROVE FALSE
    OBVIOUS
  <2> DEFINE q == Max(Bad)
  <2>1. Bad \in SUBSET (0 .. (L + 1)) /\ L + 1 \in Nat
    BY <1>1
  <2>2. q \in Bad /\ \A k \in Bad : q >= k
    BY <2>1, MaxIn
  <2> HIDE DEF q
  <2>3. q \in 1 .. (L + 1) /\ f[q] \notin q .. (L + 1)
    BY <2>2
  <2>4. ASSUME NEW k \in 1 .. (L + 1), k > q PROVE f[k] \in q .. (L + 1) /\ f[k] \in Nat
    <3>1. k \notin Bad
      BY <1>1, <2>2, <2>3, <2>4
    <3>2. f[k] \in k .. (L + 1)
      BY <3>1
    <3> QED BY <1>1, <2>3, <2>4, <3>2
  <2>5. f[q] = IF q > L THEN q
               ELSE IF s[q] = "\\" THEN f[Min({q + 2, L + 1})]
               ELSE IF s[q] = s[p] THEN q + 1 ELSE f[q + 1]
    <3>1. QuotedRule(s, p, f)[q] = IF q > L THEN q
               ELSE IF s[q] = "\\" THEN f[Min({q + 2, L + 1})]
               ELSE IF s[q] = s[p] THEN q + 1 ELSE f[q + 1]
      BY <2>3 DEF QuotedRule
    <3> QED BY <1>2, <3>1
  <2> HIDE DEF L, Bad
  <2>6. CASE q > L
    BY <1>1, <2>3, <2>5, <2>6
  <2>7. CASE ~(q > L)
    <3>1. q + 1 \in 1 .. (L + 1) /\ q + 1 > q
      BY <1>1, <2>3, <2>7
    <3>2. Min({q + 2, L + 1}) \in 1 .. (L + 1) /\ Min({q + 2, L + 1}) > q
      BY <1>1, <2>3, <2>7, MinOfTwo
    <3>3. f[q + 1] \in q .. (L + 1) /\ f[Min({q + 2, L + 1})] \in q .. (L + 1)
      BY <2>4, <3>1, <3>2
    <3>4. q + 1 \in q .. (L + 1)
      BY <1>1, <2>3, <2>7
    <3> QED BY <2>3, <2>5, <2>7, <3>3, <3>4
  <2> QED BY <2>6, <2>7
<1>4. p + 1 \in 1 .. (L + 1)
  BY <1>1
<1>5. f[p + 1] \in (p + 1) .. (L + 1)
  BY <1>3, <1>4
<1> QED BY <1>2, <1>5

NumChars == Digits \cup {"f", "x", ".", "u"}

\* A number ends after its first digit and within the source, and no
\* character of it opens a comment or a literal.
LEMMA NumberFacts ==
  ASSUME NEW s \in Text, NEW p \in 1 .. Len(s), s[p] \in Digits
  PROVE  /\ NumberEnd(s, p) \in (p + 1) .. (Len(s) + 1)
         /\ \A q \in p .. (NumberEnd(s, p) - 1) : q \in 1 .. Len(s) /\ s[q] \in NumChars
<1> DEFINE L == Len(s)
           e == NumberEnd(s, p)
<1>1. L \in Nat /\ p \in 1 .. (L + 1) /\ p \in Nat /\ p <= L
  BY SourceFacts
<1>2. /\ NUL \notin Digits /\ NUL \notin HexDigits /\ NUL \notin NumberSuffixes
      /\ Digits \subseteq NumChars /\ HexDigits \subseteq NumChars
      /\ NumberSuffixes \subseteq NumChars /\ "." \in NumChars /\ "x" \in NumChars
  BY DEF Digits, HexDigits, NumberSuffixes, NumChars, NUL
<1>3. peek(s, p) = s[p]
  BY SourceFacts
<1> HIDE DEF L
<1>4. CASE s[p] = "0" /\ peek(s, p + 1) = "x"
  <2>1. e = SpanEnd(s, p + 2, HexDigits)
    BY <1>4 DEF NumberEnd
  <2>2. p + 1 \in 1 .. L /\ s[p + 1] = "x"
    <3>1. "x" # NUL
      BY DEF NUL
    <3> QED BY <1>4, <3>1, SourceFacts DEF L
  <2>3. p + 2 \in 1 .. (L + 1)
    BY <1>1, <2>2
  <2>4. e \in (p + 2) .. (L + 1) /\ \A q \in (p + 2) .. (e - 1) : q \in 1 .. L /\ s[q] \in HexDigits
    BY <1>2, <2>1, <2>3, SpanFacts DEF L
  <2> HIDE DEF e
  <2>5. ASSUME NEW q \in p .. (e - 1) PROVE q \in 1 .. L /\ s[q] \in NumChars
    <3>1. q = p \/ q = p + 1 \/ q \in (p + 2) .. (e - 1)
      BY <1>1, <2>4
    <3> QED BY <1>1, <1>2, <2>2, <2>4, <3>1 DEF L
  <2>6. e \in (p + 1) .. (L + 1)
    BY <1>1, <2>4
  <2> QED BY <2>5, <2>6 DEF e, L
<1>5. CASE ~(s[p] = "0" /\ peek(s, p + 1) = "x")
  <2> DEFINE i == SpanEnd(s, p, Digits)
             fraction == peek(s, i) = "." /\ peek(s, i + 1) \in Digits
             j == IF fraction THEN SpanEnd(s, i + 1, Digits) ELSE i
  <2>1. e = SpanEnd(s, j, NumberSuffixes)
    BY <1>5 DEF NumberEnd
  <2>2. /\ i \in (p + 1) .. (L + 1)
        /\ \A q \in p .. (i - 1) : q \in 1 .. L /\ s[q] \in Digits
    BY <1>1, <1>2, <1>3, SpanFacts DEF L
  <2> HIDE DEF i, e
  <2>3. /\ j \in (p + 1) .. (L + 1)
        /\ \A q \in p .. (j - 1) : q \in 1 .. L /\ s[q] \in NumChars
    <3>1. CASE fraction
      <4>1. i \in 1 .. L /\ s[i] = "."
        <5>1. "." # NUL
          BY DEF NUL
        <5> QED BY <3>1, <5>1, SourceFacts DEF L
      <4>2. i + 1 \in 1 .. (L + 1)
        BY <1>1, <4>1
      <4>3. /\ j \in (i + 1) .. (L + 1)
            /\ \A q \in (i + 1) .. (j - 1) : q \in 1 .. L /\ s[q] \in Digits
        BY <1>2, <3>1, <4>2, SpanFacts DEF L
      <4> HIDE DEF j
      <4>4. ASSUME NEW q \in p .. (j - 1) PROVE q \in 1 .. L /\ s[q] \in NumChars
        <5>1. q \in p .. (i - 1) \/ q = i \/ q \in (i + 1) .. (j - 1)
          BY <1>1, <2>2, <4>3
        <5> QED BY <1>2, <2>2, <4>1, <4>3, <5>1
      <4>5. j \in (p + 1) .. (L + 1)
        BY <1>1, <2>2, <4>3
      <4> QED BY <4>4, <4>5
    <3>2. CASE ~fraction
      BY <1>2, <2>2, <3>2
    <3> QED BY <3>1, <3>2
  <2> HIDE DEF j
  <2>4. j \in 1 .. (L + 1)
    BY <1>1, <2>3
  <2>5. /\ e \in j .. (L + 1)
        /\ \A q \in j .. (e - 1) : q \in 1 .. L /\ s[q] \in NumberSuffixes
    BY <1>2, <2>1, <2>4, SpanFacts DEF L
  <2>6. ASSUME NEW q \in p .. (e - 1) PROVE q \in 1 .. L /\ s[q] \in NumChars
    <3>1. q \in p .. (j - 1) \/ q \in j .. (e - 1)
      BY <1>1, <2>3, <2>5
    <3> QED BY <1>2, <2>3, <2>5, <3>1
  <2>7. e \in (p + 1) .. (L + 1)
    BY <1>1, <2>3, <2>5
  <2> QED BY <2>6, <2>7 DEF e, L
<1> QED BY <1>4, <1>5

Is(t, e) == [type |-> t, end |-> e]

\* The cases of the lexer, one after the other.
LEMMA ScanCases ==
  ASSUME NEW s, NEW p
  PROVE  LET c == s[p]
             d == peek(s, p + 1)
             t == Scan(s, p)
         IN  \/ c \in Blanks /\ t = Is("space", SpanEnd(s, p, Blanks))
             \/ c = "\n" /\ t = Is("newline", p + 1)
             \/ c = "/" /\ d = "/" /\ t = Is("line", LineCommentEnd(s, p))
             \/ c = "/" /\ d = "*" /\ t = Is("block", BlockCommentEnd(s, p))
             \/ c = "\"" /\ t = Is("string", QuotedEnd(s, p))
             \/ c = "'" /\ t = Is("char", QuotedEnd(s, p))
             \/ c \in Digits /\ t = Is("number", NumberEnd(s, p))
             \/ c \in Idents /\ t = Is("word", SpanEnd(s, p, Idents \cup Digits))
             \/ c = "." /\ d = "." /\ peek(s, p + 2) = "=" /\ t = Is("dotdoteq", p + 3)
             \/ c = "." /\ d = "." /\ t = Is("dotdot", p + 2)
             \/ c = "-" /\ d = ">" /\ t = Is("arrow", p + 2)
             \/ <<c, d>> \in PairOps /\ t = Is("op", p + 2)
             \/ /\ c \notin Blanks \cup {"\n", "\"", "'"} \cup Digits \cup Idents
                /\ ~(c = "/" /\ d \in {"/", "*"})
                /\ t = Is("punct", p + 1)
<1> DEFINE c == s[p]
           d == peek(s, p + 1)
           t == Scan(s, p)
<1>0. /\ \A x \in Idents : x \notin Blanks \cup {"\n", "/", "\"", "'", ".", "-"} \cup Digits
      /\ \A x \in Digits : x \notin Blanks \cup {"\n", "/", "\"", "'", ".", "-"}
      /\ \A x \in Blanks : x \notin {"\n", "/", "\"", "'", ".", "-"}
  BY DEF Blanks, Digits, Idents, Keywords, TypeNames
<1>00. ASSUME <<c, d>> \in PairOps
       PROVE  /\ c \notin Blanks \cup {"\n", "\"", "'", "."} \cup Digits \cup Idents
              /\ ~(c = "/" /\ d \in {"/", "*"})
  <2>1. c \in {"-", "=", "!", "<", ">", "&", "|", "+", "*", "/", "%", "^"} /\ d \notin {"/", "*"}
    BY <1>00 DEF PairOps
  <2> QED BY <2>1 DEF Blanks, Digits, Idents, Keywords, TypeNames
<1>1. CASE c \in Blanks
  BY <1>0, <1>00, <1>1 DEF Scan, Is
<1>2. CASE c = "\n"
  BY <1>0, <1>00, <1>2 DEF Scan, Is
<1>3. CASE c = "/" /\ d = "/"
  BY <1>0, <1>00, <1>3 DEF Scan, Is
<1>4. CASE c = "/" /\ d = "*"
  BY <1>0, <1>00, <1>4 DEF Scan, Is
<1>5. CASE c = "\""
  BY <1>0, <1>00, <1>5 DEF Scan, Is
<1>6. CASE c = "'"
  BY <1>0, <1>00, <1>6 DEF Scan, Is
<1>7. CASE c \in Digits
  BY <1>0, <1>00, <1>7 DEF Scan, Is
<1>8. CASE c \in Idents
  BY <1>0, <1>00, <1>8 DEF Scan, Is
<1>9. CASE c = "." /\ d = "."
  BY <1>0, <1>00, <1>9 DEF Scan, Is
<1>10. CASE c = "-" /\ d = ">"
  BY <1>0, <1>00, <1>10 DEF Scan, Is
<1>11. CASE /\ c \notin Blanks \cup {"\n", "\"", "'"} \cup Digits \cup Idents
            /\ ~(c = "/" /\ d \in {"/", "*"})
            /\ ~(c = "." /\ d = ".") /\ ~(c = "-" /\ d = ">")
  BY <1>11 DEF Scan, Is
<1> QED
  BY <1>1, <1>2, <1>3, <1>4, <1>5, <1>6, <1>7, <1>8, <1>9, <1>10, <1>11

Literal == {"line", "block", "string", "char"}

TokenTypes == Literal \cup {"space", "newline", "number", "word", "dotdot", "dotdoteq",
                            "arrow", "op", "punct"}

\* Nothing opens at this character.
Plain(s, q) == s[q] \notin {"\"", "'"} /\ ~(s[q] = "/" /\ peek(s, q + 1) \in {"/", "*"})

\* What the token from p up to e is: its kind, its length, its characters.
ScanFact(s, p, ty, e) ==
  /\ ty \in TokenTypes
  /\ e \in (p + 1) .. (Len(s) + 1)
  /\ ty \notin Literal => \A q \in p .. (e - 1) : Plain(s, q)
  /\ s[p] \in DOMAIN TypeNames => \A q \in p .. (e - 1) : s[q] \notin Blanks
  /\ ty = "line" => s[p] = "/" /\ peek(s, p + 1) = "/" /\ e = LineCommentEnd(s, p)
  /\ ty = "block" => s[p] = "/" /\ peek(s, p + 1) = "*" /\ e = BlockCommentEnd(s, p)
  /\ ty = "string" => s[p] = "\"" /\ e = QuotedEnd(s, p)
  /\ ty = "char" => s[p] = "'" /\ e = QuotedEnd(s, p)

\* What lexer_next gives is a token of one of these kinds.
LEMMA ScanFacts ==
  ASSUME NEW s \in Text, NEW p \in 1 .. Len(s)
  PROVE  /\ Scan(s, p) = Is(Scan(s, p).type, Scan(s, p).end)
         /\ ScanFact(s, p, Scan(s, p).type, Scan(s, p).end)
<1> DEFINE L == Len(s)
           c == s[p]
           d == peek(s, p + 1)
<1>1. L \in Nat /\ p \in 1 .. (L + 1) /\ p \in Nat /\ p <= L /\ p + 1 \in (p + 1) .. (L + 1)
      /\ peek(s, p) = s[p]
  BY SourceFacts
<1>2. /\ NUL \notin Blanks /\ NUL \notin Idents \cup Digits
      /\ \A x \in Blanks \cup Idents \cup Digits \cup NumChars : x \notin {"\"", "'", "/"}
      /\ \A x \in Idents \cup Digits : x \notin Blanks
      /\ DOMAIN TypeNames \subseteq Idents
      /\ \A x \in Idents : x \notin Blanks \cup Digits \cup {"\n", "/", "\"", "'", ".", "-"}
  BY DEF Blanks, Idents, Digits, NumChars, Keywords, TypeNames, NUL
<1>3. ASSUME NEW x, x # NUL, d = x PROVE p + 1 \in 1 .. L /\ s[p + 1] = x
  BY <1>3, SourceFacts
<1>4. p + 1 \in 1 .. L => p + 2 \in (p + 1) .. (L + 1)
  BY <1>1
<1>5. \A q \in p .. p : q = p
  BY <1>1
<1>6. \A q \in p .. (p + 1) : q = p \/ q = p + 1
  BY <1>1
<1>7. p + 1 - 1 = p /\ p + 2 - 1 = p + 1 /\ p + 3 - 1 = p + 2 /\ p + 1 + 1 = p + 2
  BY <1>1
<1>8. ASSUME c \in Blanks
      PROVE  ScanFact(s, p, "space", SpanEnd(s, p, Blanks))
  <2> DEFINE e == SpanEnd(s, p, Blanks)
  <2>1. e \in (p + 1) .. (L + 1) /\ \A q \in p .. (e - 1) : s[q] \in Blanks
    <3>1. peek(s, p) \in Blanks
      BY <1>1, <1>8
    <3> QED BY <1>1, <1>2, <3>1, SpanFacts
  <2>2. \A q \in p .. (e - 1) : Plain(s, q)
    BY <1>2, <2>1 DEF Plain
  <2> HIDE DEF e
  <2>3. ScanFact(s, p, "space", e)
    BY <1>2, <1>8, <2>1, <2>2 DEF ScanFact, TokenTypes, Literal
  <2> QED BY <2>3 DEF e
<1>9. ASSUME c = "\n"
      PROVE  ScanFact(s, p, "newline", p + 1)
  <2>1. Plain(s, p) /\ c \notin DOMAIN TypeNames
    BY <1>2, <1>9 DEF Plain
  <2> QED BY <1>1, <1>5, <1>7, <2>1 DEF ScanFact, TokenTypes, Literal
<1>10. ASSUME c = "/" /\ d = "/"
       PROVE  ScanFact(s, p, "line", LineCommentEnd(s, p))
  <2>1. LineCommentEnd(s, p) \in (p + 1) .. (L + 1)
    BY <1>10, LineFacts
  <2> QED BY <1>2, <1>10, <2>1 DEF ScanFact, TokenTypes, Literal
<1>11. ASSUME c = "/" /\ d = "*"
       PROVE  ScanFact(s, p, "block", BlockCommentEnd(s, p))
  <2>1. p + 1 \in 1 .. L
    BY <1>3, <1>11 DEF NUL
  <2>2. BlockCommentEnd(s, p) \in (p + 2) .. (L + 1)
    BY <1>1, <1>11, <2>1, BlockFacts
  <2>3. BlockCommentEnd(s, p) \in (p + 1) .. (L + 1)
    BY <1>1, <2>2
  <2> QED BY <1>2, <1>11, <2>3 DEF ScanFact, TokenTypes, Literal
<1>12. ASSUME c = "\""
       PROVE  ScanFact(s, p, "string", QuotedEnd(s, p))
  BY <1>2, <1>12, QuotedEnds DEF ScanFact, TokenTypes, Literal
<1>13. ASSUME c = "'"
       PROVE  ScanFact(s, p, "char", QuotedEnd(s, p))
  BY <1>2, <1>13, QuotedEnds DEF ScanFact, TokenTypes, Literal
<1>14. ASSUME c \in Digits
       PROVE  ScanFact(s, p, "number", NumberEnd(s, p))
  <2> DEFINE e == NumberEnd(s, p)
  <2>1. e \in (p + 1) .. (L + 1) /\ \A q \in p .. (e - 1) : s[q] \in NumChars
    BY <1>14, NumberFacts
  <2>2. \A q \in p .. (e - 1) : Plain(s, q)
    BY <1>2, <2>1 DEF Plain
  <2> HIDE DEF e
  <2>3. ScanFact(s, p, "number", e)
    BY <1>2, <1>14, <2>1, <2>2 DEF ScanFact, TokenTypes, Literal
  <2> QED BY <2>3 DEF e
<1>15. ASSUME c \in Idents
       PROVE  ScanFact(s, p, "word", SpanEnd(s, p, Idents \cup Digits))
  <2> DEFINE S == Idents \cup Digits
             e == SpanEnd(s, p, S)
  <2>1. peek(s, p) \in S /\ NUL \notin S
    BY <1>1, <1>2, <1>15
  <2> HIDE DEF S
  <2>2. e \in (p + 1) .. (L + 1) /\ \A q \in p .. (e - 1) : s[q] \in S
    BY <1>1, <2>1, SpanFacts
  <2> HIDE DEF e
  <2>3. \A q \in p .. (e - 1) : Plain(s, q) /\ s[q] \notin Blanks
    BY <1>2, <2>2 DEF Plain, S
  <2>4. ScanFact(s, p, "word", e)
    BY <2>2, <2>3 DEF ScanFact, TokenTypes, Literal
  <2> QED BY <2>4 DEF e, S
<1>16. ASSUME c = "." /\ d = "." /\ peek(s, p + 2) = "="
       PROVE  ScanFact(s, p, "dotdoteq", p + 3)
  <2>1. p + 2 \in 1 .. L /\ s[p + 2] = "=" /\ s[p + 1] = "."
    BY <1>3, <1>16, SourceFacts DEF NUL
  <2>2. p + 3 \in (p + 1) .. (L + 1) /\ \A q \in p .. (p + 2) : q = p \/ q = p + 1 \/ q = p + 2
    BY <1>1, <2>1
  <2>3. Plain(s, p) /\ Plain(s, p + 1) /\ Plain(s, p + 2) /\ c \notin DOMAIN TypeNames
    BY <1>2, <1>16, <2>1 DEF Plain
  <2> QED BY <1>7, <2>2, <2>3 DEF ScanFact, TokenTypes, Literal
<1>17. ASSUME NEW ty \in {"dotdot", "arrow", "op"},
              c \notin DOMAIN TypeNames, d \notin {NUL, "\"", "'", "/"}, Plain(s, p)
       PROVE  ScanFact(s, p, ty, p + 2)
  <2>1. p + 1 \in 1 .. L /\ s[p + 1] = d
    <3> HIDE DEF d
    <3> QED BY <1>3, <1>17
  <2>2. Plain(s, p + 1)
    BY <1>17, <2>1 DEF Plain
  <2>3. p + 2 \in (p + 1) .. (L + 1) /\ \A q \in p .. (p + 2 - 1) : Plain(s, q)
    BY <1>4, <1>6, <1>7, <1>17, <2>1, <2>2
  <2>4. ty \in TokenTypes /\ ty \notin Literal
    BY <1>17 DEF TokenTypes, Literal
  <2>5. ty # "line" /\ ty # "block" /\ ty # "string" /\ ty # "char"
    BY <2>4 DEF Literal
  <2> DEFINE e == p + 2
  <2>6. e \in (p + 1) .. (L + 1) /\ \A q \in p .. (e - 1) : Plain(s, q)
    BY <2>3
  <2> HIDE DEF e, d
  <2>7. ScanFact(s, p, ty, e)
    BY <1>17, <2>4, <2>5, <2>6 DEF ScanFact
  <2> QED BY <2>7 DEF e
<1>18. ASSUME c = "." /\ d = "."
       PROVE  ScanFact(s, p, "dotdot", p + 2)
  <2>1. c \notin DOMAIN TypeNames /\ d \notin {NUL, "\"", "'", "/"} /\ Plain(s, p)
    BY <1>2, <1>18 DEF Plain, NUL
  <2> HIDE DEF d, c
  <2> QED BY <1>17, <2>1
<1>19. ASSUME c = "-" /\ d = ">"
       PROVE  ScanFact(s, p, "arrow", p + 2)
  <2>1. c \notin DOMAIN TypeNames /\ d \notin {NUL, "\"", "'", "/"} /\ Plain(s, p)
    BY <1>2, <1>19 DEF Plain, NUL
  <2> HIDE DEF d, c
  <2> QED BY <1>17, <2>1
<1>20. ASSUME <<c, d>> \in PairOps
       PROVE  ScanFact(s, p, "op", p + 2)
  <2>1. c \in {"-", "=", "!", "<", ">", "&", "|", "+", "*", "/", "%", "^"}
        /\ d \in {">", "=", "&", "|", "<", "+", "-"}
    BY <1>20 DEF PairOps
  <2>2. d \notin {NUL, "\"", "'", "/", "*"} /\ c \notin {"\"", "'"}
    BY <2>1 DEF NUL
  <2>3. c \notin DOMAIN TypeNames
    BY <2>1 DEF TypeNames
  <2>4. Plain(s, p)
    BY <2>2 DEF Plain
  <2> HIDE DEF d, c
  <2> QED BY <1>17, <2>2, <2>3, <2>4
<1>21. ASSUME c \notin Blanks \cup {"\n", "\"", "'"} \cup Digits \cup Idents,
              ~(c = "/" /\ d \in {"/", "*"})
       PROVE  ScanFact(s, p, "punct", p + 1)
  <2>1. Plain(s, p) /\ c \notin DOMAIN TypeNames
    BY <1>2, <1>21 DEF Plain
  <2> QED BY <1>1, <1>5, <1>7, <2>1 DEF ScanFact, TokenTypes, Literal
<1>22. \E ty, e : Scan(s, p) = Is(ty, e) /\ ScanFact(s, p, ty, e)
  <2> DEFINE t == Scan(s, p)
  <2>1. \/ c \in Blanks /\ t = Is("space", SpanEnd(s, p, Blanks))
        \/ c = "\n" /\ t = Is("newline", p + 1)
        \/ c = "/" /\ d = "/" /\ t = Is("line", LineCommentEnd(s, p))
        \/ c = "/" /\ d = "*" /\ t = Is("block", BlockCommentEnd(s, p))
        \/ c = "\"" /\ t = Is("string", QuotedEnd(s, p))
        \/ c = "'" /\ t = Is("char", QuotedEnd(s, p))
        \/ c \in Digits /\ t = Is("number", NumberEnd(s, p))
        \/ c \in Idents /\ t = Is("word", SpanEnd(s, p, Idents \cup Digits))
        \/ c = "." /\ d = "." /\ peek(s, p + 2) = "=" /\ t = Is("dotdoteq", p + 3)
        \/ c = "." /\ d = "." /\ t = Is("dotdot", p + 2)
        \/ c = "-" /\ d = ">" /\ t = Is("arrow", p + 2)
        \/ <<c, d>> \in PairOps /\ t = Is("op", p + 2)
        \/ /\ c \notin Blanks \cup {"\n", "\"", "'"} \cup Digits \cup Idents
           /\ ~(c = "/" /\ d \in {"/", "*"})
           /\ t = Is("punct", p + 1)
    BY ScanCases
  <2> HIDE DEF c, d
  <2>3. CASE c \in Blanks /\ t = Is("space", SpanEnd(s, p, Blanks))
    BY <1>8, <2>3
  <2>4. CASE c = "\n" /\ t = Is("newline", p + 1)
    BY <1>9, <2>4
  <2>5. CASE c = "/" /\ d = "/" /\ t = Is("line", LineCommentEnd(s, p))
    BY <1>10, <2>5
  <2>6. CASE c = "/" /\ d = "*" /\ t = Is("block", BlockCommentEnd(s, p))
    BY <1>11, <2>6
  <2>7. CASE c = "\"" /\ t = Is("string", QuotedEnd(s, p))
    BY <1>12, <2>7
  <2>8. CASE c = "'" /\ t = Is("char", QuotedEnd(s, p))
    BY <1>13, <2>8
  <2>9. CASE c \in Digits /\ t = Is("number", NumberEnd(s, p))
    BY <1>14, <2>9
  <2>10. CASE c \in Idents /\ t = Is("word", SpanEnd(s, p, Idents \cup Digits))
    BY <1>15, <2>10
  <2>11. CASE c = "." /\ d = "." /\ peek(s, p + 2) = "=" /\ t = Is("dotdoteq", p + 3)
    BY <1>16, <2>11
  <2>12. CASE c = "." /\ d = "." /\ t = Is("dotdot", p + 2)
    BY <1>18, <2>12
  <2>13. CASE c = "-" /\ d = ">" /\ t = Is("arrow", p + 2)
    BY <1>19, <2>13
  <2>14. CASE <<c, d>> \in PairOps /\ t = Is("op", p + 2)
    BY <1>20, <2>14
  <2>15. CASE /\ c \notin Blanks \cup {"\n", "\"", "'"} \cup Digits \cup Idents
              /\ ~(c = "/" /\ d \in {"/", "*"})
              /\ t = Is("punct", p + 1)
    BY <1>21, <2>15
  <2> QED
    BY <2>1, <2>3, <2>4, <2>5, <2>6, <2>7, <2>8, <2>9, <2>10, <2>11, <2>12, <2>13, <2>14,
       <2>15, Zenon
<1> QED BY <1>22 DEF Is

-----------------------------------------------------------------------------
(* The compiler: texts and their blanks *)

\* The C names of the types.
CNames == {"int8_t", "int16_t", "int32_t", "int64_t", "uint8_t", "uint16_t", "uint32_t",
           "uint64_t", "float", "double", "size_t", "ssize_t", "char", "*"}

\* What the translator writes itself.  (These are strings; the provers do not
\* know of a literal that it is one.)
Written == CNames \cup
           {"fn", " ", "void", "#include", "/*", "use", "*/", "const", "NULL", "while",
            " (", "1", ")", "for", "int ", " = ", "; ", " <= ", " < ", "++"}

Fragment == STRING \cup Written

Strings == Seq(Fragment)

\* The blanks at the end go, and nothing else.
LEMMA StripFacts ==
  ASSUME NEW y \in Strings
  PROVE  \E m \in 0 .. Len(y) :
           /\ Strip(y) = SubSeq(y, 1, m)
           /\ Strip(y) \in Strings /\ Len(Strip(y)) = m
           /\ \A k \in 1 .. m : Strip(y)[k] = y[k]
           /\ m > 0 => y[m] \notin Blanks
           /\ \A k \in 1 .. Len(y) : k > m => y[k] \in Blanks
<1> DEFINE K == {k \in DOMAIN y : y[k] \notin Blanks}
           T == {0} \cup K
           m == Max(T)
<1>1. Len(y) \in Nat /\ DOMAIN y = 1 .. Len(y) /\ y \in Seq(Fragment)
  BY DEF Strings
<1>2. T \in SUBSET (0 .. Len(y))
  BY <1>1
<1>3. m \in T /\ \A k \in T : m >= k
  BY <1>1, <1>2, MaxIn
<1>4. Strip(y) = SubSeq(y, 1, m)
  BY DEF Strip
<1> HIDE DEF m
<1>5. m \in 0 .. Len(y) /\ (m > 0 => m \in K)
  BY <1>1, <1>2, <1>3
<1>6. /\ SubSeq(y, 1, m) \in Seq(Fragment)
      /\ Len(SubSeq(y, 1, m)) = m
      /\ \A k \in 1 .. m : SubSeq(y, 1, m)[k] = y[k]
  BY <1>1, <1>5
<1>7. ASSUME NEW k \in 1 .. Len(y), k > m PROVE y[k] \in Blanks
  <2>1. k \notin K
    BY <1>1, <1>3, <1>5, <1>7
  <2> QED BY <1>1, <2>1
<1> QED BY <1>4, <1>5, <1>6, <1>7 DEF Strings

\* A text without blanks, or one that ends in another fragment, stays.
LEMMA StripSame ==
  ASSUME NEW y \in Strings, Len(y) = 0 \/ y[Len(y)] \notin Blanks
  PROVE  Strip(y) = y
<1>1. PICK m \in 0 .. Len(y) :
           /\ Strip(y) \in Strings /\ Len(Strip(y)) = m
           /\ \A k \in 1 .. m : Strip(y)[k] = y[k]
           /\ \A k \in 1 .. Len(y) : k > m => y[k] \in Blanks
  BY StripFacts
<1>2. Len(y) \in Nat /\ y \in Seq(Fragment) /\ Strip(y) \in Seq(Fragment)
  BY <1>1 DEF Strings
<1>3. m = Len(y)
  BY <1>1, <1>2
<1> QED BY <1>1, <1>2, <1>3, SeqEqual

\* Removing the blanks at the end twice is removing them once.
LEMMA StripTwice ==
  ASSUME NEW y \in Strings
  PROVE  Strip(y) \in Strings /\ Strip(Strip(y)) = Strip(y)
<1>1. PICK m \in 0 .. Len(y) :
           /\ Strip(y) \in Strings /\ Len(Strip(y)) = m
           /\ \A k \in 1 .. m : Strip(y)[k] = y[k]
           /\ m > 0 => y[m] \notin Blanks
  BY StripFacts
<1>2. Len(y) \in Nat
  BY DEF Strings
<1>3. m = 0 \/ Strip(y)[m] \notin Blanks
  BY <1>1, <1>2
<1> QED BY <1>1, <1>3, StripSame

-----------------------------------------------------------------------------
(* The compiler: a text under its S name and under its C name *)

Same(t) == Strip(Mapped([type |-> "word", text |-> t]))

Alias(y) == Len(y) = 1 /\ y[1] \in DOMAIN TypeNames

\* A name of a type is a fragment of its own.
Apart(y) == Len(y) > 0 /\ y[1] \in DOMAIN TypeNames => \A k \in 1 .. Len(y) : y[k] \notin Blanks

\* A C name of a type is no S name, and ends in no blank.
LEMMA TypeFacts ==
  ASSUME NEW a \in DOMAIN TypeNames
  PROVE  /\ TypeNames[a] \in Strings /\ Len(TypeNames[a]) \in 1 .. 2 /\ ~Alias(TypeNames[a])
         /\ \A k \in 1 .. Len(TypeNames[a]) : TypeNames[a][k] \notin Blanks
         /\ TypeNames[a][1] \notin DOMAIN TypeNames
<1>1. \/ TypeNames[a] = <<"char", "*">>
      \/ \E x \in CNames : TypeNames[a] = <<x>>
  BY DEF TypeNames, CNames
<1>2. ASSUME NEW x \in CNames
      PROVE  x \notin DOMAIN TypeNames /\ x \notin Blanks /\ x \in Fragment
  <2>1. DOMAIN TypeNames = {"i8", "i16", "i32", "i64", "u8", "u16", "u32", "u64", "f32", "f64",
                            "str", "byte", "usize", "isize"}
    BY DEF TypeNames
  <2>2. x \in Fragment
    BY DEF Fragment, Written
  <2> QED BY <2>1, <2>2 DEF Blanks, CNames
<1>3. CASE TypeNames[a] = <<"char", "*">>
  <2>1. "char" \in CNames /\ "*" \in CNames
    BY DEF CNames
  <2>2. "char" \in Fragment /\ "*" \in Fragment
    BY <1>2, <2>1
  <2>3. <<"char", "*">> \in Seq(Fragment)
    BY <2>2
  <2> QED BY <1>2, <1>3, <2>1, <2>3 DEF Alias, Strings
<1>4. ASSUME NEW x, x \notin DOMAIN TypeNames, x \notin Blanks, x \in Fragment, TypeNames[a] = <<x>>
      PROVE  /\ TypeNames[a] \in Strings /\ Len(TypeNames[a]) \in 1 .. 2 /\ ~Alias(TypeNames[a])
             /\ \A k \in 1 .. Len(TypeNames[a]) : TypeNames[a][k] \notin Blanks
             /\ TypeNames[a][1] \notin DOMAIN TypeNames
  <2> DEFINE y == <<x>>
  <2>1. y \in Seq(Fragment) /\ Len(y) = 1 /\ y[1] = x
    BY <1>4
  <2>2. \A k \in 1 .. 1 : k = 1
    OBVIOUS
  <2> HIDE DEF y
  <2>3. /\ y \in Strings /\ Len(y) \in 1 .. 2 /\ ~Alias(y) /\ y[1] \notin DOMAIN TypeNames
        /\ \A k \in 1 .. Len(y) : y[k] \notin Blanks
    BY <1>4, <2>1, <2>2 DEF Alias, Strings
  <2> QED BY <1>4, <2>3 DEF y
<1> QED BY <1>1, <1>2, <1>3, <1>4

\* What NothingLost compares, unfolded.
LEMMA SameIs ==
  ASSUME NEW y
  PROVE  /\ Alias(y) => Same(y) = Strip(TypeNames[y[1]])
         /\ ~Alias(y) => Same(y) = Strip(y)
BY DEF Same, Mapped, IsAlias, Alias

\* Translating a name leaves the text the same.
LEMMA MappedSame ==
  ASSUME NEW t, t.text \in Strings
  PROVE  /\ Mapped(t) \in Strings /\ Same(Mapped(t)) = Same(t.text)
         /\ Apart(t.text) => Apart(Mapped(t))
<1>1. CASE IsAlias(t)
  <2> DEFINE a == t.text[1]
  <2>1. a \in DOMAIN TypeNames /\ Alias(t.text) /\ Mapped(t) = TypeNames[a]
    BY <1>1 DEF IsAlias, Alias, Mapped
  <2>2. TypeNames[a] \in Strings /\ ~Alias(TypeNames[a]) /\ Apart(TypeNames[a])
    BY <2>1, TypeFacts DEF Apart
  <2> QED BY <2>1, <2>2, SameIs
<1>2. CASE ~IsAlias(t)
  BY <1>2 DEF Mapped
<1> QED BY <1>1, <1>2

\* Taking the blanks away leaves the text the same.
LEMMA StripKeeps ==
  ASSUME NEW y \in Strings, Apart(y)
  PROVE  /\ Same(y) # <<>> => Strip(y) # <<>>
         /\ Same(Strip(y)) = Same(y)
<1>1. Len(y) \in Nat /\ y \in Seq(Fragment)
  BY DEF Strings
<1>2. CASE Alias(y)
  <2>1. Len(y) = 1 /\ y[1] \in DOMAIN TypeNames
    BY <1>2 DEF Alias
  <2>2. y[Len(y)] \notin Blanks
    BY <2>1 DEF Apart
  <2>3. Strip(y) = y
    BY <2>2, StripSame
  <2>4. y # <<>>
    <3>1. Len(<<>>) = 0
      OBVIOUS
    <3> QED BY <2>1, <3>1
  <2> QED BY <2>3, <2>4
<1>3. CASE ~Alias(y)
  <2>1. Same(y) = Strip(y)
    BY <1>3, SameIs
  <2>2. ~Alias(Strip(y))
    <3> SUFFICES ASSUME Alias(Strip(y)) PROVE FALSE
      OBVIOUS
    <3>1. PICK m \in 0 .. Len(y) :
            /\ Strip(y) \in Strings /\ Len(Strip(y)) = m
            /\ \A k \in 1 .. m : Strip(y)[k] = y[k]
      BY StripFacts
    <3>2. m = 1 /\ Strip(y)[1] = y[1] /\ y[1] \in DOMAIN TypeNames
      BY <3>1 DEF Alias
    <3>3. \A k \in 1 .. Len(y) : y[k] \notin Blanks
      BY <1>1, <3>2 DEF Apart
    <3>4. Strip(y) = y
      BY <1>1, <3>3, StripSame
    <3> QED BY <1>3, <3>4
  <2>3. Same(Strip(y)) = Strip(Strip(y))
    BY <2>2, SameIs
  <2> QED BY <2>1, <2>3, StripTwice
<1> QED BY <1>2, <1>3

-----------------------------------------------------------------------------
(* The compiler: what the output carries of the tokens *)

LexToken == {t \in [type : TokenTypes, text : Strings] : Apart(t.text)}

\* The tokens of a whole source: EOF is the last one and no other.
TokensRight ==
  /\ tokens \in Seq(LexToken \cup {EOF}) /\ Len(tokens) >= 1
  /\ tokens[Len(tokens)] = EOF
  /\ \A k \in 1 .. (Len(tokens) - 1) : tokens[k] \in LexToken

\* Which tokens there are, and that EOF is the last.
LEMMA TokFacts ==
  ASSUME TokensRight
  PROVE  /\ Len(tokens) \in Nat \ {0} /\ DOMAIN tokens = 1 .. Len(tokens)
         /\ \A k \in 1 .. (Len(tokens) - 1) : Tok(k) \in LexToken /\ Tok(k).type # "eof"
         /\ \A k : k \notin 1 .. (Len(tokens) - 1) => Tok(k) = EOF
         /\ \A k : Tok(k).text \in Strings /\ Apart(Tok(k).text)
<1>1. Len(tokens) \in Nat \ {0} /\ DOMAIN tokens = 1 .. Len(tokens)
  BY DEF TokensRight
<1>2. ASSUME NEW k \in 1 .. (Len(tokens) - 1) PROVE Tok(k) \in LexToken /\ Tok(k).type # "eof"
  <2>1. k \in DOMAIN tokens /\ tokens[k] \in LexToken
    BY <1>1 DEF TokensRight
  <2>2. tokens[k].type \in TokenTypes
    BY <2>1 DEF LexToken
  <2> QED BY <2>1, <2>2 DEF Tok, TokenTypes, Literal
<1>3. ASSUME NEW k, k \notin 1 .. (Len(tokens) - 1) PROVE Tok(k) = EOF
  <2>1. CASE k \in DOMAIN tokens
    <3>1. k = Len(tokens)
      BY <1>1, <1>3, <2>1
    <3> QED BY <2>1, <3>1 DEF Tok, TokensRight
  <2>2. CASE k \notin DOMAIN tokens
    BY <2>2 DEF Tok
  <2> QED BY <2>1, <2>2
<1>4. EOF.text \in Strings /\ Apart(EOF.text)
  BY DEF EOF, Strings, Apart
<1>5. ASSUME NEW k PROVE Tok(k).text \in Strings /\ Apart(Tok(k).text)
  <2>1. CASE k \in 1 .. (Len(tokens) - 1)
    BY <1>2, <2>1 DEF LexToken
  <2>2. CASE k \notin 1 .. (Len(tokens) - 1)
    BY <1>3, <1>4, <2>2
  <2> QED BY <2>1, <2>2
<1> QED BY <1>1, <1>2, <1>3, <1>5

\* The tokens of T that owe a text, and an output with a text for each.
Own(T) == {i \in T : Owed(Tok(i)) /\ Same(Tok(i).text) # <<>>}

Carries(T, o) ==
  \E f \in [Own(T) -> DOMAIN o] :
    /\ \A i, j \in Own(T) : f[i] = f[j] => i = j
    /\ \A i \in Own(T) : Same(o[f[i]]) = Same(Tok(i).text)

\* Nothing is owed for no tokens.
LEMMA CarryNone ==
  ASSUME NEW T, NEW o, \A i \in T : ~Owed(Tok(i))
  PROVE  Carries(T, o)
<1> DEFINE f == [i \in {} |-> 0]
<1>1. Own(T) = {}
  BY DEF Own
<1>2. f \in [{} -> DOMAIN o]
  OBVIOUS
<1> QED BY <1>1, <1>2 DEF Carries

\* Two stretches of tokens in two stretches of output.
LEMMA CarryJoin ==
  ASSUME NEW o1 \in Seq(Strings), NEW o2 \in Seq(Strings), NEW T1, NEW T2, NEW T,
         Carries(T1, o1), Carries(T2, o2), T \subseteq T1 \cup T2
  PROVE  Carries(T, o1 \o o2) /\ o1 \o o2 \in Seq(Strings)
<1> DEFINE n1 == Len(o1)
           n2 == Len(o2)
           o == o1 \o o2
<1>1. /\ n1 \in Nat /\ n2 \in Nat /\ DOMAIN o1 = 1 .. n1 /\ DOMAIN o2 = 1 .. n2
      /\ o \in Seq(Strings) /\ DOMAIN o = 1 .. (n1 + n2)
      /\ \A k \in 1 .. n1 : o[k] = o1[k]
      /\ \A k \in 1 .. n2 : o[n1 + k] = o2[k]
  OBVIOUS
<1>2. PICK f1 \in [Own(T1) -> DOMAIN o1] :
        /\ \A i, j \in Own(T1) : f1[i] = f1[j] => i = j
        /\ \A i \in Own(T1) : Same(o1[f1[i]]) = Same(Tok(i).text)
  BY DEF Carries
<1>3. PICK f2 \in [Own(T2) -> DOMAIN o2] :
        /\ \A i, j \in Own(T2) : f2[i] = f2[j] => i = j
        /\ \A i \in Own(T2) : Same(o2[f2[i]]) = Same(Tok(i).text)
  BY DEF Carries
<1>4. \A i \in Own(T) : i \in Own(T1) \/ i \in Own(T2)
  BY DEF Own
<1> DEFINE f == [i \in Own(T) |-> IF i \in Own(T1) THEN f1[i] ELSE n1 + f2[i]]
<1> HIDE DEF n1, n2, o
<1>5. ASSUME NEW i \in Own(T), i \in Own(T1)
      PROVE  f[i] = f1[i] /\ f[i] \in 1 .. n1 /\ o[f[i]] = o1[f1[i]]
  BY <1>1, <1>2, <1>5
<1>6. ASSUME NEW i \in Own(T), i \notin Own(T1)
      PROVE  /\ i \in Own(T2) /\ f2[i] \in 1 .. n2 /\ f[i] = n1 + f2[i]
             /\ f[i] \in (n1 + 1) .. (n1 + n2) /\ o[f[i]] = o2[f2[i]]
  BY <1>1, <1>3, <1>4, <1>6
<1>7. f \in [Own(T) -> DOMAIN o]
  <2> SUFFICES ASSUME NEW i \in Own(T) PROVE f[i] \in DOMAIN o
    OBVIOUS
  <2> HIDE DEF f
  <2> QED BY <1>1, <1>5, <1>6
<1> HIDE DEF f
<1>8. ASSUME NEW i \in Own(T), NEW j \in Own(T), f[i] = f[j] PROVE i = j
  <2>1. CASE i \in Own(T1) /\ j \in Own(T1)
    BY <1>2, <1>5, <1>8, <2>1
  <2>2. CASE i \notin Own(T1) /\ j \notin Own(T1)
    <3>1. f2[i] = f2[j]
      BY <1>1, <1>6, <1>8, <2>2
    <3> QED BY <1>3, <1>6, <2>2, <3>1
  <2>3. CASE i \in Own(T1) /\ j \notin Own(T1)
    BY <1>1, <1>5, <1>6, <1>8, <2>3
  <2>4. CASE i \notin Own(T1) /\ j \in Own(T1)
    BY <1>1, <1>5, <1>6, <1>8, <2>4
  <2> QED BY <2>1, <2>2, <2>3, <2>4
<1>9. ASSUME NEW i \in Own(T) PROVE Same(o[f[i]]) = Same(Tok(i).text)
  BY <1>2, <1>3, <1>5, <1>6
<1>10. Carries(T, o)
  BY <1>7, <1>8, <1>9 DEF Carries
<1> QED BY <1>1, <1>10 DEF o

\* A row of texts, one for each token.
LEMMA CarryRow ==
  ASSUME NEW p \in Int, NEW q \in Int, NEW o \in Seq(Strings), Len(o) = q - p,
         \A k \in 1 .. (q - p) : Same(o[k]) = Same(Tok(p + k - 1).text)
  PROVE  Carries(p .. (q - 1), o)
<1> DEFINE T == p .. (q - 1)
           f == [i \in Own(T) |-> i - p + 1]
<1>1. Own(T) \subseteq T /\ DOMAIN o = 1 .. (q - p)
  BY DEF Own
<1>2. ASSUME NEW i \in Own(T)
      PROVE  f[i] = i - p + 1 /\ f[i] \in 1 .. (q - p) /\ p + f[i] - 1 = i /\ i \in Int
  BY <1>1
<1>3. f \in [Own(T) -> DOMAIN o]
  BY <1>1, <1>2
<1> HIDE DEF f, T
<1>4. ASSUME NEW i \in Own(T), NEW j \in Own(T), f[i] = f[j] PROVE i = j
  BY <1>2, <1>4
<1>5. ASSUME NEW i \in Own(T) PROVE Same(o[f[i]]) = Same(Tok(i).text)
  BY <1>2
<1> QED BY <1>3, <1>4, <1>5 DEF Carries, T

\* One text, of one token.
LEMMA CarryOne ==
  ASSUME TokensRight, NEW i \in Int
  PROVE  /\ <<Tok(i).text>> \in Seq(Strings) /\ Carries({i}, <<Tok(i).text>>)
         /\ <<Mapped(Tok(i))>> \in Seq(Strings) /\ Carries({i}, <<Mapped(Tok(i))>>)
<1> DEFINE q == i + 1
<1>1. /\ q \in Int /\ q - i = 1 /\ i .. (q - 1) = {i}
      /\ \A k \in 1 .. 1 : i + k - 1 = i /\ k = 1
  OBVIOUS
<1> HIDE DEF q
<1>2. ASSUME NEW y \in Strings, Same(y) = Same(Tok(i).text)
      PROVE  <<y>> \in Seq(Strings) /\ Carries({i}, <<y>>)
  <2> DEFINE o == <<y>>
  <2>1. o \in Seq(Strings) /\ Len(o) = 1 /\ o[1] = y
    BY <1>2
  <2> HIDE DEF o
  <2>2. \A k \in 1 .. (q - i) : Same(o[k]) = Same(Tok(i + k - 1).text)
    BY <1>1, <1>2, <2>1
  <2>3. Carries(i .. (q - 1), o)
    BY <1>1, <2>1, <2>2, CarryRow
  <2> QED BY <1>1, <2>1, <2>3 DEF o
<1>3. Tok(i).text \in Strings
  BY TokFacts
<1> QED BY <1>2, <1>3, MappedSame

\* The texts a loop collects are the texts of the tokens it passes.
LEMMA TextsCarry ==
  ASSUME TokensRight, NEW p \in Int, NEW q \in Int, p <= q
  PROVE  /\ Texts(p, q) \in Seq(Strings) /\ Carries(p .. (q - 1), Texts(p, q))
         /\ Len(Texts(p, q)) = q - p
         /\ \A k \in 1 .. (q - p) : /\ Apart(Texts(p, q)[k])
                                    /\ Same(Texts(p, q)[k]) = Same(Tok(p + k - 1).text)
<1> DEFINE o == Texts(p, q)
<1>1. q - p \in Nat
  OBVIOUS
<1> DEFINE y(k) == Tok(p + k - 1).text
<1>2. \A k \in 1 .. (q - p) : y(k) \in Strings
  BY TokFacts
<1>3. o \in Seq(Strings) /\ Len(o) = q - p /\ \A k \in 1 .. (q - p) : o[k] = y(k)
  <2>1. o = [k \in 1 .. (q - p) |-> y(k)]
    BY DEF Texts
  <2> HIDE DEF o, y
  <2> QED BY <1>1, <1>2, <2>1
<1> HIDE DEF o
<1>4. \A k \in 1 .. (q - p) : Apart(o[k]) /\ Same(o[k]) = Same(Tok(p + k - 1).text)
  BY <1>3, TokFacts
<1>5. Carries(p .. (q - 1), o)
  BY <1>3, <1>4, CarryRow
<1> QED BY <1>3, <1>4, <1>5 DEF o

\* A loop that appends the tokens with their types replaced loses none.
LEMMA MappedCarry ==
  ASSUME TokensRight, NEW p \in Int, NEW q \in Int, p <= q
  PROVE  /\ MappedTexts(p, q) \in Seq(Strings) /\ Carries(p .. (q - 1), MappedTexts(p, q))
         /\ Len(MappedTexts(p, q)) = q - p
         /\ \A k \in 1 .. (q - p) : /\ Apart(MappedTexts(p, q)[k])
                                    /\ Same(MappedTexts(p, q)[k]) = Same(Tok(p + k - 1).text)
<1> DEFINE o == MappedTexts(p, q)
<1>1. q - p \in Nat
  OBVIOUS
<1>2. ASSUME NEW k \in 1 .. (q - p)
      PROVE  /\ Mapped(Tok(p + k - 1)) \in Strings /\ Apart(Mapped(Tok(p + k - 1)))
             /\ Same(Mapped(Tok(p + k - 1))) = Same(Tok(p + k - 1).text)
  <2>1. Tok(p + k - 1).text \in Strings /\ Apart(Tok(p + k - 1).text)
    BY TokFacts
  <2> QED BY <2>1, MappedSame
<1>3. o \in Seq(Strings) /\ Len(o) = q - p /\ \A k \in 1 .. (q - p) : o[k] = Mapped(Tok(p + k - 1))
  BY <1>1, <1>2 DEF MappedTexts
<1> HIDE DEF o
<1>4. \A k \in 1 .. (q - p) : Apart(o[k]) /\ Same(o[k]) = Same(Tok(p + k - 1).text)
  BY <1>2, <1>3
<1>5. Carries(p .. (q - 1), o)
  BY <1>3, <1>4, CarryRow
<1> QED BY <1>3, <1>4, <1>5 DEF o

\* Taking the blanks at the end away loses nothing that is owed.
LEMMA TrimCarry ==
  ASSUME NEW p \in Int, NEW q \in Int, p <= q, NEW w \in Seq(Strings), Len(w) = q - p,
         \A k \in 1 .. (q - p) : Apart(w[k]) /\ Same(w[k]) = Same(Tok(p + k - 1).text)
  PROVE  Trim(w) \in Seq(Strings) /\ Carries(p .. (q - 1), Trim(w))
<1> DEFINE K == {i \in DOMAIN w : Strip(w[i]) # <<>>}
           n == Max({0} \cup K)
           o == Trim(w)
<1>1. q - p \in Nat /\ DOMAIN w = 1 .. (q - p) /\ \A k \in 1 .. (q - p) : w[k] \in Strings
  OBVIOUS
<1>2. {0} \cup K \in SUBSET (0 .. (q - p))
  BY <1>1
<1>3. n \in {0} \cup K /\ \A k \in {0} \cup K : n >= k
  BY <1>1, <1>2, MaxIn
<1>4. o = SubSeq(w, 1, n - 1) \o (IF n = 0 THEN <<>> ELSE <<Strip(w[n])>>)
  BY DEF Trim
<1> HIDE DEF n, o
<1>5. n \in 0 .. (q - p)
  BY <1>2, <1>3
<1>6. \A k \in 1 .. (q - p) : k > n => Strip(w[k]) = <<>>
  BY <1>1, <1>3, <1>5
<1>7. /\ o \in Seq(Strings) /\ Len(o) = n
      /\ \A k \in 1 .. n : o[k] = w[k] \/ o[k] = Strip(w[k])
  <2>1. CASE n = 0
    <3>1. SubSeq(w, 1, 0 - 1) = <<>>
      OBVIOUS
    <3>2. o = <<>>
      BY <1>4, <2>1, <3>1
    <3> QED BY <2>1, <3>2
  <2>2. CASE n # 0
    <3> DEFINE a == SubSeq(w, 1, n - 1)
               y == Strip(w[n])
    <3>1. n \in 1 .. (q - p) /\ n - 1 \in 0 .. Len(w)
      BY <1>1, <1>5, <2>2
    <3>2. a \in Seq(Strings) /\ Len(a) = n - 1 /\ \A k \in 1 .. (n - 1) : a[k] = w[k]
      BY <1>1, <3>1
    <3>3. y \in Strings
      BY <1>1, <3>1, StripTwice
    <3>4. o = a \o <<y>>
      BY <1>4, <2>2
    <3> HIDE DEF a, y
    <3>5. /\ a \o <<y>> \in Seq(Strings) /\ Len(a \o <<y>>) = n
          /\ \A k \in 1 .. n : (a \o <<y>>)[k] = IF k = n THEN y ELSE a[k]
      BY <3>1, <3>2, <3>3
    <3>6. \A k \in 1 .. n : k = n \/ k \in 1 .. (n - 1)
      BY <3>1
    <3> QED BY <3>2, <3>4, <3>5, <3>6 DEF y
  <2> QED BY <2>1, <2>2
<1>8. ASSUME NEW k \in 1 .. n PROVE Same(o[k]) = Same(Tok(p + k - 1).text)
  <2>1. k \in 1 .. (q - p)
    BY <1>5
  <2>2. Same(Strip(w[k])) = Same(w[k])
    BY <1>1, <2>1, StripKeeps
  <2> QED BY <1>7, <2>1, <2>2
<1> DEFINE z == p + n
<1>9. z \in Int /\ z - p = n /\ z <= q
  BY <1>5
<1> HIDE DEF z
<1>10. Carries(p .. (z - 1), o)
  BY <1>7, <1>8, <1>9, CarryRow
<1>11. Own(p .. (q - 1)) = Own(p .. (z - 1))
  <2>1. ASSUME NEW i \in p .. (q - 1), i \notin p .. (z - 1) PROVE Same(Tok(i).text) = <<>>
    <3> DEFINE k == i - p + 1
    <3>1. k \in 1 .. (q - p) /\ p + k - 1 = i /\ k > n
      BY <1>5, <1>9, <2>1
    <3>2. Strip(w[k]) = <<>>
      BY <1>6, <3>1
    <3>3. w[k] \in Strings /\ Apart(w[k]) /\ Same(w[k]) = Same(Tok(i).text)
      BY <1>1, <3>1
    <3> QED BY <3>2, <3>3, StripKeeps
  <2>2. p .. (z - 1) \subseteq p .. (q - 1)
    BY <1>9
  <2> QED BY <2>1, <2>2 DEF Own
<1> QED BY <1>7, <1>10, <1>11 DEF Carries, o

\* Tokens that owe nothing need no output.
LEMMA CarryQuiet ==
  ASSUME NEW T, NEW T1, NEW o, Carries(T1, o), \A i \in T : i \in T1 \/ ~Owed(Tok(i))
  PROVE  Carries(T, o)
<1>1. Own(T) \subseteq Own(T1)
  BY DEF Own
<1>2. PICK f \in [Own(T1) -> DOMAIN o] :
        /\ \A i, j \in Own(T1) : f[i] = f[j] => i = j
        /\ \A i \in Own(T1) : Same(o[f[i]]) = Same(Tok(i).text)
  BY DEF Carries
<1> DEFINE g == [i \in Own(T) |-> f[i]]
<1>3. g \in [Own(T) -> DOMAIN o] /\ \A i \in Own(T) : g[i] = f[i]
  BY <1>1, <1>2
<1> HIDE DEF g
<1>4. ASSUME NEW i \in Own(T), NEW j \in Own(T), g[i] = g[j] PROVE i = j
  BY <1>1, <1>2, <1>3, <1>4
<1>5. ASSUME NEW i \in Own(T) PROVE Same(o[g[i]]) = Same(Tok(i).text)
  BY <1>1, <1>2, <1>3
<1> QED BY <1>3, <1>4, <1>5 DEF Carries

\* A quiet stretch in front of one that is carried.
LEMMA CarryTwo ==
  ASSUME NEW o, NEW i, NEW j, NEW a \in DOMAIN o, NEW b \in DOMAIN o, a # b,
         Same(o[a]) = Same(Tok(i).text), Same(o[b]) = Same(Tok(j).text)
  PROVE  Carries({i, j}, o)
<1> DEFINE f == [x \in Own({i, j}) |-> IF x = i THEN a ELSE b]
<1>1. \A x \in Own({i, j}) : x = i \/ x = j
  BY DEF Own
<1>2. f \in [Own({i, j}) -> DOMAIN o]
  OBVIOUS
<1>3. ASSUME NEW x \in Own({i, j}), NEW y \in Own({i, j}), f[x] = f[y] PROVE x = y
  BY <1>1, <1>3
<1>4. ASSUME NEW x \in Own({i, j}) PROVE Same(o[f[x]]) = Same(Tok(x).text)
  BY <1>1
<1> HIDE DEF f
<1> QED BY <1>2, <1>3, <1>4 DEF Carries

\* One token, somewhere in the output.
LEMMA CarryAt ==
  ASSUME NEW o, NEW i, NEW a \in DOMAIN o, Same(o[a]) = Same(Tok(i).text)
  PROVE  Carries({i}, o)
<1> DEFINE f == [x \in Own({i}) |-> a]
<1>1. \A x \in Own({i}) : x = i
  BY DEF Own
<1>2. f \in [Own({i}) -> DOMAIN o]
  OBVIOUS
<1>3. ASSUME NEW x \in Own({i}), NEW y \in Own({i}), f[x] = f[y] PROVE x = y
  BY <1>1
<1>4. ASSUME NEW x \in Own({i}) PROVE Same(o[f[x]]) = Same(Tok(x).text)
  BY <1>1
<1> HIDE DEF f
<1> QED BY <1>2, <1>3, <1>4 DEF Carries

\* The texts of a short tuple.
LEMMA Tuples ==
  ASSUME NEW S, NEW a \in S, NEW b \in S, NEW c \in S
  PROVE  /\ <<a>> \in Seq(S) /\ Len(<<a>>) = 1 /\ <<a>>[1] = a /\ DOMAIN <<a>> = {1}
         /\ <<a, b>> \in Seq(S) /\ Len(<<a, b>>) = 2 /\ <<a, b>>[1] = a /\ <<a, b>>[2] = b
         /\ DOMAIN <<a, b>> = {1, 2}
         /\ <<a, b, c>> \in Seq(S) /\ Len(<<a, b, c>>) = 3 /\ <<a, b, c>>[1] = a
         /\ <<a, b, c>>[2] = b /\ <<a, b, c>>[3] = c /\ DOMAIN <<a, b, c>> = {1, 2, 3}
<1>1. 1 .. 1 = {1} /\ 1 .. 2 = {1, 2} /\ 1 .. 3 = {1, 2, 3}
  OBVIOUS
<1>2. <<a>> \in Seq(S) /\ Len(<<a>>) = 1 /\ <<a>>[1] = a /\ DOMAIN <<a>> = 1 .. 1
  OBVIOUS
<1>3. <<a, b>> \in Seq(S) /\ Len(<<a, b>>) = 2 /\ <<a, b>>[1] = a /\ <<a, b>>[2] = b
      /\ DOMAIN <<a, b>> = 1 .. 2
  OBVIOUS
<1>4. <<a, b, c>> \in Seq(S) /\ Len(<<a, b, c>>) = 3 /\ <<a, b, c>>[1] = a
      /\ <<a, b, c>>[2] = b /\ <<a, b, c>>[3] = c /\ DOMAIN <<a, b, c>> = 1 .. 3
  OBVIOUS
<1> QED BY <1>1, <1>2, <1>3, <1>4

\* What the translator writes of its own are texts.
LEMMA WrittenTexts ==
  ASSUME NEW x \in Written, NEW y \in Written, NEW z \in Written
  PROVE  <<x>> \in Strings /\ <<x, y>> \in Strings /\ <<x, y, z>> \in Strings
<1>1. x \in Fragment /\ y \in Fragment /\ z \in Fragment
  BY DEF Fragment
<1> QED BY <1>1 DEF Strings

-----------------------------------------------------------------------------
(* The compiler: how far each search for a token goes *)

\* Keywords, spaces, arrows, dots and newlines owe nothing.
LEMMA Quiet ==
  /\ \A t : t.type \in {"space", "newline", "arrow", "dotdot", "dotdoteq", "eof"} => ~Owed(t)
  /\ \A t : \A w \in Keywords : IsWord(t, w) => ~Owed(t)
  /\ \A t : IsPunct(t, ":") => ~Owed(t)
BY DEF Owed

\* Where a search for a token stops.
LEMMA FirstIn ==
  ASSUME NEW n \in Nat, NEW p \in 1 .. n, NEW T \in SUBSET (p .. n), n \in T
  PROVE  LET m == Min(T \cup {Max({p, n})})
         IN  m \in T /\ m \in p .. n /\ \A q \in p .. (m - 1) : q \notin T
<1> DEFINE m == Min(T \cup {Max({p, n})})
<1>1. T \cup {Max({p, n})} = T
  <2>1. Max({p, n}) = n
    BY MaxOfTwo
  <2> QED BY <2>1
<1>2. T \in SUBSET Nat
  OBVIOUS
<1>3. m \in T /\ \A k \in T : m <= k
  BY <1>1, <1>2, MinIn
<1> HIDE DEF m
<1>4. m \in p .. n
  BY <1>3
<1>5. \A q \in p .. (m - 1) : ~(m <= q)
  BY <1>4
<1>6. \A q \in p .. (m - 1) : q \notin T
  BY <1>3, <1>5
<1> QED BY <1>3, <1>4, <1>6 DEF m

\* SkipSpaces passes blanks only.
LEMMA SkipFacts ==
  ASSUME TokensRight, NEW p \in 1 .. Len(tokens)
  PROVE  /\ SkipSpaces(p) \in p .. Len(tokens)
         /\ \A q \in p .. (SkipSpaces(p) - 1) : ~Owed(Tok(q))
<1> DEFINE n == Len(tokens)
           T == {q \in p .. n : Tok(q).type = "eof" \/ Tok(q).type # "space"}
           m == SkipSpaces(p)
<1>1. n \in Nat /\ n \notin 1 .. (n - 1) /\ p \in 1 .. n
  BY TokFacts
<1>2. Tok(n).type = "eof" /\ n \in p .. n
  BY <1>1, TokFacts DEF EOF
<1>3. T \in SUBSET (p .. n) /\ n \in T
  BY <1>2
<1>4. m = Min(T \cup {Max({p, n})})
  BY DEF SkipSpaces, FirstAt
<1> HIDE DEF T, n, m
<1>5. m \in T /\ m \in p .. n /\ \A q \in p .. (m - 1) : q \notin T
  BY <1>1, <1>3, <1>4, FirstIn
<1>6. ASSUME NEW q \in p .. (m - 1) PROVE ~Owed(Tok(q))
  <2>1. q \in p .. n /\ q \notin T
    BY <1>1, <1>5
  <2>2. Tok(q).type = "space"
    BY <2>1 DEF T
  <2> QED BY <2>2, Quiet
<1> QED BY <1>5, <1>6 DEF m, n

\* Where the end of a file does not stop a search, it is before the end.
LEMMA Inside ==
  ASSUME TokensRight, NEW p \in 1 .. Len(tokens), Tok(p) # EOF
  PROVE  p \in 1 .. (Len(tokens) - 1) /\ p + 1 \in 1 .. Len(tokens)
<1>1. p \in 1 .. (Len(tokens) - 1)
  BY TokFacts
<1> QED BY <1>1, TokFacts

\* The searches of translate_fn, translate_use and try_translate_for_range.
RetEnd(p) == FirstAt(p, LAMBDA q : \/ IsPunct(Tok(q), "{") \/ IsPunct(Tok(q), ";")
                                   \/ Tok(q).type = "newline")
Close(p) == FirstAt(p, LAMBDA q : IsPunct(Tok(q), ">") \/ Tok(q).type = "newline")
Dots(p) == FirstAt(p, LAMBDA q : Tok(q).type \in {"dotdot", "dotdoteq", "newline"})
Body(p) == FirstAt(p, LAMBDA q : IsPunct(Tok(q), "{") \/ Tok(q).type = "newline")

\* The searches of the translator stop inside the tokens.
LEMMA SearchFacts ==
  ASSUME TokensRight, NEW p \in 1 .. Len(tokens)
  PROVE  /\ RetEnd(p) \in p .. Len(tokens) /\ Close(p) \in p .. Len(tokens)
         /\ Dots(p) \in p .. Len(tokens) /\ Body(p) \in p .. Len(tokens)
<1> DEFINE n == Len(tokens)
<1>1. n \in Nat /\ n \notin 1 .. (n - 1)
  BY TokFacts
<1>2. Tok(n).type = "eof" /\ n \in p .. n
  BY <1>1, TokFacts DEF EOF
<1>3. ASSUME NEW S PROVE LET T == {q \in p .. n : Tok(q).type = "eof" \/ q \in S}
                         IN  Min(T \cup {Max({p, n})}) \in p .. n
  <2> DEFINE T == {q \in p .. n : Tok(q).type = "eof" \/ q \in S}
  <2>1. T \in SUBSET (p .. n) /\ n \in T
    BY <1>2
  <2> HIDE DEF T, n
  <2>2. Min(T \cup {Max({p, n})}) \in p .. n
    BY <1>1, <2>1, FirstIn DEF n
  <2> QED BY <2>2 DEF T
<1> DEFINE R == {q \in p .. n : \/ IsPunct(Tok(q), "{") \/ IsPunct(Tok(q), ";")
                                \/ Tok(q).type = "newline"}
           C == {q \in p .. n : IsPunct(Tok(q), ">") \/ Tok(q).type = "newline"}
           D == {q \in p .. n : Tok(q).type \in {"dotdot", "dotdoteq", "newline"}}
           B == {q \in p .. n : IsPunct(Tok(q), "{") \/ Tok(q).type = "newline"}
<1>4. RetEnd(p) \in p .. n
  <2>1. RetEnd(p) = Min({q \in p .. n : Tok(q).type = "eof" \/ q \in R} \cup {Max({p, n})})
    <3>1. {q \in p .. n : Tok(q).type = "eof" \/ q \in R} =
          {q \in p .. n : \/ Tok(q).type = "eof"
                          \/ IsPunct(Tok(q), "{") \/ IsPunct(Tok(q), ";")
                          \/ Tok(q).type = "newline"}
      OBVIOUS
    <3> QED BY <3>1 DEF RetEnd, FirstAt
  <2> HIDE DEF R
  <2> QED BY <1>3, <2>1
<1>5. Close(p) \in p .. n
  <2>1. Close(p) = Min({q \in p .. n : Tok(q).type = "eof" \/ q \in C} \cup {Max({p, n})})
    <3>1. {q \in p .. n : Tok(q).type = "eof" \/ q \in C} =
          {q \in p .. n : Tok(q).type = "eof" \/ IsPunct(Tok(q), ">") \/ Tok(q).type = "newline"}
      OBVIOUS
    <3> QED BY <3>1 DEF Close, FirstAt
  <2> HIDE DEF C
  <2> QED BY <1>3, <2>1
<1>6. Dots(p) \in p .. n
  <2>1. Dots(p) = Min({q \in p .. n : Tok(q).type = "eof" \/ q \in D} \cup {Max({p, n})})
    <3>1. {q \in p .. n : Tok(q).type = "eof" \/ q \in D} =
          {q \in p .. n : \/ Tok(q).type = "eof"
                          \/ Tok(q).type \in {"dotdot", "dotdoteq", "newline"}}
      OBVIOUS
    <3> QED BY <3>1 DEF Dots, FirstAt
  <2> HIDE DEF D
  <2> QED BY <1>3, <2>1
<1>7. Body(p) \in p .. n
  <2>1. Body(p) = Min({q \in p .. n : Tok(q).type = "eof" \/ q \in B} \cup {Max({p, n})})
    <3>1. {q \in p .. n : Tok(q).type = "eof" \/ q \in B} =
          {q \in p .. n : Tok(q).type = "eof" \/ IsPunct(Tok(q), "{") \/ Tok(q).type = "newline"}
      OBVIOUS
    <3> QED BY <3>1 DEF Body, FirstAt
  <2> HIDE DEF B
  <2> QED BY <1>3, <2>1
<1> QED BY <1>4, <1>5, <1>6, <1>7

\* So does the search for the closing bracket.
LEMMA ParamsFacts ==
  ASSUME TokensRight, NEW p \in 1 .. Len(tokens), p + 1 \in 1 .. Len(tokens)
  PROVE  ParamsEnd(p) \in (p + 1) .. Len(tokens)
<1> DEFINE n == Len(tokens)
           depth(q) == Cardinality({i \in p .. q : IsPunct(Tok(i), "(")})
                         - Cardinality({i \in p .. q : IsPunct(Tok(i), ")")})
           T == {q \in (p + 1) .. n : Tok(q).type = "eof" \/ depth(q) = 0}
           m == Min(T \cup {Max({p + 1, n})})
           r == p + 1
<1>1. n \in Nat /\ n \notin 1 .. (n - 1) /\ r \in 1 .. n /\ p \in Nat
  BY TokFacts
<1>2. Tok(n).type = "eof" /\ n \in r .. n
  BY <1>1, TokFacts DEF EOF
<1>3. T \in SUBSET (r .. n) /\ n \in T
  BY <1>2
<1>4. ParamsEnd(p) = IF Tok(m).type = "eof" THEN m ELSE m + 1
  BY DEF ParamsEnd, FirstAt
<1>5. m = Min(T \cup {Max({r, n})})
  OBVIOUS
<1> HIDE DEF T, n, r, m
<1>6. m \in r .. n
  BY <1>1, <1>3, <1>5, FirstIn
<1>7. CASE Tok(m).type = "eof"
  BY <1>4, <1>6, <1>7 DEF r, n
<1>8. CASE Tok(m).type # "eof"
  <2>1. m \in 1 .. (n - 1)
    BY <1>8, TokFacts DEF EOF, n
  <2>2. m + 1 \in (p + 1) .. n
    BY <1>1, <1>6, <2>1 DEF r
  <2> QED BY <1>4, <1>8, <2>2 DEF n
<1> QED BY <1>7, <1>8

-----------------------------------------------------------------------------
(* The compiler: what each translate_* does *)

\* From token p on: it moves forward, not past the end by more than one, and
\* what it writes carries what it passes.
Moves(p, t) ==
  /\ t.pos \in (p + 1) .. (Len(tokens) + 1)
  /\ t.out \in Seq(Strings) /\ Carries(p .. (t.pos - 1), t.out)

\* translate_use.
LEMMA UseMoves ==
  ASSUME TokensRight, NEW p \in 1 .. (Len(tokens) - 1), ~Owed(Tok(p))
  PROVE  Moves(p, translate_use(p))
<1> DEFINE n == Len(tokens)
           h == SkipSpaces(p + 1)
           close == Close(h + 1)
           t == translate_use(p)
<1>1. n \in Nat \ {0} /\ p \in Nat /\ p + 1 \in 1 .. n
  BY TokFacts
<1>2. h \in (p + 1) .. n /\ \A q \in (p + 1) .. (h - 1) : ~Owed(Tok(q))
  BY <1>1, SkipFacts
<1> HIDE DEF h
<1>3. h \in 1 .. n /\ h \in Int /\ \A q \in p .. h : q = p \/ q \in (p + 1) .. (h - 1) \/ q = h
  BY <1>1, <1>2
<1>4. Tok(h).text \in Strings
  BY TokFacts
<1>5. h + 1 \in (p + 1) .. (n + 1) /\ h + 1 - 1 = h
  BY <1>1, <1>2
<1>6. ASSUME NEW o \in Seq(Strings), NEW a \in DOMAIN o, o[a] = Tok(h).text
      PROVE  Moves(p, [pos |-> h + 1, out |-> o])
  <2>1. Carries({h}, o)
    BY <1>6, CarryAt
  <2>2. \A q \in p .. h : q \in {h} \/ ~Owed(Tok(q))
    BY <1>2, <1>3
  <2>3. Carries(p .. h, o)
    BY <2>1, <2>2, CarryQuiet
  <2> DEFINE z == h + 1
  <2>4. z \in (p + 1) .. (n + 1) /\ z - 1 = h
    BY <1>3, <1>5
  <2> HIDE DEF z
  <2>5. Moves(p, [pos |-> z, out |-> o])
    BY <1>6, <2>3, <2>4 DEF Moves
  <2> QED BY <2>5 DEF z
<1>7. CASE Tok(h).type = "string"
  <2> DEFINE c == <<"#include", " ">>
             o == <<c, Tok(h).text>>
  <2>1. "#include" \in Written /\ " " \in Written
    BY DEF Written
  <2>2. c \in Strings
    BY <2>1, WrittenTexts
  <2> HIDE DEF c
  <2>3. o \in Seq(Strings) /\ 2 \in DOMAIN o /\ o[2] = Tok(h).text
    BY <1>4, <2>2, Tuples
  <2>4. ~IsPunct(Tok(h), "<")
    BY <1>7 DEF IsPunct
  <2>5. t = [pos |-> h + 1, out |-> o]
    BY <1>7, <2>4 DEF translate_use, h, c
  <2> HIDE DEF o, t
  <2>6. Moves(p, t)
    BY <1>6, <2>3, <2>5
  <2> QED BY <2>6 DEF t
<1>8. CASE IsPunct(Tok(h), "<")
  <2>1. Tok(h) # EOF /\ Tok(h).type # "string"
    BY <1>8 DEF IsPunct, EOF
  <2>2. h + 1 \in 1 .. n
    BY <1>3, <2>1, Inside
  <2>3. close \in (h + 1) .. n
    BY <2>2, SearchFacts
  <2> DEFINE o == <<<<"#include", " ">>>> \o Texts(h, close + 1)
             c == <<<<"#include", " ">>>>
             z == close + 1
             w == Texts(h, z)
  <2>4. t = [pos |-> close + 1, out |-> o]
    BY <1>8, <2>1 DEF translate_use, h, Close
  <2> HIDE DEF close
  <2>5. z \in Int /\ h <= z /\ z \in (p + 1) .. (n + 1)
    BY <1>1, <1>2, <2>3
  <2>6. w \in Seq(Strings) /\ Carries(h .. (z - 1), w)
    <3> HIDE DEF z
    <3> QED BY <1>3, <2>5, TextsCarry
  <2>7. c \in Seq(Strings)
    <3>1. "#include" \in Written /\ " " \in Written
      BY DEF Written
    <3>2. <<"#include", " ">> \in Strings
      BY <3>1, WrittenTexts
    <3> QED BY <3>2, Tuples
  <2>8. o = c \o w /\ t.pos = z /\ t.out = o
    <3>1. o = c \o w
      OBVIOUS
    <3> HIDE DEF o, t
    <3> QED BY <2>4, <3>1
  <2> HIDE DEF z, w, c, o, t
  <2>9. Carries({}, c)
    BY CarryNone
  <2>10. Carries(h .. (z - 1), o) /\ o \in Seq(Strings)
    BY <2>6, <2>7, <2>8, <2>9, CarryJoin
  <2>11. \A q \in p .. (z - 1) : q = p \/ q \in (p + 1) .. (h - 1) \/ q \in h .. (z - 1)
    BY <1>1, <1>2, <2>5
  <2>12. \A q \in p .. (z - 1) : q \in h .. (z - 1) \/ ~Owed(Tok(q))
    BY <1>2, <2>11
  <2>13. Carries(p .. (z - 1), o)
    BY <2>10, <2>12, CarryQuiet
  <2>14. Moves(p, t)
    BY <2>5, <2>8, <2>10, <2>13 DEF Moves
  <2> QED BY <2>14 DEF t
<1>9. CASE Tok(h).type # "string" /\ ~IsPunct(Tok(h), "<")
  <2> DEFINE c == <<"/*", "use", " ">>
             d == <<" ", "*/">>
             o == <<c, Tok(h).text, d>>
  <2>1. "/*" \in Written /\ " " \in Written /\ "use" \in Written /\ "*/" \in Written
    BY DEF Written
  <2>2. c \in Strings /\ d \in Strings
    BY <2>1, WrittenTexts
  <2> HIDE DEF c, d
  <2>3. o \in Seq(Strings) /\ 2 \in DOMAIN o /\ o[2] = Tok(h).text
    BY <1>4, <2>2, Tuples
  <2>4. t = [pos |-> h + 1, out |-> o]
    BY <1>9 DEF translate_use, h, c, d
  <2> HIDE DEF o, t
  <2>5. Moves(p, t)
    BY <1>6, <2>3, <2>4
  <2> QED BY <2>5 DEF t
<1> QED BY <1>7, <1>8, <1>9

\* translate_let and translate_var.
LEMMA DeclareMoves ==
  ASSUME TokensRight, NEW p \in 1 .. (Len(tokens) - 1), ~Owed(Tok(p)),
         NEW c \in Seq(Strings)
  PROVE  Moves(p, Declare(p, c))
<1> DEFINE N == Len(tokens)
           n == SkipSpaces(p + 1)
           colon == SkipSpaces(n + 1)
           ty == SkipSpaces(colon + 1)
           t == Declare(p, c)
<1>1. N \in Nat \ {0} /\ p \in Nat /\ p + 1 \in 1 .. N
  BY TokFacts
<1>2. n \in (p + 1) .. N /\ \A q \in (p + 1) .. (n - 1) : ~Owed(Tok(q))
  BY <1>1, SkipFacts
<1>3. Carries({}, c)
  BY CarryNone
<1>4. CASE Tok(n).type # "word"
  <2>1. t = [pos |-> n, out |-> c]
    BY <1>4 DEF Declare
  <2> HIDE DEF t, n
  <2>2. \A q \in p .. (n - 1) : q = p \/ q \in (p + 1) .. (n - 1)
    BY <1>1, <1>2
  <2>3. Carries(p .. (n - 1), c)
    BY <1>2, <2>2, CarryNone
  <2>4. n \in (p + 1) .. (N + 1)
    BY <1>1, <1>2
  <2>5. Moves(p, t)
    BY <2>1, <2>3, <2>4 DEF Moves
  <2> QED BY <2>5 DEF t
<1>5. CASE Tok(n).type = "word" /\ ~IsAlias(Tok(n)) /\ IsPunct(Tok(colon), ":")
  <2> DEFINE z == IF Tok(ty).type = "eof" THEN ty ELSE ty + 1
             b == << " " >>
             y == Mapped(Tok(ty))
             w == <<y, b, Tok(n).text>>
  <2>1. t = [pos |-> z, out |-> c \o w]
    BY <1>5 DEF Declare
  <2>2. n \in 1 .. N /\ Tok(n) # EOF
    BY <1>1, <1>2, <1>5 DEF EOF
  <2>3. n + 1 \in 1 .. N /\ n \in Int
    BY <2>2, Inside
  <2>4. colon \in (n + 1) .. N /\ \A q \in (n + 1) .. (colon - 1) : ~Owed(Tok(q))
    BY <2>3, SkipFacts
  <2> HIDE DEF n
  <2>5. colon \in 1 .. N /\ Tok(colon) # EOF
    BY <1>1, <1>2, <1>5, <2>3, <2>4 DEF EOF, IsPunct
  <2>6. colon + 1 \in 1 .. N /\ colon \in Int
    BY <2>5, Inside
  <2>7. ty \in (colon + 1) .. N /\ \A q \in (colon + 1) .. (ty - 1) : ~Owed(Tok(q))
    BY <2>6, SkipFacts
  <2>8. ~Owed(Tok(colon))
    BY <1>5, Quiet
  <2> HIDE DEF colon, ty, t
  <2>9. w \in Seq(Strings) /\ DOMAIN w = {1, 2, 3} /\ w[1] = y /\ w[3] = Tok(n).text
    <3>1. " " \in Written
      BY DEF Written
    <3>2. b \in Strings
      BY <3>1, WrittenTexts
    <3>3. Tok(n).text \in Strings /\ Tok(ty).text \in Strings
      BY TokFacts
    <3>4. y \in Strings
      BY <3>3, MappedSame
    <3> HIDE DEF b, y
    <3> QED BY <3>2, <3>3, <3>4, Tuples
  <2>10. Same(y) = Same(Tok(ty).text)
    BY TokFacts, MappedSame
  <2> HIDE DEF w, y, b
  <2>11. Carries({ty, n}, w)
    BY <2>9, <2>10, CarryTwo
  <2>12. Carries({ty, n}, c \o w) /\ c \o w \in Seq(Strings)
    BY <1>3, <2>9, <2>11, CarryJoin
  <2>13. z \in (p + 1) .. (N + 1) /\ z - 1 <= ty
    BY <1>1, <1>2, <2>3, <2>4, <2>6, <2>7
  <2>14. (\A q \in p .. (z - 1) : \/ q = p \/ q \in (p + 1) .. (n - 1) \/ q = n
                                  \/ q \in (n + 1) .. (colon - 1) \/ q = colon
                                  \/ q \in (colon + 1) .. (ty - 1) \/ q = ty)
    BY <1>1, <1>2, <2>3, <2>4, <2>6, <2>7, <2>13
  <2>15. \A q \in p .. (z - 1) : q \in {ty, n} \/ ~Owed(Tok(q))
    BY <1>2, <2>4, <2>7, <2>8, <2>14
  <2> HIDE DEF z
  <2>16. Carries(p .. (z - 1), c \o w)
    BY <2>12, <2>15, CarryQuiet
  <2>17. Moves(p, t)
    BY <2>1, <2>12, <2>13, <2>16 DEF Moves
  <2> QED BY <2>17 DEF t
<1>6. CASE Tok(n).type = "word" /\ ~(~IsAlias(Tok(n)) /\ IsPunct(Tok(colon), ":"))
  <2> DEFINE z == n + 1
             w == <<Mapped(Tok(n))>>
  <2>1. t = [pos |-> z, out |-> c \o w]
    BY <1>6 DEF Declare
  <2> HIDE DEF t, n
  <2>2. n \in Int /\ z \in (p + 1) .. (N + 1) /\ z - 1 = n
    BY <1>1, <1>2
  <2>3. w \in Seq(Strings) /\ Carries({n}, w)
    BY <2>2, CarryOne
  <2> HIDE DEF w, z
  <2>4. Carries({n}, c \o w) /\ c \o w \in Seq(Strings)
    BY <1>3, <2>3, CarryJoin
  <2>5. \A q \in p .. (z - 1) : q = p \/ q \in (p + 1) .. (n - 1) \/ q = n
    BY <1>1, <1>2, <2>2
  <2>6. \A q \in p .. (z - 1) : q \in {n} \/ ~Owed(Tok(q))
    BY <1>2, <2>5
  <2>7. Carries(p .. (z - 1), c \o w)
    BY <2>4, <2>6, CarryQuiet
  <2>8. Moves(p, t)
    BY <2>1, <2>2, <2>4, <2>7 DEF Moves
  <2> QED BY <2>8 DEF t
<1> QED BY <1>4, <1>5, <1>6

\* translate_fn, with its four ways out.
LEMMA FnMoves ==
  ASSUME TokensRight, NEW p \in 1 .. (Len(tokens) - 1), ~Owed(Tok(p))
  PROVE  Moves(p, translate_fn(p))
<1> DEFINE N == Len(tokens)
           n == SkipSpaces(p + 1)
           name == Tok(n).text
           l == SkipSpaces(n + 1)
           after == ParamsEnd(l)
           params == MappedTexts(l, after)
           arrow == SkipSpaces(after)
           rtype == SkipSpaces(arrow + 1)
           retEnd == RetEnd(rtype)
           t == translate_fn(p)
           blank == << " " >>
           void == <<"void">>
           head == <<void, blank, name>>
<1>1. N \in Nat \ {0} /\ p \in Nat /\ p + 1 \in 1 .. N
  BY TokFacts
<1>2. n \in (p + 1) .. N /\ \A q \in (p + 1) .. (n - 1) : ~Owed(Tok(q))
  BY <1>1, SkipFacts
<1>3. name \in Strings
  BY TokFacts
<1>4. blank \in Strings /\ void \in Strings
  <2>1. " " \in Written /\ "void" \in Written
    BY DEF Written
  <2> QED BY <2>1, WrittenTexts
<1>5. head \in Seq(Strings) /\ DOMAIN head = {1, 2, 3} /\ head[3] = name
  <2> HIDE DEF blank, void, name
  <2> QED BY <1>3, <1>4, Tuples
<1>6. Carries({n}, head)
  <2> HIDE DEF head
  <2> QED BY <1>5, CarryAt
<1>7. CASE Tok(n).type # "word"
  <2> DEFINE z == n + 1
             f == <<"fn">>
             o == <<f, blank, name>>
  <2>1. t = [pos |-> z, out |-> o]
    BY <1>7 DEF translate_fn
  <2>2. f \in Strings
    <3>1. "fn" \in Written
      BY DEF Written
    <3> QED BY <3>1, WrittenTexts
  <2>3. o \in Seq(Strings) /\ DOMAIN o = {1, 2, 3} /\ o[3] = name
    <3> HIDE DEF blank, f, name
    <3> QED BY <1>3, <1>4, <2>2, Tuples
  <2> HIDE DEF t, o
  <2>4. Carries({n}, o)
    BY <2>3, CarryAt
  <2> HIDE DEF n
  <2>5. n \in Int /\ z \in (p + 1) .. (N + 1) /\ z - 1 = n
    BY <1>1, <1>2
  <2> HIDE DEF z
  <2>6. \A q \in p .. (z - 1) : q = p \/ q \in (p + 1) .. (n - 1) \/ q = n
    BY <1>1, <1>2, <2>5
  <2>7. \A q \in p .. (z - 1) : q \in {n} \/ ~Owed(Tok(q))
    BY <1>2, <2>6
  <2>8. Carries(p .. (z - 1), o)
    BY <2>4, <2>7, CarryQuiet
  <2>9. Moves(p, t)
    BY <2>1, <2>3, <2>5, <2>8 DEF Moves
  <2> QED BY <2>9 DEF t
<1>8. CASE Tok(n).type = "word"
  <2>1. n \in 1 .. N /\ Tok(n) # EOF
    BY <1>1, <1>2, <1>8 DEF EOF
  <2>2. n + 1 \in 1 .. N /\ n \in Int
    BY <2>1, Inside
  <2>3. l \in (n + 1) .. N /\ \A q \in (n + 1) .. (l - 1) : ~Owed(Tok(q))
    BY <2>2, SkipFacts
  <2>4. \A q \in p .. (l - 1) : q \in {n} \/ ~Owed(Tok(q))
    <3> HIDE DEF n, l
    <3>1. \A q \in p .. (l - 1) : \/ q = p \/ q \in (p + 1) .. (n - 1) \/ q = n
                                  \/ q \in (n + 1) .. (l - 1)
      BY <1>1, <1>2, <2>2, <2>3
    <3> QED BY <1>2, <2>3, <3>1
  <2>5. l \in (p + 1) .. N /\ l \in 1 .. N /\ l \in Int
    <3> HIDE DEF n, l
    <3> QED BY <1>1, <1>2, <2>2, <2>3
  <2>6. Carries(p .. (l - 1), head)
    <3> HIDE DEF head, l, n
    <3> QED BY <1>6, <2>4, CarryQuiet
  <2>7. CASE ~IsPunct(Tok(l), "(")
    <3>1. t = [pos |-> l, out |-> head]
      BY <1>8, <2>7 DEF translate_fn
    <3> HIDE DEF t, l, head
    <3>2. l \in (p + 1) .. (N + 1)
      BY <1>1, <2>5
    <3>3. Moves(p, t)
      BY <1>5, <2>6, <3>1, <3>2 DEF Moves
    <3> QED BY <3>3 DEF t
  <2>8. CASE IsPunct(Tok(l), "(")
    <3>1. Tok(l) # EOF
      BY <2>8 DEF IsPunct, EOF
    <3>2. l + 1 \in 1 .. N
      BY <2>5, <3>1, Inside
    <3>3. after \in (l + 1) .. N
      BY <2>5, <3>2, ParamsFacts
    <3>4. after \in 1 .. N /\ after \in Int /\ l <= after
      <4> HIDE DEF after, l
      <4> QED BY <1>1, <2>5, <3>3
    <3>5. arrow \in after .. N /\ \A q \in after .. (arrow - 1) : ~Owed(Tok(q))
      BY <3>4, SkipFacts
    <3>6. params \in Seq(Strings) /\ Carries(l .. (after - 1), params)
      <4> HIDE DEF after, l
      <4> QED BY <2>5, <3>4, MappedCarry
    <3>7. arrow \in (p + 1) .. N /\ arrow \in 1 .. N /\ arrow \in Int /\ after <= arrow
      <4> HIDE DEF after, l, arrow
      <4> QED BY <1>1, <2>5, <3>4, <3>5
    <3>8. CASE Tok(arrow).type # "arrow"
      <4>1. t = [pos |-> arrow, out |-> head \o params]
        BY <1>8, <2>8, <3>8 DEF translate_fn
      <4> HIDE DEF t, head, params, arrow, after, l
      <4>2. arrow \in (p + 1) .. (N + 1)
        BY <1>1, <3>7
      <4>3. /\ Carries(p .. (l - 1) \cup l .. (after - 1), head \o params)
            /\ head \o params \in Seq(Strings)
        BY <1>5, <2>6, <3>6, CarryJoin
      <4>4. \A q \in p .. (arrow - 1) : \/ q \in p .. (l - 1) \/ q \in l .. (after - 1)
                                        \/ q \in after .. (arrow - 1)
        BY <1>1, <2>5, <3>4, <3>7
      <4>5. Carries(p .. (arrow - 1), head \o params)
        BY <3>5, <4>3, <4>4, CarryQuiet
      <4>6. Moves(p, t)
        BY <4>1, <4>2, <4>3, <4>5 DEF Moves
      <4> QED BY <4>6 DEF t
    <3>9. CASE Tok(arrow).type = "arrow"
      <4> DEFINE rest == <<blank, name>>
                 w == MappedTexts(rtype, retEnd)
                 o == Trim(w) \o rest \o params
      <4>1. t = [pos |-> retEnd, out |-> o]
        BY <1>8, <2>8, <3>9 DEF translate_fn, RetEnd
      <4>2. arrow + 1 \in 1 .. N
        BY <3>7, <3>9, Inside DEF EOF
      <4>3. rtype \in (arrow + 1) .. N /\ \A q \in (arrow + 1) .. (rtype - 1) : ~Owed(Tok(q))
        BY <4>2, SkipFacts
      <4>4. rtype \in 1 .. N /\ rtype \in Int /\ arrow < rtype
        <5> HIDE DEF arrow, rtype
        <5> QED BY <1>1, <3>7, <4>3
      <4>5. retEnd \in rtype .. N
        BY <4>4, SearchFacts
      <4>6. retEnd \in (p + 1) .. (N + 1) /\ retEnd \in Int /\ rtype <= retEnd
        <5> HIDE DEF arrow, rtype, retEnd
        <5> QED BY <1>1, <3>7, <4>4, <4>5
      <4>7. rest \in Seq(Strings) /\ DOMAIN rest = {1, 2} /\ rest[2] = name
        <5> HIDE DEF blank, name
        <5> QED BY <1>3, <1>4, Tuples
      <4> HIDE DEF rest, t, arrow, rtype, retEnd
      <4>8. Carries({n}, rest)
        BY <4>7, CarryAt
      <4>9. Trim(w) \in Seq(Strings) /\ Carries(rtype .. (retEnd - 1), Trim(w))
        <5>1. /\ w \in Seq(Strings) /\ Len(w) = retEnd - rtype
              /\ \A k \in 1 .. (retEnd - rtype) : /\ Apart(w[k])
                                                  /\ Same(w[k]) = Same(Tok(rtype + k - 1).text)
          BY <4>4, <4>6, MappedCarry
        <5> HIDE DEF w
        <5> QED BY <5>1, <4>4, <4>6, TrimCarry
      <4> DEFINE v == Trim(w)
                 A == rtype .. (retEnd - 1) \cup {n}
                 B == A \cup l .. (after - 1)
      <4>10. o = v \o rest \o params
        OBVIOUS
      <4>11. v \in Seq(Strings) /\ Carries(rtype .. (retEnd - 1), v)
        BY <4>9
      <4> HIDE DEF v, w, o, params, l, after, n
      <4>12. Carries(A, v \o rest) /\ v \o rest \in Seq(Strings)
        BY <4>7, <4>8, <4>11, CarryJoin
      <4> HIDE DEF A
      <4>13. Carries(B, v \o rest \o params) /\ v \o rest \o params \in Seq(Strings)
        <5> DEFINE a == v \o rest
        <5>1. Carries(A, a) /\ a \in Seq(Strings)
          BY <4>12
        <5> HIDE DEF a
        <5>2. Carries(B, a \o params) /\ a \o params \in Seq(Strings)
          BY <3>6, <5>1, CarryJoin
        <5> QED BY <5>2 DEF a
      <4>14. \A q \in p .. (retEnd - 1) :
               \/ q \in p .. (l - 1) \/ q \in l .. (after - 1) \/ q \in after .. (arrow - 1)
               \/ q = arrow \/ q \in (arrow + 1) .. (rtype - 1) \/ q \in rtype .. (retEnd - 1)
        BY <1>1, <2>5, <3>4, <3>7, <4>4, <4>6
      <4>15. ~Owed(Tok(arrow))
        BY <3>9, Quiet
      <4>16. \A q \in p .. (retEnd - 1) : q \in B \/ ~Owed(Tok(q))
        BY <2>4, <3>5, <4>3, <4>14, <4>15 DEF A
      <4> HIDE DEF B
      <4>17. Carries(p .. (retEnd - 1), o)
        BY <4>10, <4>13, <4>16, CarryQuiet
      <4>18. Moves(p, t)
        BY <4>1, <4>6, <4>10, <4>13, <4>17 DEF Moves
      <4> QED BY <4>18 DEF t
    <3> QED BY <3>8, <3>9
  <2> QED BY <2>7, <2>8
<1> QED BY <1>7, <1>8

\* try_translate_for_range.
LEMMA ForMoves ==
  ASSUME TokensRight, NEW p \in 1 .. (Len(tokens) - 1), ~Owed(Tok(p))
  PROVE  Moves(p, try_translate_for_range(p))
<1> DEFINE N == Len(tokens)
           v == SkipSpaces(p + 1)
           in == SkipSpaces(v + 1)
           start == SkipSpaces(in + 1)
           range == Dots(start)
           stop == SkipSpaces(range + 1)
           end == Body(stop)
           name == Tok(v).text
           less == IF Tok(range).type = "dotdoteq" THEN " <= " ELSE " < "
           t == try_translate_for_range(p)
           IsRange == /\ Tok(v).type = "word" /\ IsWord(Tok(in), "in")
                      /\ Tok(range).type \in {"dotdot", "dotdoteq"}
<1>1. N \in Nat \ {0} /\ p \in Nat /\ p + 1 \in 1 .. N
  BY TokFacts
<1>2. v \in (p + 1) .. N /\ \A q \in (p + 1) .. (v - 1) : ~Owed(Tok(q))
  BY <1>1, SkipFacts
<1>3. CASE ~IsRange
  <2> DEFINE z == p + 1
             o == <<Tok(p).text>>
  <2>1. t = [pos |-> z, out |-> o]
    BY <1>3 DEF try_translate_for_range, Dots
  <2>2. p \in Int /\ z \in (p + 1) .. (N + 1) /\ z - 1 = p /\ p .. p = {p}
    BY <1>1
  <2>3. o \in Seq(Strings) /\ Carries({p}, o)
    BY <2>2, CarryOne
  <2> HIDE DEF t, o, z
  <2>4. Moves(p, t)
    BY <2>1, <2>2, <2>3 DEF Moves
  <2> QED BY <2>4 DEF t
<1>4. CASE IsRange
  <2>1. v \in 1 .. N /\ Tok(v) # EOF
    BY <1>1, <1>2, <1>4 DEF EOF
  <2>2. v + 1 \in 1 .. N /\ v \in Int
    BY <2>1, Inside
  <2>3. in \in (v + 1) .. N /\ \A q \in (v + 1) .. (in - 1) : ~Owed(Tok(q))
    BY <2>2, SkipFacts
  <2>4. in \in 1 .. N /\ Tok(in) # EOF /\ v < in
    <3>1. in \in 1 .. N /\ v < in
      <4> HIDE DEF v, in
      <4> QED BY <1>1, <1>2, <2>2, <2>3
    <3> QED BY <1>4, <3>1 DEF EOF, IsWord
  <2>5. in + 1 \in 1 .. N /\ in \in Int
    BY <2>4, Inside
  <2>6. start \in (in + 1) .. N /\ \A q \in (in + 1) .. (start - 1) : ~Owed(Tok(q))
    BY <2>5, SkipFacts
  <2>7. start \in 1 .. N /\ start \in Int /\ in < start
    <3> HIDE DEF in, start
    <3> QED BY <1>1, <2>5, <2>6
  <2>8. range \in start .. N
    BY <2>7, SearchFacts
  <2>9. range \in 1 .. N /\ Tok(range) # EOF /\ start <= range
    <3>1. range \in 1 .. N /\ start <= range
      <4> HIDE DEF start, range
      <4> QED BY <1>1, <2>7, <2>8
    <3> QED BY <1>4, <3>1 DEF EOF
  <2>10. range + 1 \in 1 .. N /\ range \in Int
    BY <2>9, Inside
  <2>11. stop \in (range + 1) .. N /\ \A q \in (range + 1) .. (stop - 1) : ~Owed(Tok(q))
    BY <2>10, SkipFacts
  <2>12. stop \in 1 .. N /\ stop \in Int /\ range < stop
    <3> HIDE DEF range, stop
    <3> QED BY <1>1, <2>10, <2>11
  <2>13. end \in stop .. N
    BY <2>12, SearchFacts
  <2> DEFINE a1 == <<"for", " (", "int ">>
             a2 == <<" = ">>
             o1 == <<a1, name, a2>>
             o2 == Texts(start, range)
             b1 == <<"; ">>
             b2 == <<less>>
             o3 == <<b1, name, b2>>
             o4 == Trim(Texts(stop, end))
             c2 == <<"++", ")">>
             o5 == <<b1, name, c2>>
  <2>14. t = [pos |-> end, out |-> o1 \o o2 \o o3 \o o4 \o o5]
    BY <1>4 DEF try_translate_for_range, Dots, Body
  <2>15. name \in Strings
    BY TokFacts
  <2>16. a1 \in Strings /\ a2 \in Strings /\ b1 \in Strings /\ b2 \in Strings /\ c2 \in Strings
    <3>1. /\ "for" \in Written /\ " (" \in Written /\ "int " \in Written /\ " = " \in Written
          /\ "; " \in Written /\ "++" \in Written /\ ")" \in Written
          /\ " < " \in Written /\ " <= " \in Written
      BY DEF Written
    <3>2. less \in Written
      BY <3>1
    <3> HIDE DEF less
    <3> QED BY <3>1, <3>2, WrittenTexts
  <2>17. ~Owed(Tok(in)) /\ ~Owed(Tok(range))
    <3>1. "in" \in Keywords
      BY DEF Keywords
    <3> QED BY <1>4, <3>1, Quiet
  <2> HIDE DEF a1, a2, b1, b2, c2, name, t, v, in, start, range, stop, end
  <2>18. /\ o1 \in Seq(Strings) /\ o3 \in Seq(Strings) /\ o5 \in Seq(Strings)
         /\ DOMAIN o1 = {1, 2, 3} /\ o1[2] = name
    BY <2>15, <2>16, Tuples
  <2>19. Carries({v}, o1)
    <3> HIDE DEF o1
    <3> QED BY <2>18, CarryAt DEF name
  <2>20. o2 \in Seq(Strings) /\ Carries(start .. (range - 1), o2)
    BY <2>7, <2>9, <2>10, TextsCarry
  <2>21. end \in Int /\ stop <= end /\ end \in (p + 1) .. (N + 1)
    BY <1>1, <1>2, <2>2, <2>4, <2>5, <2>7, <2>9, <2>10, <2>12, <2>13
  <2>22. o4 \in Seq(Strings) /\ Carries(stop .. (end - 1), o4)
    <3> DEFINE w == Texts(stop, end)
    <3>1. /\ w \in Seq(Strings) /\ Len(w) = end - stop
          /\ \A k \in 1 .. (end - stop) : /\ Apart(w[k])
                                          /\ Same(w[k]) = Same(Tok(stop + k - 1).text)
      BY <2>12, <2>21, TextsCarry
    <3> HIDE DEF w
    <3>2. Trim(w) \in Seq(Strings) /\ Carries(stop .. (end - 1), Trim(w))
      BY <2>12, <2>21, <3>1, TrimCarry
    <3> QED BY <3>2 DEF w
  <2>23. Carries({}, o3) /\ Carries({}, o5)
    BY CarryNone
  <2> HIDE DEF o1, o2, o3, o4, o5
  <2> DEFINE A == start .. (range - 1)
             B == stop .. (end - 1)
             w1 == o1 \o o2
             w2 == w1 \o o3
             w3 == w2 \o o4
             w4 == w3 \o o5
  <2>24. Carries({v} \cup A, w1) /\ w1 \in Seq(Strings)
    BY <2>18, <2>19, <2>20, CarryJoin
  <2>25. t = [pos |-> end, out |-> w4]
    BY <2>14
  <2> HIDE DEF w1, A
  <2>26. Carries({v} \cup A, w2) /\ w2 \in Seq(Strings)
    BY <2>18, <2>23, <2>24, CarryJoin
  <2> HIDE DEF w2, B
  <2>27. Carries({v} \cup A \cup B, w3) /\ w3 \in Seq(Strings)
    BY <2>22, <2>26, CarryJoin DEF B
  <2> HIDE DEF w3
  <2>28. Carries({v} \cup A \cup B, w4) /\ w4 \in Seq(Strings)
    BY <2>18, <2>23, <2>27, CarryJoin
  <2> HIDE DEF w4
  <2>29. \A q \in p .. (end - 1) :
           \/ q = p \/ q \in (p + 1) .. (v - 1) \/ q = v \/ q \in (v + 1) .. (in - 1) \/ q = in
           \/ q \in (in + 1) .. (start - 1) \/ q \in start .. (range - 1) \/ q = range
           \/ q \in (range + 1) .. (stop - 1) \/ q \in stop .. (end - 1)
    BY <1>1, <1>2, <2>2, <2>3, <2>5, <2>6, <2>7, <2>8, <2>10, <2>11, <2>12, <2>13, <2>21
  <2>30. \A q \in p .. (end - 1) : q \in {v} \cup A \cup B \/ ~Owed(Tok(q))
    BY <1>2, <2>3, <2>6, <2>11, <2>17, <2>29 DEF A, B
  <2>31. Carries(p .. (end - 1), w4)
    BY <2>28, <2>30, CarryQuiet
  <2>32. Moves(p, t)
    BY <2>21, <2>25, <2>28, <2>31 DEF Moves
  <2> QED BY <2>32 DEF t
<1> QED BY <1>3, <1>4

\* One turn of translate_tokens.
LEMMA TranslateMoves ==
  ASSUME TokensRight, NEW p \in 1 .. (Len(tokens) - 1)
  PROVE  Moves(p, Translate(p))
<1> DEFINE N == Len(tokens)
           t == Tok(p)
           z == p + 1
<1>1. N \in Nat \ {0} /\ p \in Int /\ z \in (p + 1) .. (N + 1) /\ z - 1 = p /\ p .. p = {p}
  BY TokFacts
<1>2. ASSUME NEW o \in Seq(Strings), ~Owed(t) PROVE Moves(p, [pos |-> p + 1, out |-> o])
  <2>1. Carries(p .. p, o)
    BY <1>1, <1>2, CarryNone
  <2> HIDE DEF z
  <2>2. Moves(p, [pos |-> z, out |-> o])
    BY <1>1, <2>1 DEF Moves
  <2> QED BY <2>2 DEF z
<1>3. \A w \in Keywords : IsWord(t, w) => ~Owed(t)
  BY Quiet
<1>4. "use" \in Keywords /\ "fn" \in Keywords /\ "let" \in Keywords /\ "var" \in Keywords
      /\ "null" \in Keywords /\ "loop" \in Keywords /\ "for" \in Keywords
  BY DEF Keywords
<1>5. \A x, y : IsWord(t, x) /\ IsWord(t, y) => x = y
  <2> SUFFICES ASSUME NEW x, NEW y, IsWord(t, x), IsWord(t, y) PROVE x = y
    OBVIOUS
  <2>1. t.text = <<x>> /\ t.text = <<y>>
    BY DEF IsWord
  <2> QED BY <2>1
<1> HIDE DEF t
<1>6. CASE IsWord(t, "use")
  <2>1. Translate(p) = translate_use(p)
    BY <1>5, <1>6 DEF Translate, t
  <2> QED BY <1>3, <1>4, <1>6, <2>1, UseMoves DEF t
<1>7. CASE IsWord(t, "fn")
  <2>1. Translate(p) = translate_fn(p)
    BY <1>5, <1>7 DEF Translate, t
  <2> QED BY <1>3, <1>4, <1>7, <2>1, FnMoves DEF t
<1>8. CASE IsWord(t, "let")
  <2> DEFINE k == <<"const", " ">>
             c == <<k>>
  <2>1. Translate(p) = Declare(p, c)
    BY <1>5, <1>8 DEF Translate, t, translate_let
  <2>2. "const" \in Written /\ " " \in Written
    BY DEF Written
  <2>3. k \in Strings
    BY <2>2, WrittenTexts
  <2> HIDE DEF k
  <2>4. c \in Seq(Strings)
    BY <2>3, Tuples
  <2> HIDE DEF c
  <2>5. ~Owed(Tok(p))
    BY <1>3, <1>4, <1>8 DEF t
  <2> QED BY <2>1, <2>4, <2>5, DeclareMoves
<1>9. CASE IsWord(t, "var")
  <2>1. Translate(p) = Declare(p, <<>>)
    BY <1>5, <1>9 DEF Translate, t, translate_var
  <2>2. ~Owed(Tok(p))
    BY <1>3, <1>4, <1>9 DEF t
  <2>3. <<>> \in Seq(Strings)
    OBVIOUS
  <2> QED BY <2>1, <2>2, <2>3, DeclareMoves
<1>10. CASE IsWord(t, "null")
  <2> DEFINE k == <<"NULL">>
             o == <<k>>
  <2>1. Translate(p) = [pos |-> p + 1, out |-> o]
    BY <1>5, <1>10 DEF Translate, t
  <2>2. "NULL" \in Written
    BY DEF Written
  <2>3. k \in Strings
    BY <2>2, WrittenTexts
  <2> HIDE DEF k
  <2>4. o \in Seq(Strings)
    BY <2>3, Tuples
  <2> HIDE DEF o
  <2> QED BY <1>2, <1>3, <1>4, <1>10, <2>1, <2>4
<1>11. CASE IsWord(t, "loop")
  <2> DEFINE k == <<"while", " (", "1", ")">>
             o == <<k>>
  <2>1. Translate(p) = [pos |-> p + 1, out |-> o]
    BY <1>5, <1>11 DEF Translate, t
  <2>2. "while" \in Fragment /\ " (" \in Fragment /\ "1" \in Fragment /\ ")" \in Fragment
    BY DEF Written, Fragment
  <2>3. k \in Strings
    <3>1. ASSUME NEW a \in Fragment, NEW b \in Fragment, NEW c \in Fragment, NEW d \in Fragment
          PROVE  <<a, b, c, d>> \in Seq(Fragment)
      OBVIOUS
    <3> QED BY <2>2, <3>1 DEF Strings
  <2> HIDE DEF k
  <2>4. o \in Seq(Strings)
    BY <2>3, Tuples
  <2> HIDE DEF o
  <2> QED BY <1>2, <1>3, <1>4, <1>11, <2>1, <2>4
<1>12. CASE IsWord(t, "for")
  <2>1. Translate(p) = try_translate_for_range(p)
    BY <1>5, <1>12 DEF Translate, t
  <2> QED BY <1>3, <1>4, <1>12, <2>1, ForMoves DEF t
<1>13. CASE /\ ~IsWord(t, "use") /\ ~IsWord(t, "fn") /\ ~IsWord(t, "let") /\ ~IsWord(t, "var")
            /\ ~IsWord(t, "null") /\ ~IsWord(t, "loop") /\ ~IsWord(t, "for")
  <2> DEFINE o == <<Mapped(Tok(p))>>
  <2>1. Translate(p) = [pos |-> z, out |-> o]
    BY <1>13 DEF Translate, t
  <2>2. o \in Seq(Strings) /\ Carries({p}, o)
    BY <1>1, CarryOne
  <2> HIDE DEF o, z
  <2>3. Moves(p, [pos |-> z, out |-> o])
    BY <1>1, <2>2 DEF Moves
  <2> QED BY <2>1, <2>3
<1> QED BY <1>6, <1>7, <1>8, <1>9, <1>10, <1>11, <1>12, <1>13

-----------------------------------------------------------------------------
(* The compiler: from the file to the output *)

ScInv ==
  /\ src \in Text
  /\ stage \in {"args", "lex"} =>
       pos \in 1 .. (Len(src) + 1) /\ tokens \in Seq(LexToken) /\ tpos = 1 /\ out = <<>>
  /\ stage \in {"translate", "output", "gcc"} =>
       /\ TokensRight /\ tpos \in 1 .. (Len(tokens) + 1)
       /\ out \in Seq(Strings) /\ Carries(1 .. (tpos - 1), out)
  /\ stage \in {"output", "gcc"} => Tok(tpos).type = "eof"

\* A token of the lexer.
LEMMA LexedToken ==
  ASSUME NEW s \in Text, NEW p \in 1 .. Len(s), NEW ty, NEW e, ScanFact(s, p, ty, e)
  PROVE  [type |-> ty, text |-> SubSeq(s, p, e - 1)] \in LexToken
<1> DEFINE y == SubSeq(s, p, e - 1)
<1>1. Len(s) \in Nat /\ p \in Nat
  BY SourceFacts
<1>2. ty \in TokenTypes /\ e \in (p + 1) .. (Len(s) + 1)
      /\ (s[p] \in DOMAIN TypeNames => \A q \in p .. (e - 1) : s[q] \notin Blanks)
  BY DEF ScanFact
<1>3. s \in Strings
  <2>1. \A k \in 1 .. Len(s) : s[k] \in Fragment
    BY DEF Text, Fragment
  <2>2. s = [k \in 1 .. Len(s) |-> s[k]]
    BY DEF Text
  <2> QED BY <1>1, <2>1, <2>2 DEF Strings
<1>4. y \in Strings /\ Len(y) = e - p /\ \A k \in 1 .. (e - p) : y[k] = s[p + k - 1]
  BY <1>1, <1>2, <1>3 DEF Strings
<1> HIDE DEF y
<1>5. Apart(y)
  <2> SUFFICES ASSUME y[1] \in DOMAIN TypeNames, NEW k \in 1 .. (e - p) PROVE y[k] \notin Blanks
    BY <1>4 DEF Apart
  <2>1. y[1] = s[p] /\ p + k - 1 \in p .. (e - 1)
    BY <1>1, <1>2, <1>4
  <2> QED BY <1>2, <1>4, <2>1
<1> QED BY <1>2, <1>4, <1>5 DEF LexToken, y

\* Nothing is read yet.
LEMMA ScInvInit ==
  ScInit => ScInv
<1> SUFFICES ASSUME ScInit PROVE ScInv
  OBVIOUS
<1>1. src \in Text
  BY SourcesAssumption DEF ScInit, Text
<1>2. Len(src) \in Nat
  BY <1>1, SourceFacts
<1>3. 1 \in 1 .. (Len(src) + 1) /\ <<>> \in Seq(LexToken)
  BY <1>2
<1> QED BY <1>1, <1>3 DEF ScInit, ScInv

\* Each step of transpile and main keeps ScInv.
LEMMA ScInvNext ==
  ScInv /\ [ScNext]_scVars => ScInv'
<1> SUFFICES ASSUME ScInv, [ScNext]_scVars PROVE ScInv'
  OBVIOUS
<1> USE DEF Exit
<1>0. ASSUME UNCHANGED <<tokens, tpos, out>>
      PROVE  /\ TokensRight => TokensRight'
             /\ Carries(1 .. (tpos - 1), out) => Carries(1 .. (tpos - 1), out)'
             /\ Tok(tpos).type = "eof" => Tok(tpos)'.type = "eof"
  <2>1. TokensRight => TokensRight'
    BY <1>0 DEF TokensRight
  <2>2. Carries(1 .. (tpos - 1), out) => Carries(1 .. (tpos - 1), out)'
    <3>1. \A k : Tok(k)' = Tok(k)
      BY <1>0 DEF Tok
    <3>2. Own(1 .. (tpos - 1))' = Own(1 .. (tpos - 1))
      BY <1>0, <3>1 DEF Own
    <3> QED BY <1>0, <3>1, <3>2 DEF Carries
  <2>3. Tok(tpos).type = "eof" => Tok(tpos)'.type = "eof"
    BY <1>0 DEF Tok
  <2> QED BY <2>1, <2>2, <2>3
<1>1. CASE UNCHANGED scVars
  BY <1>0, <1>1 DEF scVars, ScInv
<1>2. ASSUME UNCHANGED <<src, pos, tokens, tpos, out>>,
             \/ stage' = "done"
             \/ stage = "args" /\ stage' = "lex"
             \/ stage = "output" /\ stage' = "gcc"
             \/ stage = "translate" /\ stage' = "output" /\ Tok(tpos).type = "eof"
      PROVE  ScInv'
  BY <1>0, <1>2 DEF ScInv
<1>3. CASE ParseArgs
  BY <1>2, <1>3 DEF ParseArgs
<1>4. CASE read_file
  BY <1>2, <1>4 DEF read_file
<1>5. CASE LexOne
  <2> DEFINE t == Scan(src, pos)
             x == [type |-> t.type, text |-> SubSeq(src, pos, t.end - 1)]
  <2>1. src \in Text /\ pos \in 1 .. Len(src) /\ tokens \in Seq(LexToken) /\ tpos = 1 /\ out = <<>>
    <3>1. src \in Text /\ pos \in 1 .. (Len(src) + 1) /\ pos <= Len(src)
      BY <1>5 DEF ScInv, LexOne
    <3>2. pos \in 1 .. Len(src)
      BY <3>1, SourceFacts
    <3> QED BY <1>5, <3>1, <3>2 DEF ScInv, LexOne
  <2>2. ScanFact(src, pos, t.type, t.end)
    BY <2>1, ScanFacts
  <2>3. x \in LexToken
    BY <2>1, <2>2, LexedToken
  <2>4. t.end \in 1 .. (Len(src) + 1)
    <3>1. t.end \in (pos + 1) .. (Len(src) + 1)
      BY <2>2 DEF ScanFact
    <3> HIDE DEF t
    <3> QED BY <2>1, <3>1, SourceFacts
  <2>5. /\ tokens' = Append(tokens, x) /\ pos' = t.end /\ stage = "lex"
        /\ UNCHANGED <<src, tpos, out, stage>>
    BY <1>5 DEF LexOne
  <2> HIDE DEF x, t
  <2>6. tokens' \in Seq(LexToken)
    BY <2>1, <2>3, <2>5
  <2> QED BY <2>1, <2>4, <2>5, <2>6 DEF ScInv
<1>6. CASE LexEnd
  <2>1. /\ src \in Text /\ tokens \in Seq(LexToken) /\ tpos = 1 /\ out = <<>>
        /\ tokens' = Append(tokens, EOF) /\ UNCHANGED <<src, tpos, out>> /\ stage' = "translate"
    BY <1>6 DEF ScInv, LexEnd
  <2>2. TokensRight'
    <3> DEFINE w == Append(tokens, EOF)
    <3>1. Len(tokens) \in Nat /\ \A k \in 1 .. Len(tokens) : tokens[k] \in LexToken
      BY <2>1
    <3>2. tokens \in Seq(LexToken \cup {EOF})
      BY <2>1, SeqMonotonic
    <3>3. /\ w \in Seq(LexToken \cup {EOF}) /\ Len(w) = Len(tokens) + 1
          /\ w[Len(tokens) + 1] = EOF /\ \A k \in 1 .. Len(tokens) : w[k] = tokens[k]
      BY <3>2
    <3> HIDE DEF w
    <3>4. /\ w \in Seq(LexToken \cup {EOF}) /\ Len(w) >= 1 /\ w[Len(w)] = EOF
          /\ \A k \in 1 .. (Len(w) - 1) : w[k] \in LexToken
      BY <3>1, <3>3
    <3>5. tokens' = w
      BY <2>1 DEF w
    <3> QED BY <3>4, <3>5 DEF TokensRight
  <2>3. tpos' \in 1 .. (Len(tokens') + 1) /\ 1 .. (tpos' - 1) = {}
    <3>1. Len(tokens') \in Nat
      BY <2>2 DEF TokensRight
    <3> QED BY <2>1, <3>1
  <2>4. out' \in Seq(Strings)
    BY <2>1
  <2>5. Carries(1 .. (tpos - 1), out)'
    <3>1. Own(1 .. (tpos - 1))' = {}
      BY <2>3 DEF Own
    <3> DEFINE f == [i \in {} |-> 0]
    <3>2. f \in [{} -> DOMAIN out']
      OBVIOUS
    <3> QED BY <3>1, <3>2 DEF Carries
  <2> QED BY <2>1, <2>2, <2>3, <2>4, <2>5 DEF ScInv
<1>7. CASE TranslateOne
  <2> DEFINE t == Translate(tpos)
             n == Len(tokens)
  <2>1. /\ TokensRight /\ tpos \in 1 .. (n + 1) /\ out \in Seq(Strings)
        /\ Carries(1 .. (tpos - 1), out) /\ src \in Text
        /\ Tok(tpos).type # "eof" /\ tpos' = t.pos /\ out' = out \o t.out
        /\ UNCHANGED <<src, tokens, stage>> /\ stage = "translate"
    BY <1>7 DEF ScInv, TranslateOne
  <2>2. tpos \in 1 .. (n - 1)
    BY <2>1, TokFacts DEF EOF
  <2>3. Moves(tpos, t)
    BY <2>1, <2>2, TranslateMoves
  <2> HIDE DEF t
  <2>4. /\ t.pos \in (tpos + 1) .. (n + 1) /\ t.out \in Seq(Strings)
        /\ Carries(tpos .. (t.pos - 1), t.out)
    BY <2>3 DEF Moves
  <2>5. n \in Nat
    BY <2>1, TokFacts
  <2>6. \A k \in 1 .. (t.pos - 1) : k \in 1 .. (tpos - 1) \/ k \in tpos .. (t.pos - 1)
    BY <2>1, <2>4, <2>5
  <2> DEFINE z == t.pos
             w == t.out
             a == out
  <2>7. 1 .. (z - 1) \subseteq 1 .. (tpos - 1) \cup tpos .. (z - 1)
    BY <2>6
  <2>8. w \in Seq(Strings) /\ Carries(tpos .. (z - 1), w) /\ z \in 1 .. (n + 1)
    BY <2>2, <2>4, <2>5
  <2> HIDE DEF w, z
  <2>9. Carries(1 .. (z - 1), out \o w) /\ out \o w \in Seq(Strings)
    BY <2>1, <2>7, <2>8, CarryJoin
  <2>10. tpos' = z /\ out' = out \o w
    BY <2>1 DEF z, w
  <2> DEFINE o == out \o w
  <2>11. tpos' = z /\ out' = o /\ Carries(1 .. (z - 1), o) /\ o \in Seq(Strings)
    BY <2>9, <2>10
  <2> HIDE DEF o
  <2>12. Carries(1 .. (tpos - 1), out)'
    BY <2>1, <2>11 DEF Carries, Own, Tok
  <2>13. TokensRight'
    BY <2>1 DEF TokensRight
  <2> QED BY <2>1, <2>8, <2>11, <2>12, <2>13 DEF ScInv
<1>8. CASE BuildOutput
  BY <1>2, <1>8 DEF BuildOutput
<1>9. CASE EmitC
  BY <1>2, <1>9 DEF EmitC
<1>10. CASE WriteTemp
  BY <1>2, <1>10 DEF WriteTemp
<1>11. CASE Compile
  BY <1>2, <1>11 DEF Compile
<1>12. CASE Ended
  BY <1>1, <1>12 DEF Ended
<1> QED
  BY <1>1, <1>3, <1>4, <1>5, <1>6, <1>7, <1>8, <1>9, <1>10, <1>11, <1>12 DEF ScNext

\* ScInv on every file.
LEMMA ScInvHolds ==
  ScSpec => []ScInv
BY ScInvInit, ScInvNext, PTL DEF ScSpec

(***************************************************************************)
(* No loop of the lexer or the translator stands still or runs past its    *)
(* array: each turn of lexer_next moves lex.pos, each turn of              *)
(* translate_tokens moves tr.pos, and neither beyond one past the end.     *)
(***************************************************************************)
THEOREM LoopsAdvanceHolds ==
  ScSpec => []LoopsAdvance
<1>1. ScInv => LoopsAdvance
  <2> SUFFICES ASSUME ScInv PROVE LoopsAdvance
    OBVIOUS
  <2>1. ASSUME stage = "lex", pos <= Len(src)
        PROVE  Scan(src, pos).end \in (pos + 1) .. (Len(src) + 1)
    <3>1. src \in Text /\ pos \in 1 .. (Len(src) + 1)
      BY <2>1 DEF ScInv
    <3>2. pos \in 1 .. Len(src)
      BY <2>1, <3>1, SourceFacts
    <3> QED BY <3>1, <3>2, ScanFacts DEF ScanFact
  <2>2. ASSUME stage = "translate", Tok(tpos).type # "eof"
        PROVE  Translate(tpos).pos \in (tpos + 1) .. (Len(tokens) + 1)
    <3>1. TokensRight
      BY <2>2 DEF ScInv
    <3>2. tpos \in 1 .. (Len(tokens) - 1)
      BY <2>2, <3>1, TokFacts DEF EOF
    <3> QED BY <3>1, <3>2, TranslateMoves DEF Moves
  <2> QED BY <2>1, <2>2 DEF LoopsAdvance
<1> QED BY <1>1, ScInvHolds, PTL

(***************************************************************************)
(* The translator drops nothing the programmer wrote: however malformed    *)
(* the file, every name, number, literal, comment and operator is in the   *)
(* C text as often as in the source, whichever translate_* consumed it.    *)
(***************************************************************************)
THEOREM NothingLostHolds ==
  ScSpec => []NothingLost
<1>1. ScInv => NothingLost
  <2> SUFFICES ASSUME ScInv, stage = "output" PROVE NothingLost
    BY DEF NothingLost
  <2> DEFINE owed == [i \in DOMAIN tokens |->
                        IF Owed(tokens[i]) THEN Same(tokens[i].text) ELSE <<>>]
             given == [i \in DOMAIN out |-> Same(out[i])]
  <2>1. /\ TokensRight /\ tpos \in 1 .. (Len(tokens) + 1) /\ out \in Seq(Strings)
        /\ Carries(1 .. (tpos - 1), out) /\ Tok(tpos).type = "eof"
    BY DEF ScInv
  <2>2. ASSUME NEW t, t # <<>>
        PROVE  Cardinality({i \in DOMAIN owed : owed[i] = t})
                 <= Cardinality({i \in DOMAIN given : given[i] = t})
    <3> DEFINE A == {i \in DOMAIN owed : owed[i] = t}
               B == {i \in DOMAIN given : given[i] = t}
               M == 1 .. (tpos - 1)
    <3>1. PICK f \in [Own(M) -> DOMAIN out] :
            /\ \A i, j \in Own(M) : f[i] = f[j] => i = j
            /\ \A i \in Own(M) : Same(out[f[i]]) = Same(Tok(i).text)
      BY <2>1 DEF Carries
    <3>2. ASSUME NEW i \in A PROVE i \in Own(M) /\ Same(Tok(i).text) = t
      <4>1. i \in DOMAIN tokens /\ Tok(i) = tokens[i]
        BY DEF Tok
      <4>2. Owed(Tok(i)) /\ Same(Tok(i).text) = t
        BY <2>2, <4>1
      <4>3. Tok(i).type # "eof"
        BY <4>2, Quiet
      <4>4. i \in 1 .. (Len(tokens) - 1)
        BY <2>1, <4>3, TokFacts DEF EOF
      <4>5. tpos \notin 1 .. (Len(tokens) - 1)
        BY <2>1, TokFacts
      <4>6. i \in M
        BY <2>1, <4>4, <4>5, TokFacts
      <4> QED BY <2>2, <4>2, <4>6 DEF Own
    <3> DEFINE g == [i \in A |-> f[i]]
    <3>3. ASSUME NEW i \in A PROVE g[i] = f[i] /\ g[i] \in B
      <4>1. i \in Own(M) /\ f[i] \in DOMAIN out /\ Same(out[f[i]]) = t
        BY <3>1, <3>2
      <4> QED BY <4>1
    <3>4. g \in [A -> B]
      BY <3>3
    <3>5. \A i, j \in A : g[i] = g[j] => i = j
      BY <3>1, <3>2, <3>3
    <3> HIDE DEF g
    <3>6. g \in Injection(A, B)
      BY <3>4, <3>5 DEF Injection, IsInjective
    <3>7. IsFiniteSet(B)
      <4>1. Len(out) \in Nat /\ DOMAIN out = 1 .. Len(out)
        BY <2>1
      <4>2. IsFiniteSet(DOMAIN out)
        BY <4>1, FS_Interval
      <4>3. B \in SUBSET DOMAIN out
        OBVIOUS
      <4> HIDE DEF B
      <4> QED BY <4>2, <4>3, FS_Subset
    <3> HIDE DEF A, B
    <3>8. Cardinality(A) <= Cardinality(B)
      BY <3>6, <3>7, FS_Injection
    <3> QED BY <3>8 DEF A, B
  <2> HIDE DEF owed, given
  <2>3. \A t \in ToSet(owed) \ {<<>>} :
          Cardinality({i \in DOMAIN owed : owed[i] = t})
            <= Cardinality({i \in DOMAIN given : given[i] = t})
    BY <2>2
  <2> QED BY <2>3 DEF NothingLost, owed, given, Same
<1> QED BY <1>1, ScInvHolds, PTL

-----------------------------------------------------------------------------
(* The compiler: the comments and literals of a source *)

States == {"code", "line", "open", "block", "close", "string", "char",
           "stringEscape", "charEscape"}

\* Every state leads to a state.
LEMMA RegionType ==
  ASSUME NEW st \in States, NEW c, NEW d
  PROVE  Region(st, c, d) \in States
BY DEF Region, States

\* The state after each character follows from the one before.
Reads(s, r) ==
  /\ r[0] = "code" /\ \A i \in 0 .. Len(s) : r[i] \in States
  /\ \A i \in 1 .. Len(s) : r[i] = Region(r[i - 1], s[i], peek(s, i + 1))

RegionsRule(s, f) ==
  [i \in 0 .. Len(s) |-> IF i = 0 THEN "code" ELSE Region(f[i - 1], s[i], peek(s, i + 1))]

\* The reader of the reference is such a function.
LEMMA RegionsRead ==
  ASSUME NEW s \in Text
  PROVE  Reads(s, Regions(s))
<1> DEFINE L == Len(s)
           h == [x \in (1 .. L) \X States |-> Region(x[2], s[x[1]], peek(s, x[1] + 1))]
           a == "code"
<1>1. L \in Nat
  BY SourceFacts
<1>2. h \in [(1 .. L) \X States -> States]
  <2> SUFFICES ASSUME NEW x \in (1 .. L) \X States PROVE h[x] \in States
    OBVIOUS
  <2>1. x[2] \in States
    OBVIOUS
  <2> QED BY <2>1, RegionType
<1>3. a \in States
  BY DEF States
<1>4. \A i \in 1 .. L : \A st \in States : h[<<i, st>>] = Region(st, s[i], peek(s, i + 1))
  OBVIOUS
<1> HIDE DEF h, L, a
<1>5. Follows(L, States, a, h)
  BY <1>1, <1>2, <1>3, Primitive
<1>6. PICK g \in [0 .. L -> States] : g[0] = a /\ \A i \in 1 .. L : g[i] = h[<<i, g[i - 1]>>]
  BY <1>5 DEF Follows
<1>7. ASSUME NEW i \in 0 .. L PROVE g[i] = RegionsRule(s, g)[i]
  <2>1. RegionsRule(s, g)[i] = IF i = 0 THEN "code" ELSE Region(g[i - 1], s[i], peek(s, i + 1))
    BY DEF RegionsRule, L
  <2>2. CASE i = 0
    BY <1>6, <2>1, <2>2 DEF a
  <2>3. CASE i # 0
    <3>1. i \in 1 .. L /\ i - 1 \in 0 .. L
      BY <1>1, <2>3
    <3>2. g[i - 1] \in States
      BY <1>6, <3>1
    <3> QED BY <1>4, <1>6, <2>1, <2>3, <3>1, <3>2
  <2> QED BY <2>2, <2>3
<1>8. g = RegionsRule(s, g)
  <2>1. g = [i \in 0 .. L |-> g[i]]
    BY <1>6
  <2>2. RegionsRule(s, g) = [i \in 0 .. L |-> RegionsRule(s, g)[i]]
    BY DEF RegionsRule, L
  <2> QED BY <1>7, <2>1, <2>2
<1> DEFINE r == CHOOSE f : f = RegionsRule(s, f)
<1>9. r = RegionsRule(s, r)
  BY <1>8
<1>10. r = Regions(s)
  BY DEF Regions, RegionsRule
<1> HIDE DEF r
<1>11. r[0] = "code" /\ \A i \in 1 .. L : r[i] = Region(r[i - 1], s[i], peek(s, i + 1))
  <2>1. \A i \in 0 .. L :
          RegionsRule(s, r)[i] = IF i = 0 THEN "code" ELSE Region(r[i - 1], s[i], peek(s, i + 1))
    BY DEF RegionsRule, L
  <2>2. 0 \in 0 .. L /\ \A i \in 1 .. L : i \in 0 .. L /\ i # 0
    BY <1>1
  <2> QED BY <1>9, <2>1, <2>2
<1>12. \A i \in 0 .. L : r[i] \in States
  <2> DEFINE S == {i \in Nat : i <= L => r[i] \in States}
  <2>1. 0 \in S
    BY <1>11 DEF States
  <2>2. ASSUME NEW i \in S PROVE i + 1 \in S
    <3>1. i \in Nat /\ i + 1 \in Nat
      OBVIOUS
    <3>2. CASE i + 1 <= L
      <4>1. i + 1 \in 1 .. L /\ i + 1 - 1 = i /\ i <= L
        BY <1>1, <3>1, <3>2
      <4>2. r[i] \in States
        BY <4>1
      <4>3. r[i + 1] = Region(r[i], s[i + 1], peek(s, i + 1 + 1))
        BY <1>11, <4>1
      <4>4. r[i + 1] \in States
        BY <4>2, <4>3, RegionType
      <4> QED BY <3>1, <4>4
    <3>3. CASE ~(i + 1 <= L)
      BY <3>1, <3>3
    <3> QED BY <3>2, <3>3
  <2>3. S \in SUBSET Nat
    OBVIOUS
  <2> HIDE DEF S
  <2>4. S = Nat
    BY <2>1, <2>2, <2>3, NatSet
  <2>5. \A i \in 0 .. L : i \in S /\ i <= L
    BY <1>1, <2>4
  <2> QED BY <2>5 DEF S
<1> QED BY <1>10, <1>11, <1>12 DEF Reads, L

\* A state that no character ends stays.
Lingers(s, st, a, b) == \A q \in (a + 1) .. b : Region(st, s[q], peek(s, q + 1)) = st

\* From one character to another that all leave the state alone.
LEMMA StateStays ==
  ASSUME NEW s \in Text, NEW r, Reads(s, r), NEW a \in Nat, NEW b \in Int, b <= Len(s),
         NEW st, r[a] = st, Lingers(s, st, a, b)
  PROVE  \A q \in a .. b : r[q] = st
<1> DEFINE Bad == {q \in a .. b : r[q] # st}
           m == Min(Bad)
<1>1. Len(s) \in Nat
  BY SourceFacts
<1> SUFFICES ASSUME Bad # {} PROVE FALSE
  OBVIOUS
<1>2. Bad \in SUBSET Nat
  OBVIOUS
<1>3. m \in Bad /\ \A k \in Bad : m <= k
  BY <1>2, MinIn
<1> HIDE DEF m
<1>4. m \in a .. b /\ r[m] # st
  BY <1>3
<1>5. m # a
  BY <1>4
<1>6. m \in (a + 1) .. b /\ m \in 1 .. Len(s) /\ m - 1 \in a .. b /\ ~(m <= m - 1)
  BY <1>1, <1>4, <1>5
<1>7. r[m - 1] = st
  BY <1>3, <1>6
<1>8. r[m] = Region(st, s[m], peek(s, m + 1))
  BY <1>6, <1>7 DEF Reads
<1> QED BY <1>4, <1>6, <1>8 DEF Lingers

\* Where nothing opens, code stays code.
LEMMA CodeStays ==
  ASSUME NEW s \in Text, NEW r, Reads(s, r), NEW p \in 1 .. Len(s), NEW e \in p .. (Len(s) + 1),
         r[p - 1] = "code", \A q \in p .. (e - 1) : Plain(s, q)
  PROVE  \A q \in (p - 1) .. (e - 1) : r[q] = "code"
<1> DEFINE a == p - 1
           b == e - 1
<1>1. a \in Nat /\ b \in Int /\ b <= Len(s) /\ a + 1 = p
  BY SourceFacts
<1>2. ASSUME NEW q \in p .. b PROVE Region("code", s[q], peek(s, q + 1)) = "code"
  <2>1. Plain(s, q)
    OBVIOUS
  <2> QED BY <2>1 DEF Region, Plain
<1>3. r[a] = "code" /\ Lingers(s, "code", a, b)
  <2>1. r[a] = "code"
    OBVIOUS
  <2> HIDE DEF a, b
  <2> QED BY <1>1, <1>2, <2>1 DEF Lingers
<1> HIDE DEF a, b
<1>4. \A q \in a .. b : r[q] = "code"
  BY <1>1, <1>3, StateStays
<1> QED BY <1>4 DEF a, b

\* What a comment or a literal is: not code up to its last character.
Encloses(r, p, e) == r[e - 1] = "code" /\ \A q \in p .. (e - 2) : r[q] # "code"

\* A line comment is one up to the character before its newline.
LEMMA LineEncloses ==
  ASSUME NEW s \in Text, NEW r, Reads(s, r), NEW p \in 1 .. Len(s), r[p - 1] = "code",
         s[p] = "/", peek(s, p + 1) = "/"
  PROVE  r[p] # "code" /\ Encloses(r, p, LineCommentEnd(s, p))
<1> DEFINE L == Len(s)
           e == LineCommentEnd(s, p)
           b == e - 2
<1>1. L \in Nat /\ p \in Nat
  BY SourceFacts
<1>2. /\ e \in (p + 1) .. (L + 1) /\ peek(s, e) \in {NUL, "\n"}
      /\ \A q \in p .. (e - 1) : peek(s, q) \notin {NUL, "\n"}
  BY LineFacts
<1> HIDE DEF e
<1>3. e # p + 1
  BY <1>2 DEF NUL
<1>4. r[p] = "line"
  <2>1. r[p] = Region("code", "/", "/")
    BY DEF Reads
  <2> QED BY <2>1 DEF Region
<1>5. b \in Int /\ b <= L /\ e - 1 \in 1 .. L /\ e - 1 + 1 = e /\ b \in p .. b /\ e - 1 - 1 = b
  BY <1>1, <1>2, <1>3
<1>6. ASSUME NEW q \in (p + 1) .. b PROVE Region("line", s[q], peek(s, q + 1)) = "line"
  <2>1. q + 1 \in p .. (e - 1)
    BY <1>1, <1>2
  <2>2. peek(s, q + 1) \notin {NUL, "\n"}
    BY <1>2, <2>1
  <2> QED BY <2>2 DEF Region
<1>7. \A q \in p .. b : r[q] = "line"
  <2> HIDE DEF b
  <2>1. Lingers(s, "line", p, b)
    BY <1>6 DEF Lingers
  <2>2. b \in Int /\ b <= Len(s)
    BY <1>5
  <2> QED BY <1>1, <1>4, <2>1, <2>2, StateStays
<1>8. r[e - 1] = "code"
  <2> DEFINE z == e - 1
  <2>1. z \in 1 .. L /\ z - 1 = b /\ z + 1 = e
    BY <1>5
  <2> HIDE DEF z, b
  <2>2. r[z] = Region(r[b], s[z], peek(s, e)) /\ r[b] = "line"
    BY <1>5, <1>7, <2>1 DEF Reads
  <2>3. r[z] = "code"
    BY <1>2, <2>2 DEF Region
  <2> QED BY <2>3 DEF z
<1> QED BY <1>4, <1>7, <1>8 DEF Encloses, e

\* A block comment that is closed is one up to its closing pair.
LEMMA BlockEncloses ==
  ASSUME NEW s \in Text, NEW r, Reads(s, r), NEW p \in 1 .. Len(s), r[p - 1] = "code",
         s[p] = "/", peek(s, p + 1) = "*", r[Len(s)] = "code"
  PROVE  r[p] # "code" /\ Encloses(r, p, BlockCommentEnd(s, p))
<1> DEFINE L == Len(s)
           e == BlockCommentEnd(s, p)
<1>1. L \in Nat /\ p \in Nat
  BY SourceFacts
<1>2. p + 1 \in 1 .. L
  BY SourceFacts DEF NUL
<1>3. r[p] = "open"
  <2>1. r[p] = Region("code", "/", "*")
    BY DEF Reads
  <2> QED BY <2>1 DEF Region
<1>4. r[p + 1] = "block"
  <2>1. p + 1 - 1 = p
    BY <1>1
  <2>2. r[p + 1] = Region("open", s[p + 1], peek(s, p + 1 + 1))
    BY <1>2, <1>3, <2>1 DEF Reads
  <2> QED BY <2>2 DEF Region
<1>5. \/ \A q \in (p + 2) .. (L - 1) : ~Closes(s, q)
      \/ /\ e - 2 \in (p + 2) .. (L - 1) /\ Closes(s, e - 2)
         /\ \A q \in (p + 2) .. (e - 3) : ~Closes(s, q)
  BY <1>1, <1>2, BlockFacts
<1>6. ASSUME NEW q \in 1 .. L, q < L => ~Closes(s, q)
      PROVE  Region("block", s[q], peek(s, q + 1)) = "block"
  <2>1. CASE q < L
    <3>1. q + 1 \in 1 .. L
      BY <1>1, <2>1
    <3>2. peek(s, q + 1) = s[q + 1]
      BY <3>1, SourceFacts
    <3> QED BY <1>6, <2>1, <3>2 DEF Region, Closes
  <2>2. CASE ~(q < L)
    <3>1. q + 1 \notin 1 .. L
      BY <1>1, <2>2
    <3>2. peek(s, q + 1) # "/"
      BY <3>1, SourceFacts DEF NUL
    <3> QED BY <3>2 DEF Region
  <2> QED BY <2>1, <2>2
<1> DEFINE a == p + 1
<1>7. a \in Nat /\ a + 1 = p + 2 /\ r[a] = "block" /\ a <= L
  BY <1>1, <1>2, <1>4
<1> HIDE DEF a, e
<1>8. ~(\A q \in (p + 2) .. (L - 1) : ~Closes(s, q))
  <2> SUFFICES ASSUME \A q \in (p + 2) .. (L - 1) : ~Closes(s, q) PROVE FALSE
    OBVIOUS
  <2>1. ASSUME NEW q \in (a + 1) .. L PROVE Region("block", s[q], peek(s, q + 1)) = "block"
    <3>1. q \in 1 .. L /\ (q < L => q \in (p + 2) .. (L - 1))
      BY <1>1, <1>7
    <3> QED BY <1>6, <3>1
  <2>2. \A q \in a .. L : r[q] = "block"
    <3>1. Lingers(s, "block", a, L)
      BY <2>1 DEF Lingers
    <3> QED BY <1>1, <1>7, <3>1, StateStays
  <2>3. L \in a .. L
    BY <1>1, <1>7
  <2> QED BY <2>2, <2>3
<1> DEFINE m == e - 2
           b == e - 3
<1>9. m \in (p + 2) .. (L - 1) /\ Closes(s, m) /\ \A q \in (p + 2) .. b : ~Closes(s, q)
  BY <1>5, <1>8
<1>10. m \in Int /\ b \in Int /\ b = m - 1 /\ e - 1 = m + 1 /\ b \in a .. b /\ b < L
       /\ m \in 1 .. L /\ m + 1 \in 1 .. L /\ e \in Int
  <2>1. e - 2 \in Int
    BY <1>9
  <2>2. e \in Int
    <3>1. e \in (p + 2) .. (L + 1)
      BY <1>1, <1>2, BlockFacts DEF e
    <3> QED BY <3>1
  <2> QED BY <1>1, <1>7, <1>9, <2>2
<1>11. \A q \in a .. b : r[q] = "block"
  <2>1. ASSUME NEW q \in (a + 1) .. b PROVE Region("block", s[q], peek(s, q + 1)) = "block"
    <3>1. q \in 1 .. L /\ q \in (p + 2) .. b
      BY <1>1, <1>7, <1>10
    <3> QED BY <1>6, <1>9, <3>1
  <2> HIDE DEF b
  <2>2. b <= L
    BY <1>1, <1>10
  <2>3. Lingers(s, "block", a, b)
    BY <2>1 DEF Lingers
  <2> QED BY <1>7, <1>10, <2>2, <2>3, StateStays
<1> HIDE DEF m, b
<1>12. r[m] = "close"
  <2>1. r[m] = Region("block", s[m], peek(s, m + 1))
    BY <1>10, <1>11 DEF Reads
  <2>2. peek(s, m + 1) = "/" /\ s[m] = "*"
    BY <1>9, <1>10, SourceFacts DEF Closes
  <2> QED BY <2>1, <2>2 DEF Region
<1>13. r[m + 1] = "code"
  <2>1. m + 1 - 1 = m
    BY <1>10
  <2>2. r[m + 1] = Region("close", s[m + 1], peek(s, m + 1 + 1))
    BY <1>10, <1>12, <2>1 DEF Reads
  <2> QED BY <2>2 DEF Region
<1>14. ASSUME NEW q \in p .. m PROVE r[q] # "code"
  <2>1. q = p \/ q \in a .. b \/ q = m
    BY <1>1, <1>7, <1>10 DEF a
  <2> QED BY <1>3, <1>11, <1>12, <2>1
<1> QED BY <1>3, <1>10, <1>13, <1>14 DEF Encloses, e, m

\* The states a quote leads to.
Quotes(c, st, esc) == \/ c = "\"" /\ st = "string" /\ esc = "stringEscape"
                      \/ c = "'" /\ st = "char" /\ esc = "charEscape"

\* A literal: an escaped quote does not end it.
LEMMA QuotedEncloses ==
  ASSUME NEW s \in Text, NEW r, Reads(s, r), NEW p \in 1 .. Len(s), r[p - 1] = "code",
         r[Len(s)] = "code",
         NEW st, NEW esc, Quotes(s[p], st, esc)
  PROVE  r[p] # "code" /\ Encloses(r, p, QuotedEnd(s, p))
<1> DEFINE L == Len(s)
<1>1. L \in Nat /\ p \in Nat
  BY SourceFacts
<1>2. /\ st # "code" /\ esc # "code" /\ s[p] # "\\"
      /\ \A c, d : /\ Region(st, c, d) = IF c = "\\" THEN esc ELSE IF c = s[p] THEN "code" ELSE st
                   /\ Region(esc, c, d) = st
      /\ \A d : Region("code", s[p], d) = st
  <2>1. CASE s[p] = "\"" /\ st = "string" /\ esc = "stringEscape"
    BY <2>1 DEF Region
  <2>2. CASE s[p] = "'" /\ st = "char" /\ esc = "charEscape"
    BY <2>2 DEF Region
  <2> QED BY <2>1, <2>2 DEF Quotes
<1>3. r[p] = st
  BY <1>2 DEF Reads
<1>4. PICK f : f = QuotedRule(s, p, f) /\ QuotedEnd(s, p) = f[p + 1]
  BY QuotedIs
<1> DEFINE Good(q) == f[q] \in (q + 1) .. (L + 1) /\ Encloses(r, q - 1, f[q])
           Bad == {q \in (p + 1) .. L : r[q - 1] = st /\ ~Good(q)}
<1>5. Bad = {}
  <2> SUFFICES ASSUME Bad # {} PROVE FALSE
    OBVIOUS
  <2> DEFINE q == Max(Bad)
  <2>1. Bad \in SUBSET (0 .. L)
    BY <1>1
  <2>2. q \in Bad /\ \A k \in Bad : q >= k
    BY <1>1, <2>1, MaxIn
  <2> HIDE DEF q
  <2>3. q \in (p + 1) .. L /\ r[q - 1] = st /\ ~Good(q)
    BY <2>2
  <2>4. q \in 1 .. L /\ q \in Nat /\ q <= L
    BY <1>1, <2>3
  <2>5. ASSUME NEW k \in (q + 1) .. L, r[k - 1] = st PROVE Good(k)
    <3>1. k \in (p + 1) .. L /\ ~(q >= k)
      BY <1>1, <2>3, <2>4
    <3> HIDE DEF Good
    <3> QED BY <2>2, <2>5, <3>1
  <2>6. f[q] = IF s[q] = "\\" THEN f[Min({q + 2, L + 1})]
               ELSE IF s[q] = s[p] THEN q + 1 ELSE f[q + 1]
    <3>1. q \in 1 .. (L + 1) /\ ~(q > L)
      BY <1>1, <2>4
    <3>2. QuotedRule(s, p, f)[q] = IF s[q] = "\\" THEN f[Min({q + 2, L + 1})]
                                   ELSE IF s[q] = s[p] THEN q + 1 ELSE f[q + 1]
      BY <3>1 DEF QuotedRule
    <3> QED BY <1>4, <3>2
  <2>7. r[q] = Region(st, s[q], peek(s, q + 1))
    BY <2>3, <2>4 DEF Reads
  <2>8. ASSUME r[q] # "code" PROVE q + 1 \in (q + 1) .. L /\ q + 1 - 1 = q /\ q + 1 \in 1 .. L
    <3>1. q # L
      BY <2>8
    <3> QED BY <1>1, <2>4, <3>1
  <2> HIDE DEF L
  <2>9. CASE s[q] = "\\"
    <3>1. r[q] = esc
      BY <1>2, <2>7, <2>9
    <3>2. q + 1 \in 1 .. L /\ q + 1 - 1 = q
      BY <1>2, <2>8, <3>1
    <3>3. r[q + 1] = st
      <4> DEFINE k == q + 1
      <4>1. k \in 1 .. L /\ k - 1 = q
        BY <2>4, <3>2
      <4> HIDE DEF k
      <4>2. r[k] = Region(r[q], s[k], peek(s, k + 1))
        BY <4>1 DEF Reads, L
      <4>3. r[k] = st
        BY <1>2, <3>1, <4>2
      <4> QED BY <4>3 DEF k
    <3>4. q + 1 # L
      BY <1>2, <3>3 DEF L
    <3>5. q + 2 \in (q + 1) .. L /\ q + 2 - 1 = q + 1 /\ Min({q + 2, L + 1}) = q + 2
      BY <1>1, <2>4, <3>2, <3>4, MinOfTwo
    <3> DEFINE z == q + 2
    <3>51. z \in (q + 1) .. L /\ z - 1 = q + 1 /\ r[z - 1] = st /\ f[q] = f[z] /\ z > q
      BY <2>4, <2>6, <2>9, <3>3, <3>5
    <3> HIDE DEF z
    <3>6. Good(z) /\ f[q] = f[z]
      <4> HIDE DEF Good
      <4> QED BY <2>5, <3>51
    <3>7. f[z] \in (q + 1) .. (L + 1) /\ f[z] \in Int
      BY <1>1, <2>4, <3>6, <3>51
    <3>8. r[f[z] - 1] = "code" /\ \A k \in (q + 1) .. (f[z] - 2) : r[k] # "code"
      BY <3>6, <3>51 DEF Encloses
    <3>9. ASSUME NEW k \in (q - 1) .. (f[z] - 2) PROVE r[k] # "code"
      <4>1. k = q - 1 \/ k = q \/ k \in (q + 1) .. (f[z] - 2)
        BY <2>4, <3>7
      <4> QED BY <1>2, <2>3, <3>1, <3>8, <4>1
    <3>10. Good(q)
      BY <3>6, <3>7, <3>8, <3>9 DEF Encloses
    <3> QED BY <2>3, <3>10
  <2>10. CASE s[q] = s[p]
    <3>1. f[q] = q + 1 /\ r[q] = "code"
      BY <1>2, <2>6, <2>7, <2>10
    <3>2. /\ q + 1 - 1 = q /\ q + 1 \in (q + 1) .. (L + 1)
          /\ \A k \in (q - 1) .. (q + 1 - 2) : k = q - 1
      BY <1>1, <2>4
    <3>3. Good(q)
      BY <1>2, <2>3, <3>1, <3>2 DEF Encloses
    <3> QED BY <2>3, <3>3
  <2>11. CASE s[q] # "\\" /\ s[q] # s[p]
    <3>1. r[q] = st /\ f[q] = f[q + 1]
      BY <1>2, <2>6, <2>7, <2>11
    <3>2. q + 1 \in (q + 1) .. L /\ q + 1 - 1 = q
      BY <1>2, <2>8, <3>1
    <3> DEFINE z == q + 1
    <3>21. z \in (q + 1) .. L /\ z - 1 = q /\ r[z - 1] = st /\ f[q] = f[z]
      BY <2>4, <3>1, <3>2
    <3> HIDE DEF z
    <3>3. Good(z)
      <4> HIDE DEF Good
      <4> QED BY <2>5, <3>21
    <3>4. f[z] \in (q + 1) .. (L + 1) /\ f[z] \in Int
      BY <1>1, <2>4, <3>3, <3>21
    <3>5. r[f[z] - 1] = "code" /\ \A k \in q .. (f[z] - 2) : r[k] # "code"
      BY <3>3, <3>21 DEF Encloses
    <3>6. ASSUME NEW k \in (q - 1) .. (f[z] - 2) PROVE r[k] # "code"
      <4>1. k = q - 1 \/ k \in q .. (f[z] - 2)
        BY <2>4, <3>4
      <4> QED BY <1>2, <2>3, <3>5, <4>1
    <3>7. Good(q)
      BY <3>4, <3>5, <3>6, <3>21 DEF Encloses
    <3> QED BY <2>3, <3>7
  <2> QED BY <2>9, <2>10, <2>11
<1>6. p # L
  BY <1>2, <1>3
<1>7. p + 1 \in (p + 1) .. L /\ p + 1 - 1 = p
  BY <1>1, <1>6
<1> HIDE DEF L
<1>8. Good(p + 1)
  BY <1>3, <1>5, <1>7
<1>9. Encloses(r, p, f[p + 1])
  BY <1>7, <1>8
<1> QED BY <1>2, <1>3, <1>4, <1>9

\* The lexer takes a comment or literal as a whole, and code as code.
LEMMA TokenRegion ==
  ASSUME NEW s \in Text, NEW r, Reads(s, r), NEW p \in 1 .. Len(s), r[p - 1] = "code",
         r[Len(s)] = "code", NEW ty, NEW e, ScanFact(s, p, ty, e)
  PROVE  /\ r[e - 1] = "code"
         /\ ty \in Literal => r[p] # "code" /\ Encloses(r, p, e)
         /\ ty \notin Literal => \A q \in p .. (e - 1) : r[q] = "code"
<1>1. Len(s) \in Nat /\ p \in Nat /\ e \in (p + 1) .. (Len(s) + 1)
  <2>1. e \in (p + 1) .. (Len(s) + 1)
    BY DEF ScanFact
  <2> QED BY <2>1, SourceFacts
<1>2. CASE ty \notin Literal
  <2>1. \A q \in p .. (e - 1) : Plain(s, q)
    BY <1>2 DEF ScanFact
  <2>2. e \in p .. (Len(s) + 1)
    BY <1>1
  <2>3. \A q \in (p - 1) .. (e - 1) : r[q] = "code"
    BY <2>1, <2>2, CodeStays
  <2>4. e - 1 \in (p - 1) .. (e - 1) /\ \A q \in p .. (e - 1) : q \in (p - 1) .. (e - 1)
    BY <1>1
  <2> QED BY <1>2, <2>3, <2>4
<1>3. CASE ty = "line"
  BY <1>3, LineEncloses DEF ScanFact, Encloses, Literal
<1>4. CASE ty = "block"
  BY <1>4, BlockEncloses DEF ScanFact, Encloses, Literal
<1>5. CASE ty = "string"
  <2>1. s[p] = "\"" /\ e = QuotedEnd(s, p)
    BY <1>5 DEF ScanFact
  <2> DEFINE st == "string"
             esc == "stringEscape"
  <2>2. Quotes(s[p], st, esc)
    BY <2>1 DEF Quotes
  <2> HIDE DEF st, esc
  <2>3. r[p] # "code" /\ Encloses(r, p, e)
    BY <2>1, <2>2, QuotedEncloses
  <2> QED BY <1>5, <2>3 DEF Encloses, Literal
<1>6. CASE ty = "char"
  <2>1. s[p] = "'" /\ e = QuotedEnd(s, p)
    BY <1>6 DEF ScanFact
  <2> DEFINE st == "char"
             esc == "charEscape"
  <2>2. Quotes(s[p], st, esc)
    BY <2>1 DEF Quotes
  <2> HIDE DEF st, esc
  <2>3. r[p] # "code" /\ Encloses(r, p, e)
    BY <2>1, <2>2, QuotedEncloses
  <2> QED BY <1>6, <2>3 DEF Encloses, Literal
<1> QED BY <1>2, <1>3, <1>4, <1>5, <1>6 DEF Literal

-----------------------------------------------------------------------------
(* The compiler: the spans of the tokens *)

TokenSeq == Seq(LexToken \cup {EOF})

StartsRule(ts, f) == [k \in 1 .. Len(ts) |-> IF k = 1 THEN 1 ELSE f[k - 1] + Len(ts[k - 1].text)]

\* The lengths of the tokens.
LEMMA TokenSeqFacts ==
  ASSUME NEW ts \in TokenSeq
  PROVE  /\ Len(ts) \in Nat /\ DOMAIN ts = 1 .. Len(ts)
         /\ \A k \in 1 .. Len(ts) : Len(ts[k].text) \in Nat
<1>1. ts \in Seq(LexToken \cup {EOF})
  BY DEF TokenSeq
<1>2. \A x \in LexToken \cup {EOF} : Len(x.text) \in Nat
  <2>1. \A x \in LexToken : x.text \in Strings
    BY DEF LexToken
  <2>2. EOF.text \in Strings
    BY DEF EOF, Strings
  <2>3. \A y \in Strings : Len(y) \in Nat
    BY DEF Strings
  <2> QED BY <2>1, <2>2, <2>3
<1> HIDE DEF LexToken
<1>3. \A k \in 1 .. Len(ts) : ts[k] \in LexToken \cup {EOF}
  BY <1>1
<1> QED BY <1>1, <1>2, <1>3

\* Where the tokens start follows from their lengths.
LEMMA StartsFollow ==
  ASSUME NEW ts \in TokenSeq
  PROVE  Starts(ts) = StartsRule(ts, Starts(ts))
<1> DEFINE n == Len(ts)
           h == [x \in (1 .. n) \X Nat |-> x[2] + Len(ts[x[1]].text)]
           a == 1
<1>1. n \in Nat /\ \A k \in 1 .. n : Len(ts[k].text) \in Nat
  BY TokenSeqFacts
<1>2. h \in [(1 .. n) \X Nat -> Nat]
  BY <1>1
<1>3. a \in Nat /\ \A i \in 1 .. n : \A m \in Nat : h[<<i, m>>] = m + Len(ts[i].text)
  OBVIOUS
<1> HIDE DEF h, n, a
<1>4. Follows(n, Nat, a, h)
  BY <1>1, <1>2, <1>3, Primitive
<1>5. PICK g \in [0 .. n -> Nat] : g[0] = a /\ \A i \in 1 .. n : g[i] = h[<<i, g[i - 1]>>]
  BY <1>4 DEF Follows
<1> DEFINE f == [k \in 1 .. n |-> g[k - 1]]
<1>6. ASSUME NEW k \in 1 .. n PROVE f[k] = StartsRule(ts, f)[k]
  <2>1. StartsRule(ts, f)[k] = IF k = 1 THEN 1 ELSE f[k - 1] + Len(ts[k - 1].text)
    BY DEF StartsRule, n
  <2>2. CASE k = 1
    BY <1>5, <2>1, <2>2 DEF a
  <2>3. CASE k # 1
    <3> DEFINE i == k - 1
    <3>1. i \in 1 .. n /\ i - 1 \in 0 .. n
      BY <1>1, <2>3
    <3>2. f[k] = g[i] /\ f[i] = g[i - 1]
      BY <3>1
    <3> HIDE DEF i, f
    <3>3. g[i] = g[i - 1] + Len(ts[i].text)
      <4>1. g[i - 1] \in Nat
        BY <1>5, <3>1
      <4> QED BY <1>3, <1>5, <3>1, <4>1
    <3> QED BY <2>1, <2>3, <3>2, <3>3 DEF i
  <2> QED BY <2>2, <2>3
<1>7. f = StartsRule(ts, f)
  <2>1. f = [k \in 1 .. n |-> f[k]]
    OBVIOUS
  <2>2. StartsRule(ts, f) = [k \in 1 .. n |-> StartsRule(ts, f)[k]]
    BY DEF StartsRule, n
  <2> HIDE DEF f
  <2> QED BY <1>6, <2>1, <2>2
<1> DEFINE r == CHOOSE b : b = StartsRule(ts, b)
<1> HIDE DEF f
<1>8. r = StartsRule(ts, r)
  BY <1>7
<1>9. r = Starts(ts)
  BY DEF Starts, StartsRule
<1> HIDE DEF r
<1> QED BY <1>8, <1>9

\* The same for one token.
LEMMA StartsFacts ==
  ASSUME NEW ts \in TokenSeq, NEW k \in 1 .. Len(ts)
  PROVE  Starts(ts)[k] = IF k = 1 THEN 1 ELSE Starts(ts)[k - 1] + Len(ts[k - 1].text)
<1> DEFINE r == Starts(ts)
<1>1. r = StartsRule(ts, r)
  BY StartsFollow
<1> HIDE DEF r
<1>2. StartsRule(ts, r)[k] = IF k = 1 THEN 1 ELSE r[k - 1] + Len(ts[k - 1].text)
  BY DEF StartsRule
<1> QED BY <1>1, <1>2 DEF r

\* Where the next token starts.
NextStart(ts) == IF ts = <<>> THEN 1 ELSE Starts(ts)[Len(ts)] + Len(ts[Len(ts)].text)

\* A new token leaves the others where they are.
LEMMA StartsAppend ==
  ASSUME NEW ts \in TokenSeq, NEW x \in LexToken \cup {EOF}
  PROVE  LET us == Append(ts, x)
         IN  /\ us \in TokenSeq /\ Len(us) = Len(ts) + 1
             /\ \A k \in 1 .. Len(ts) : us[k] = ts[k] /\ Starts(us)[k] = Starts(ts)[k]
             /\ us[Len(ts) + 1] = x /\ Starts(us)[Len(ts) + 1] = NextStart(ts)
             /\ NextStart(us) = NextStart(ts) + Len(x.text)
<1> DEFINE us == Append(ts, x)
           n == Len(ts)
           Bad == {k \in 1 .. n : Starts(us)[k] # Starts(ts)[k]}
           m == Min(Bad)
<1>1. n \in Nat /\ ts \in Seq(LexToken \cup {EOF})
  BY TokenSeqFacts DEF TokenSeq
<1>2. /\ us \in TokenSeq /\ Len(us) = n + 1 /\ us[n + 1] = x
      /\ \A k \in 1 .. n : us[k] = ts[k]
  <2> HIDE DEF LexToken
  <2> QED BY <1>1 DEF TokenSeq
<1> HIDE DEF us
<1>3. Bad = {}
  <2> SUFFICES ASSUME Bad # {} PROVE FALSE
    OBVIOUS
  <2>1. Bad \in SUBSET Nat
    BY <1>1
  <2>2. m \in Bad /\ \A k \in Bad : m <= k
    BY <2>1, MinIn
  <2> HIDE DEF m
  <2>3. m \in 1 .. n /\ Starts(us)[m] # Starts(ts)[m]
    BY <2>2
  <2>4. m \in 1 .. Len(us)
    BY <1>1, <1>2, <2>3
  <2>5. /\ Starts(us)[m] = IF m = 1 THEN 1 ELSE Starts(us)[m - 1] + Len(us[m - 1].text)
        /\ Starts(ts)[m] = IF m = 1 THEN 1 ELSE Starts(ts)[m - 1] + Len(ts[m - 1].text)
    BY <1>2, <2>3, <2>4, StartsFacts
  <2>6. CASE m = 1
    BY <2>3, <2>5, <2>6
  <2>7. CASE m # 1
    <3>1. m - 1 \in 1 .. n /\ ~(m <= m - 1)
      BY <1>1, <2>3, <2>7
    <3>2. Starts(us)[m - 1] = Starts(ts)[m - 1] /\ us[m - 1] = ts[m - 1]
      BY <1>2, <2>2, <3>1
    <3> QED BY <2>3, <2>5, <2>7, <3>2
  <2> QED BY <2>6, <2>7
<1>4. Starts(us)[n + 1] = NextStart(ts)
  <2>1. n + 1 \in 1 .. Len(us) /\ n + 1 - 1 = n
    BY <1>1, <1>2
  <2> DEFINE z == n + 1
  <2>2. z \in 1 .. Len(us) /\ z - 1 = n
    BY <1>1, <2>1
  <2> HIDE DEF z
  <2>3. Starts(us)[z] = IF z = 1 THEN 1 ELSE Starts(us)[n] + Len(us[n].text)
    BY <1>2, <2>2, StartsFacts
  <2>4. CASE n = 0
    <3>1. ts = <<>> /\ z = 1
      BY <1>1, <2>4 DEF z
    <3>2. Starts(us)[z] = NextStart(ts)
      BY <2>3, <3>1 DEF NextStart
    <3> QED BY <3>2 DEF z
  <2>5. CASE n # 0
    <3>1. ts # <<>> /\ z # 1 /\ n \in 1 .. n
      BY <1>1, <2>5 DEF z
    <3>2. Starts(us)[n] = Starts(ts)[n] /\ us[n] = ts[n]
      BY <1>2, <1>3, <3>1
    <3>3. Starts(us)[z] = NextStart(ts)
      BY <2>3, <3>1, <3>2 DEF NextStart
    <3> QED BY <3>3 DEF z
  <2> QED BY <2>4, <2>5
<1>5. NextStart(us) = NextStart(ts) + Len(x.text)
  <2>1. us # <<>>
    <3>1. Len(<<>>) = 0
      OBVIOUS
    <3> QED BY <1>1, <1>2, <3>1
  <2> QED BY <1>2, <1>4, <2>1 DEF NextStart
<1> QED BY <1>2, <1>3, <1>4, <1>5 DEF us

\* The spans of the comments and literals among the tokens.
Spans(ts) ==
  {<<Starts(ts)[k], Starts(ts)[k] + Len(ts[k].text) - 1>> :
     k \in {i \in DOMAIN ts : ts[i].type \in Literal}}

\* A new token adds its span when it is a comment or a literal.
LEMMA SpansAppend ==
  ASSUME NEW ts \in TokenSeq, NEW x \in LexToken \cup {EOF}
  PROVE  Spans(Append(ts, x)) =
           Spans(ts) \cup (IF x.type \in Literal
                           THEN {<<NextStart(ts), NextStart(ts) + Len(x.text) - 1>>} ELSE {})
<1> DEFINE us == Append(ts, x)
           n == Len(ts)
           K == {i \in DOMAIN ts : ts[i].type \in Literal}
           J == {i \in DOMAIN us : us[i].type \in Literal}
           old(k) == <<Starts(ts)[k], Starts(ts)[k] + Len(ts[k].text) - 1>>
           new(k) == <<Starts(us)[k], Starts(us)[k] + Len(us[k].text) - 1>>
           Here == IF x.type \in Literal
                   THEN {<<NextStart(ts), NextStart(ts) + Len(x.text) - 1>>} ELSE {}
<1>1. /\ us \in TokenSeq /\ Len(us) = n + 1
      /\ \A k \in 1 .. n : us[k] = ts[k] /\ Starts(us)[k] = Starts(ts)[k]
      /\ us[n + 1] = x /\ Starts(us)[n + 1] = NextStart(ts)
  BY StartsAppend
<1> HIDE DEF us
<1>2. n \in Nat /\ DOMAIN ts = 1 .. n /\ DOMAIN us = 1 .. (n + 1)
  BY <1>1, TokenSeqFacts
<1>3. \A k \in 1 .. n : new(k) = old(k) /\ (k \in J <=> k \in K) /\ k \in 1 .. (n + 1)
  BY <1>1, <1>2
<1>4. /\ new(n + 1) = <<NextStart(ts), NextStart(ts) + Len(x.text) - 1>>
      /\ n + 1 \in J <=> x.type \in Literal
  BY <1>1, <1>2
<1>5. /\ \A k \in J : k \in 1 .. n \/ k = n + 1
      /\ \A k \in K : k \in 1 .. n
  BY <1>2
<1>6. Spans(us) = {new(k) : k \in J} /\ Spans(ts) = {old(k) : k \in K}
  BY DEF Spans
<1> HIDE DEF J, K, old, new
<1>7. ASSUME NEW y \in {new(k) : k \in J} PROVE y \in {old(k) : k \in K} \cup Here
  <2>1. PICK k \in J : y = new(k)
    BY <1>7
  <2>2. CASE k \in 1 .. n
    BY <1>3, <2>1, <2>2
  <2>3. CASE k = n + 1
    BY <1>4, <2>1, <2>3
  <2> QED BY <1>5, <2>2, <2>3
<1>8. ASSUME NEW y \in {old(k) : k \in K} PROVE y \in {new(k) : k \in J}
  <2>1. PICK k \in K : y = old(k)
    BY <1>8
  <2> QED BY <1>3, <1>5, <2>1
<1>9. Here \subseteq {new(k) : k \in J}
  BY <1>4
<1>10. {new(k) : k \in J} = {old(k) : k \in K} \cup Here
  BY <1>7, <1>8, <1>9
<1> HIDE DEF Here
<1>11. Spans(us) = Spans(ts) \cup Here
  BY <1>6, <1>10
<1> QED BY <1>11 DEF us, Here

-----------------------------------------------------------------------------
(* The compiler: the lexer's literals are C's *)

\* The comments and literals of a source that start before z.
Opens(s, r, z) == {k \in DOMAIN s : k < z /\ r[k - 1] = "code" /\ r[k] # "code"}
LastOf(s, r, i) == Min({Len(s)} \cup {j \in i .. Len(s) : r[j] = "code"})
LiteralsUpTo(s, r, z) == {<<i, LastOf(s, r, i)>> : i \in Opens(s, r, z)}

\* A comment or literal ends where its token does.
LEMMA LastIs ==
  ASSUME NEW s \in Text, NEW r, NEW p \in 1 .. Len(s), NEW e \in (p + 1) .. (Len(s) + 1),
         r[Len(s)] = "code", Encloses(r, p, e)
  PROVE  LastOf(s, r, p) = e - 1
<1> DEFINE T == {Len(s)} \cup {j \in p .. Len(s) : r[j] = "code"}
           m == Min(T)
<1>1. Len(s) \in Nat /\ p \in Nat
  BY SourceFacts
<1>2. T \in SUBSET Nat /\ T # {}
  BY <1>1
<1>3. m \in T /\ \A k \in T : m <= k
  BY <1>2, MinIn
<1> HIDE DEF m
<1>4. m \in p .. Len(s) /\ r[m] = "code"
  BY <1>1, <1>3
<1>5. e - 1 \in T
  BY <1>1 DEF Encloses
<1>6. m <= e - 1
  BY <1>3, <1>5
<1>7. m \notin p .. (e - 2)
  BY <1>4 DEF Encloses
<1>8. m = e - 1
  BY <1>1, <1>4, <1>6, <1>7
<1> QED BY <1>8 DEF LastOf, m

\* A token adds itself, when it is one, and nothing else.
LEMMA LiteralsStep ==
  ASSUME NEW s \in Text, NEW r, Reads(s, r), NEW p \in 1 .. Len(s), r[p - 1] = "code",
         r[Len(s)] = "code", NEW ty, NEW e, ScanFact(s, p, ty, e)
  PROVE  LiteralsUpTo(s, r, e) =
           LiteralsUpTo(s, r, p) \cup (IF ty \in Literal THEN {<<p, e - 1>>} ELSE {})
<1>1. Len(s) \in Nat /\ DOMAIN s = 1 .. Len(s) /\ p \in Nat /\ e \in (p + 1) .. (Len(s) + 1)
  <2>1. e \in (p + 1) .. (Len(s) + 1)
    BY DEF ScanFact
  <2> QED BY <2>1, SourceFacts
<1>2. /\ ty \in Literal => r[p] # "code" /\ Encloses(r, p, e)
      /\ ty \notin Literal => \A q \in p .. (e - 1) : r[q] = "code"
  BY TokenRegion
<1>3. \A k \in Opens(s, r, p) : k \in Opens(s, r, e)
  BY <1>1 DEF Opens
<1>4. ASSUME NEW k \in Opens(s, r, e), k \notin Opens(s, r, p) PROVE k = p /\ ty \in Literal
  <2>1. k \in p .. (e - 1) /\ r[k - 1] = "code" /\ r[k] # "code"
    BY <1>1, <1>4 DEF Opens
  <2>2. ty \in Literal
    BY <1>2, <2>1
  <2>3. k - 1 \notin p .. (e - 2)
    BY <1>2, <2>1, <2>2 DEF Encloses
  <2> QED BY <1>1, <2>1, <2>2, <2>3
<1>5. ty \in Literal => p \in Opens(s, r, e) /\ LastOf(s, r, p) = e - 1
  <2> SUFFICES ASSUME ty \in Literal PROVE p \in Opens(s, r, e) /\ LastOf(s, r, p) = e - 1
    OBVIOUS
  <2>1. p \in Opens(s, r, e)
    BY <1>1, <1>2 DEF Opens
  <2>2. LastOf(s, r, p) = e - 1
    BY <1>1, <1>2, LastIs
  <2> QED BY <2>1, <2>2
<1> DEFINE O == Opens(s, r, e)
           P == Opens(s, r, p)
           last(k) == LastOf(s, r, k)
<1>6. /\ LiteralsUpTo(s, r, e) = {<<i, last(i)>> : i \in O}
      /\ LiteralsUpTo(s, r, p) = {<<i, last(i)>> : i \in P}
  BY DEF LiteralsUpTo
<1>7. CASE ty \in Literal
  <2>1. O = P \cup {p} /\ last(p) = e - 1
    BY <1>3, <1>4, <1>5, <1>7
  <2> HIDE DEF O, P, last
  <2>2. {<<i, last(i)>> : i \in O} = {<<i, last(i)>> : i \in P} \cup {<<p, last(p)>>}
    BY <2>1
  <2> QED BY <1>6, <1>7, <2>1, <2>2
<1>8. CASE ty \notin Literal
  <2>1. O = P
    BY <1>3, <1>4, <1>8
  <2> HIDE DEF O, P, last
  <2> QED BY <1>6, <1>8, <2>1
<1> QED BY <1>7, <1>8

\* What the lexer has found: between two tokens C's reader is in code.
RegInv ==
  LET r == Regions(src)
  IN  r[Len(src)] = "code" =>
        /\ stage \in {"args", "lex"} =>
             /\ r[pos - 1] = "code" /\ pos = NextStart(tokens)
             /\ Spans(tokens) = LiteralsUpTo(src, r, pos)
        /\ stage = "translate" => Spans(tokens) = LiteralsUpTo(src, r, Len(src) + 1)

\* No token, and nothing read.
LEMMA RegInvInit ==
  ScInit => RegInv
<1> SUFFICES ASSUME ScInit PROVE RegInv
  OBVIOUS
<1> DEFINE r == Regions(src)
<1>1. src \in Text
  BY SourcesAssumption DEF ScInit, Text
<1>2. r[0] = "code"
  BY <1>1, RegionsRead DEF Reads
<1> HIDE DEF r
<1>3. pos = 1 /\ tokens = <<>> /\ stage = "args"
  BY DEF ScInit
<1>4. r[pos - 1] = "code" /\ pos = NextStart(tokens)
  BY <1>2, <1>3 DEF NextStart
<1>5. Opens(src, r, pos) = {}
  BY <1>1, <1>3, SourceFacts DEF Opens
<1>6. Spans(tokens) = {}
  BY <1>3 DEF Spans
<1> QED BY <1>3, <1>4, <1>5, <1>6 DEF RegInv, LiteralsUpTo, r

\* Each token leaves the reader in code, and the two lists equal.
LEMMA RegInvNext ==
  RegInv /\ ScInv /\ ScInv' /\ [ScNext]_scVars => RegInv'
<1> SUFFICES ASSUME RegInv, ScInv, ScInv', [ScNext]_scVars PROVE RegInv'
  OBVIOUS
<1> USE DEF Exit
<1>1. ASSUME UNCHANGED <<src, pos, tokens>>,
             \/ stage' \in {"done", "output", "gcc"} \/ UNCHANGED stage
             \/ stage = "args" /\ stage' = "lex"
      PROVE  RegInv'
  BY <1>1 DEF RegInv
<1>2. CASE UNCHANGED scVars
  BY <1>1, <1>2 DEF scVars
<1>3. CASE ParseArgs
  BY <1>1, <1>3 DEF ParseArgs
<1>4. CASE read_file
  BY <1>1, <1>4 DEF read_file
<1>5. CASE LexOne
  <2> DEFINE t == Scan(src, pos)
             ty == t.type
             e == t.end
             x == [type |-> ty, text |-> SubSeq(src, pos, e - 1)]
             r == Regions(src)
  <2>1. /\ src \in Text /\ pos \in 1 .. Len(src) /\ tokens \in TokenSeq
    <3>1. src \in Text /\ pos \in 1 .. (Len(src) + 1) /\ pos <= Len(src) /\ tokens \in Seq(LexToken)
      BY <1>5 DEF ScInv, LexOne
    <3>2. pos \in 1 .. Len(src)
      BY <3>1, SourceFacts
    <3>3. tokens \in TokenSeq
      <4> HIDE DEF LexToken
      <4> QED BY <3>1, SeqMonotonic DEF TokenSeq
    <3> QED BY <3>1, <3>2, <3>3
  <2>2. ScanFact(src, pos, ty, e)
    BY <2>1, ScanFacts
  <2>3. x \in LexToken
    BY <2>1, <2>2, LexedToken
  <2>4. tokens' = Append(tokens, x) /\ pos' = e /\ UNCHANGED <<src, stage>> /\ stage = "lex"
    BY <1>5 DEF LexOne
  <2>5. Reads(src, r)
    BY <2>1, RegionsRead
  <2>6. x.type = ty /\ x.text = SubSeq(src, pos, e - 1)
    OBVIOUS
  <2> HIDE DEF t, ty, e, x, r
  <2>7. e \in (pos + 1) .. (Len(src) + 1) /\ Len(src) \in Nat /\ pos \in Nat
    <3>1. e \in (pos + 1) .. (Len(src) + 1)
      BY <2>2 DEF ScanFact
    <3> QED BY <2>1, <3>1, SourceFacts
  <2>8. Len(x.text) = e - pos
    <3>1. src \in Seq(STRING \ {NUL})
      BY <2>1 DEF Text
    <3> QED BY <2>1, <2>6, <2>7, <3>1
  <2> SUFFICES ASSUME r[Len(src)] = "code"
               PROVE  /\ r[pos' - 1] = "code" /\ pos' = NextStart(tokens')
                      /\ Spans(tokens') = LiteralsUpTo(src, r, pos')
    BY <2>4 DEF RegInv, r
  <2>9. /\ r[pos - 1] = "code" /\ pos = NextStart(tokens)
        /\ Spans(tokens) = LiteralsUpTo(src, r, pos)
    BY <2>4 DEF RegInv, r
  <2>10. r[e - 1] = "code"
    BY <2>1, <2>2, <2>5, <2>9, TokenRegion
  <2>11. NextStart(tokens') = pos + Len(x.text)
    BY <2>1, <2>3, <2>4, <2>9, StartsAppend
  <2>12. LiteralsUpTo(src, r, e) =
           LiteralsUpTo(src, r, pos) \cup (IF ty \in Literal THEN {<<pos, e - 1>>} ELSE {})
    BY <2>1, <2>2, <2>5, <2>9, LiteralsStep
  <2>13. Spans(tokens') =
           Spans(tokens) \cup
             (IF x.type \in Literal
              THEN {<<NextStart(tokens), NextStart(tokens) + Len(x.text) - 1>>} ELSE {})
    BY <2>1, <2>3, <2>4, SpansAppend
  <2>14. pos + Len(x.text) = e /\ pos + Len(x.text) - 1 = e - 1
    BY <2>7, <2>8
  <2>15. Spans(tokens') = LiteralsUpTo(src, r, e)
    BY <2>6, <2>9, <2>12, <2>13, <2>14
  <2> QED BY <2>4, <2>10, <2>11, <2>14, <2>15
<1>6. CASE LexEnd
  <2> DEFINE r == Regions(src)
  <2>1. /\ src \in Text /\ tokens \in Seq(LexToken) /\ pos \in 1 .. (Len(src) + 1) /\ stage = "lex"
        /\ pos > Len(src) /\ tokens' = Append(tokens, EOF) /\ UNCHANGED src /\ stage' = "translate"
    BY <1>6 DEF ScInv, LexEnd
  <2>2. pos = Len(src) + 1
    BY <2>1, SourceFacts
  <2>3. tokens \in TokenSeq
    <3> HIDE DEF LexToken
    <3> QED BY <2>1, SeqMonotonic DEF TokenSeq
  <2>4. EOF.type \notin Literal /\ EOF \in LexToken \cup {EOF}
    BY DEF EOF, Literal
  <2>5. Spans(tokens') = Spans(tokens)
    BY <2>1, <2>3, <2>4, SpansAppend
  <2> HIDE DEF r
  <2>6. r[Len(src)] = "code" => Spans(tokens) = LiteralsUpTo(src, r, pos)
    BY <2>1 DEF RegInv, r
  <2> QED BY <2>1, <2>2, <2>5, <2>6 DEF RegInv, r
<1>7. CASE TranslateOne
  <2>1. UNCHANGED <<src, pos, tokens, stage>>
    BY <1>7 DEF TranslateOne
  <2> QED BY <1>1, <2>1
<1>8. CASE BuildOutput
  BY <1>1, <1>8 DEF BuildOutput
<1>9. CASE EmitC
  BY <1>1, <1>9 DEF EmitC
<1>10. CASE WriteTemp
  BY <1>1, <1>10 DEF WriteTemp
<1>11. CASE Compile
  BY <1>1, <1>11 DEF Compile
<1>12. CASE Ended
  BY <1>2, <1>12 DEF Ended
<1> QED
  BY <1>2, <1>3, <1>4, <1>5, <1>6, <1>7, <1>8, <1>9, <1>10, <1>11, <1>12 DEF ScNext

(***************************************************************************)
(* The lexer takes for a comment or a literal exactly what C takes for     *)
(* one, on every file that has no spliced lines and leaves none of them    *)
(* open: lexer_next and the character-by-character reader agree on where   *)
(* each starts and ends.                                                   *)
(***************************************************************************)
THEOREM RegionsRightHolds ==
  ScSpec => []RegionsRight
<1>1. ScSpec => []RegInv
  BY RegInvInit, RegInvNext, ScInvHolds, PTL DEF ScSpec
<1>2. ScInv /\ RegInv => RegionsRight
  <2> SUFFICES ASSUME ScInv, RegInv, stage = "translate", Literals(src).closed
               PROVE  TokenSpans = Literals(src).spans
    BY DEF RegionsRight
  <2> DEFINE r == Regions(src)
  <2>1. src \in Text /\ Len(src) \in Nat /\ DOMAIN src = 1 .. Len(src)
    BY SourceFacts DEF ScInv
  <2>2. r[Len(src)] = "code"
    BY DEF Literals
  <2>3. Spans(tokens) = LiteralsUpTo(src, r, Len(src) + 1)
    BY <2>2 DEF RegInv
  <2>4. Spans(tokens) = TokenSpans
    BY DEF Spans, TokenSpans, Literal
  <2>5. Literals(src).spans =
          {<<i, LastOf(src, r, i)>> : i \in {k \in DOMAIN src : r[k - 1] = "code" /\ r[k] # "code"}}
    BY DEF Literals, LastOf
  <2> HIDE DEF r
  <2>6. Opens(src, r, Len(src) + 1) = {k \in DOMAIN src : r[k - 1] = "code" /\ r[k] # "code"}
    BY <2>1 DEF Opens
  <2> QED BY <2>3, <2>4, <2>5, <2>6 DEF LiteralsUpTo
<1> QED BY <1>1, <1>2, ScInvHolds, PTL

=============================================================================
