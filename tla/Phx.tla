-------------------------------- MODULE Phx --------------------------------
(***************************************************************************)
(* The package manager, userspace/services/phx-pkgmgr/src/main.rs: install *)
(* and remove, as processes that may run at the same time and stop at any  *)
(* point.  The database is one file that each reads whole and writes whole,*)
(* without a lock.  A package is its name and the paths of its files; tar  *)
(* and the extraction directory are external.                              *)
(***************************************************************************)
EXTENDS Integers, Sequences, FiniteSets

CONSTANTS Packages,     \* names of packages
          PkgFiles,     \* the paths an archive's files are copied to
          Installed,    \* the packages that were installed before
          Procs         \* the processes that may run phx

Stump == "stump"        \* what is left of a path that was cut: no file's name

\* Each package is copied into a directory of its own.
ASSUME PhxAssumption ==
    /\ PkgFiles = [x \in Packages |-> PkgFiles[x]]
    /\ \A x, y \in Packages : x # y => PkgFiles[x] \cap PkgFiles[y] = {}
    /\ \A x \in Packages : Stump \notin PkgFiles[x]
    /\ Installed \subseteq Packages

VARIABLES db,           \* packages.db: for each listed package its paths
          disk,         \* the files that exist
          torn,         \* <<file, process>>: cut to nothing by that process's
                        \* copy, and not whole since
          px,           \* for each process where it is and what it has read
          removing,     \* for the property: packages some remove has started on,
          cut,          \* packages with a file whose copy was cut short,
          mixed         \* whether a text of the database was written over another

pkgVars == <<db, disk, torn, removing, cut, mixed>>
phxVars == <<pkgVars, px>>

Idle == [pc |-> "idle", pkg |-> "none", todo |-> {}, files |-> {}, now |-> "none", db |-> <<>>]

\* parse_metadata and db_read: a missing file is an empty database.
db_read == db

Restricted(f, S) == [x \in (DOMAIN f) \cap S |-> f[x]]

Entry(x, files) == [y \in {x} |-> files]

\* HashMap insert, entry by entry.
Inserted(f, new) ==
    [x \in DOMAIN f \cup DOMAIN new |-> IF x \in DOMAIN new THEN new[x] ELSE f[x]]

PhxInit == /\ db = Restricted(PkgFiles, Installed)
           /\ disk = UNION {PkgFiles[x] : x \in Installed}
           /\ torn = {} /\ removing = {} /\ cut = {} /\ mixed = FALSE
           /\ px = [p \in Procs |-> Idle]

\* main: the arguments choose the command.
PhxStart(p, o, pkg) == [px EXCEPT ![p] = [Idle EXCEPT !.pc = o, !.pkg = pkg]]

At(p, label) == px[p].pc = label

Goto(p, label) == px' = [px EXCEPT ![p].pc = label]

End(p, how) == px' = [px EXCEPT ![p] = [Idle EXCEPT !.pc = how]]

\* A process that stops in the middle of a copy leaves the file torn.
CutShort(p) == cut' = IF At(p, "copying") THEN cut \cup {px[p].pkg} ELSE cut

\* cmd_install up to the copy: the archive is there, tar unpacks it and
\* metadata.toml has a name, or the command fails.
Extract(p) == /\ At(p, "install")
              /\ px' = [px EXCEPT ![p].pc = "copy", ![p].todo = PkgFiles[px[p].pkg]]
              /\ UNCHANGED pkgVars

ExtractFails(p) == /\ At(p, "install") /\ End(p, "failed") /\ UNCHANGED pkgVars

TornElse(f) == {t \in torn : t[1] # f}

\* copy_dir_recursive takes one file after the other.  fs::copy truncates the
\* file or makes it, then writes it.
CopyFile(p) == /\ At(p, "copy")
               /\ \E f \in px[p].todo :
                     /\ disk' = disk \cup {f}
                     /\ torn' = TornElse(f) \cup {<<f, p>>}
                     /\ px' = [px EXCEPT ![p].pc = "copying", ![p].now = f]
               /\ UNCHANGED <<db, removing, cut, mixed>>

\* Written to the end, it is whole, unless another copy has truncated it since:
\* then what this one wrote before may be missing.
CopyEnds(p) ==
    LET f == px[p].now
    IN  /\ At(p, "copying")
        /\ torn' \in {TornElse(f)} \cup (IF <<f, p>> \in torn THEN {} ELSE {torn})
        /\ px' = [px EXCEPT ![p].pc = "copy", ![p].now = "none",
                            ![p].todo = @ \ {f}, ![p].files = @ \cup {f}]
        /\ UNCHANGED <<db, disk, removing, cut, mixed>>

\* Any step of it may fail and ends the command.
CopyFails(p) == /\ At(p, "copying") \/ (At(p, "copy") /\ px[p].todo # {})
                /\ End(p, "failed") /\ CutShort(p)
                /\ UNCHANGED <<db, disk, torn, removing, mixed>>

\* Mutant: the package is registered while files are still to be copied.
RegisterEarly(p) ==
    /\ At(p, "copy")
    /\ px' = [px EXCEPT ![p].pc = "write", ![p].files = {},
                        ![p].db = Inserted(db_read, Entry(px[p].pkg, PkgFiles[px[p].pkg]))]
    /\ UNCHANGED pkgVars

\* The database is read and the package put into the copy.
Register(p) ==
    /\ At(p, "copy") /\ px[p].todo = {}
    /\ px' = [px EXCEPT ![p].pc = "write", ![p].files = {},
                        ![p].db = Inserted(db_read, Entry(px[p].pkg, px[p].files))]
    /\ UNCHANGED pkgVars

\* db_write: fs::write truncates the file, then writes the text from the
\* file's beginning on.
db_truncate(p) == /\ At(p, "write")
                  /\ \/ db' = <<>> /\ Goto(p, "fill")
                     \/ End(p, "failed") /\ UNCHANGED db
                  /\ UNCHANGED <<disk, torn, removing, cut, mixed>>

\* The text up to somewhere: some entries, then part of one, or no more of it
\* than a name, which may have become another package's.
CutIn(text, S, x) ==
    {Inserted(Restricted(text, S), Entry(x, F)) :
        F \in SUBSET (IF x \in DOMAIN text THEN text[x] \cup {Stump} ELSE {})}

Cuts(text) == {Restricted(text, S) : S \in SUBSET DOMAIN text}
              \cup UNION {CutIn(text, S, x) : S \in SUBSET DOMAIN text, x \in Packages}

\* The text over a longer one, whose rest stays: some of its entries, and
\* part of one that runs into the last entry of the text, which may lose its
\* name to it, or get its paths.
Over(text, old) ==
    LET last == {text} \cup {Restricted(text, DOMAIN text \ {x}) : x \in DOMAIN text}
                \cup {Inserted(text, Entry(r[1], r[2])) :
                         r \in UNION {{<<x, old[y]>>, <<x, text[x] \cup old[y] \cup {Stump}>>} :
                                       x \in DOMAIN text, y \in DOMAIN old}}
    IN  IF DOMAIN old = {} THEN {text}
        ELSE {text} \cup {Inserted(l, Restricted(old, S)) : l \in last, S \in SUBSET DOMAIN old}

\* It may be written in part, and the process then fails or is killed.
\* Between its own truncation and here another process may have written.
db_fill(p) == /\ At(p, "fill")
              /\ \/ db' \in Over(px[p].db, db) /\ End(p, "done")
                 \/ /\ db' \in UNION {Over(text, db) : text \in Cuts(px[p].db)}
                    /\ End(p, "failed")
              /\ mixed' = (mixed \/ db # <<>>)
              /\ UNCHANGED <<disk, torn, removing, cut>>

\* cmd_remove: an unknown package is an error; else its files are deleted one
\* by one, failures and all, and the rest of the database is written back.
Unregister(p) ==
    /\ At(p, "remove")
    /\ IF px[p].pkg \notin DOMAIN db_read
       THEN End(p, "failed") /\ UNCHANGED removing
       ELSE /\ px' = [px EXCEPT ![p].pc = "delete", ![p].todo = db_read[px[p].pkg],
                                ![p].db = Restricted(db_read, Packages \ {px[p].pkg})]
            /\ removing' = removing \cup {px[p].pkg}
    /\ UNCHANGED <<db, disk, torn, cut, mixed>>

DeleteFile(p) == /\ At(p, "delete")
                 /\ \E f \in px[p].todo :
                       /\ \/ disk' = disk \ {f} /\ torn' = TornElse(f)
                          \/ UNCHANGED <<disk, torn>>
                       /\ px' = [px EXCEPT ![p].todo = @ \ {f}]
                 /\ UNCHANGED <<db, removing, cut, mixed>>

DeleteDone(p) == /\ At(p, "delete") /\ px[p].todo = {} /\ Goto(p, "write")
                 /\ UNCHANGED pkgVars

\* The process is killed.
Killed(p) == /\ px[p].pc \notin {"idle", "done", "failed"} /\ End(p, "failed") /\ CutShort(p)
             /\ UNCHANGED <<db, disk, torn, removing, mixed>>

PhxStep(p) == \/ Extract(p) \/ ExtractFails(p) \/ CopyFile(p) \/ CopyEnds(p) \/ CopyFails(p)
              \/ Register(p) \/ db_truncate(p) \/ db_fill(p)
              \/ Unregister(p) \/ DeleteFile(p) \/ DeleteDone(p)

(***************************************************************************)
(* A listed package is whole: whatever other installs, removes, failures   *)
(* and kills went before or run now, every file the database lists for it  *)
(* is on the disk and complete.  What the code itself gives up is left     *)
(* out: packages whose remove was started, a file that is being copied     *)
(* anew or whose copy was cut short, and every listing once two processes  *)
(* have written the database over each other.                              *)
(***************************************************************************)
ListedIsWhole ==
    ~mixed => \A x \in DOMAIN db \ removing : \A f \in db[x] \ {Stump} :
       /\ f \in disk
       /\ \A p \in Procs : <<f, p>> \in torn =>
             x \in cut \/ (At(p, "copying") /\ px[p].now = f)

=============================================================================
