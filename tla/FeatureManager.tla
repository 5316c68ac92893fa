--------------------------- MODULE FeatureManager ---------------------------
(***************************************************************************)
(* The command line tool that installs, removes and upgrades features      *)
(* (src/cli/feature.ts): its checks, the copies and removals of files one  *)
(* by one, the backup, and the rollback that it runs after an error. Any   *)
(* file operation may fail, the developer may say no, and the tool may be  *)
(* killed. One tool runs at a time.                                        *)
(***************************************************************************)
EXTENDS Integers, Sequences, FiniteSets, Manifests

CONSTANTS
    Names,          \* the features that come and go
    Base,           \* the others that are installed
    Files,          \* files of a feature, "manifest" (manifest.json) among them
    MaxVersion,     \* bound: versions of a feature
    Shipped,        \* [versions -> the files of a package of that version]
    MaxRuns,        \* bound: runs of the tool
    None

Versions == 1 .. MaxVersion
Contents == [Files -> 0 .. MaxVersion]    \* each file's version, 0 for no file
Empty == [x \in Files |-> 0]

needs == [f \in Names |-> Manifest[f].depends_on]
neededBy == [f \in Names |-> Manifest[f].depends_off]

ASSUME FeatureManagerAssumption ==
    /\ Names \subseteq DOMAIN Manifest /\ "core" \notin Names /\ None \notin Names
    /\ \A f \in Names : relativePath[f] = f
    /\ Base \cap Names = {} /\ \A f \in Base : Manifest[f].depends_on \subseteq Base
    /\ MaxVersion \in Nat \ {0} /\ MaxRuns \in Nat
    /\ Shipped \in [Versions -> SUBSET Files] /\ \A v \in Versions : "manifest" \in Shipped[v]
    /\ "manifest" \in Files /\ None \notin Contents
    \* The features that a manifest names as needing one keep it while any does.
    /\ \A f \in Names : \A d \in needs[f] \cap Names :
        "core" \in neededBy[d] \/ \E g \in neededBy[d] \cap Names : g = f \/ g \in needs[f]

VARIABLES
    dir,            \* src/features: what each feature's directory holds, or None
    backup,         \* backup/features
    run,            \* the running tool
    runs,           \* how many have started
    held,           \* ghost: the files, each at its version, that upgrades have to keep
    torn,           \* ghost: features that an interrupted run left as they were
    lost            \* ghost: has a rollback removed the directory of a feature?

vars == <<dir, backup, run, runs, held, torn, lost>>

Modes == {"install", "remove", "upgrade"}
Idle == [pc |-> "idle", mode |-> None, f |-> None, v |-> 0, todo |-> {}, undo |-> <<>>]

Init ==
    /\ dir \in [Names -> {None} \cup {[x \in Files |-> IF x \in Shipped[1] THEN 1 ELSE 0]}]
    /\ \A f \in Names : dir[f] # None => \A d \in needs[f] \cap Names : dir[d] # None
    /\ backup = [f \in Names |-> None]
    /\ run = Idle /\ runs = 0
    /\ held = [f \in Names |-> {}] /\ torn = {} /\ lost = FALSE

-----------------------------------------------------------------------------
(* Checks *)

pathExists(d) == IF d \in Names THEN dir[d] # None ELSE d \in Base
getExistingFeatures(fs) == {d \in fs : pathExists(d)}
\* (And: one that exists is enough.)
AllMissing(fs) == IF \E d \in fs : pathExists(d) THEN {} ELSE fs
getMissingFeatures(fs) == {d \in fs : ~pathExists(d)}
hasManifest(c) == c # None /\ c["manifest"] # 0
compareVersions(a, b) == a - b

Present(c) == {x \in Files : c[x] # 0}
AtVersions(c) == {<<x, c[x]>> : x \in Present(c)}
Ready(f, mode, v) ==
    CASE mode = "install" -> ~pathExists(f) /\ getMissingFeatures(needs[f]) = {}
      [] mode = "remove" ->
            /\ pathExists(f) /\ hasManifest(dir[f])
            /\ "core" \notin neededBy[f] /\ getExistingFeatures(neededBy[f]) = {}
      [] mode = "upgrade" ->
            /\ pathExists(f) /\ getMissingFeatures(needs[f]) = {}
            /\ hasManifest(dir[f]) /\ compareVersions(dir[f]["manifest"], v) = -1

\* A run is started on a package of some version; the checks only read.
Start ==
    /\ run.pc = "idle" /\ runs < MaxRuns
    /\ runs' = runs + 1
    /\ \E f \in Names, mode \in Modes, v \in Versions :
        /\ Ready(f, mode, v)
        /\ run' = [Idle EXCEPT !.pc = "confirm", !.mode = mode, !.f = f, !.v = v]
    /\ UNCHANGED <<dir, backup, held, torn, lost>>

\* A check that fails throws before there is anything to undo.
Refuse ==
    /\ run.pc = "idle" /\ runs < MaxRuns
    /\ runs' = runs + 1
    /\ \E f \in Names, mode \in Modes, v \in Versions : ~Ready(f, mode, v)
    /\ UNCHANGED <<dir, backup, run, held, torn, lost>>

-----------------------------------------------------------------------------
(* Work *)

Goto(pc, todo) == run' = [run EXCEPT !.pc = pc, !.todo = todo]

\* Every file of the package. (And those alone that an upgrade finds.)
KnownFiles == IF dir[run.f] = None THEN Shipped[run.v] ELSE Shipped[run.v] \cap Present(dir[run.f])
ToCopy == Shipped[run.v]

Confirm(first) ==
    /\ run.pc = "confirm"
    /\ \/ Goto("catch", {})                 \* the answer is no, or debug is on
       \/ run.mode = "install" /\ Goto("mkdir", {})
       \/ run.mode = "remove" /\ Goto("rm", Present(dir[run.f]))
       \/ run.mode = "upgrade" /\ first
    /\ held' = CASE run'.pc = "rm" -> [held EXCEPT ![run.f] = {}]
                 [] run'.pc \in {"backup", "copy"} ->
                        [held EXCEPT ![run.f] = @ \cup AtVersions(dir[run.f])]
                 [] OTHER -> held
    /\ UNCHANGED <<dir, backup, runs, torn, lost>>
\* An upgrade starts with a backup. (And without.)
NoBackup == Confirm(Goto("copy", ToCopy))
handleConfirmation == Confirm(Goto("backup", Present(dir[run.f])))

MakeDir ==
    /\ run.pc = "mkdir"
    /\ dir' = [dir EXCEPT ![run.f] = Empty]
    /\ Goto("copy", ToCopy)
    /\ UNCHANGED <<backup, runs, held, torn, lost>>

\* copyDirectory to the backup, which merges into what an earlier run left there
\* and overwrites it, a file at a time. (And keeps it.)
FirstKept(old, x) ==
    IF old # None /\ old[x] # 0 THEN old
    ELSE [(IF old = None THEN Empty ELSE old) EXCEPT ![x] = dir[run.f][x]]
Merged(old, x) == [(IF old = None THEN Empty ELSE old) EXCEPT ![x] = dir[run.f][x]]
CopyToBackup ==
    /\ run.pc = "backup"
    /\ IF run.todo = {}
       THEN Goto("copy", ToCopy) /\ UNCHANGED <<backup, held>>
       ELSE \E x \in run.todo :
                /\ backup' = [backup EXCEPT ![run.f] = Merged(@, x)]
                /\ held' = [held EXCEPT ![run.f] = {p \in @ : p[1] = x => p[2] = dir[run.f][x]}]
                /\ Goto("backup", run.todo \ {x})
    /\ UNCHANGED <<dir, runs, torn, lost>>

\* copyDirectory from the package. Only when every file is there do the steps
\* that would undo it count.
UndoSteps == IF run.mode = "upgrade" THEN <<"remove", "restore">> ELSE <<"remove">>
CopyFile ==
    /\ run.pc = "copy"
    /\ IF run.todo = {}
       THEN /\ run' = [run EXCEPT !.pc = IF run.mode = "upgrade" THEN "keep" ELSE "done",
                                  !.undo = UndoSteps]
            /\ UNCHANGED dir
       ELSE \E x \in run.todo :
                /\ dir' = [dir EXCEPT ![run.f][x] = run.v]
                /\ Goto("copy", run.todo \ {x})
    /\ UNCHANGED <<backup, runs, held, torn, lost>>

\* Keep the backup?
KeepBackup ==
    /\ run.pc = "keep"
    /\ \/ Goto("done", {}) /\ UNCHANGED held
       \/ /\ Goto("clean", Present(backup[run.f]))
          /\ held' = [held EXCEPT ![run.f] = {}]
    /\ UNCHANGED <<dir, backup, runs, torn, lost>>

\* fs.rm removes what a directory holds, then the directory.
Removed(c, x) == [c EXCEPT ![x] = 0]
CleanBackup ==
    /\ run.pc = "clean"
    /\ IF run.todo = {}
       THEN backup' = [backup EXCEPT ![run.f] = None] /\ Goto("done", {})
       ELSE \E x \in run.todo :
                /\ backup' = [backup EXCEPT ![run.f] = Removed(@, x)]
                /\ Goto("clean", run.todo \ {x})
    /\ UNCHANGED <<dir, runs, held, torn, lost>>

RemoveFile ==
    /\ run.pc = "rm"
    /\ IF run.todo = {}
       THEN dir' = [dir EXCEPT ![run.f] = None] /\ Goto("done", {})
       ELSE \E x \in run.todo :
                /\ dir' = [dir EXCEPT ![run.f] = Removed(@, x)]
                /\ Goto("rm", run.todo \ {x})
    /\ UNCHANGED <<backup, runs, held, torn, lost>>

Done ==
    /\ run.pc = "done"
    /\ run' = Idle /\ torn' = torn \ {run.f}
    /\ UNCHANGED <<dir, backup, runs, held, lost>>

-----------------------------------------------------------------------------
(* Errors, rollback, death *)

\* An operation on a file fails: run() catches it.
Fail ==
    /\ run.pc \in {"mkdir", "backup", "copy", "clean", "rm"}
    /\ Goto("catch", {})
    /\ torn' = IF run.pc \in {"copy", "clean", "rm"} THEN torn \cup {run.f} ELSE torn
    /\ UNCHANGED <<dir, backup, runs, held, lost>>

\* The catch block first appends to the history file; when that fails, the error
\* leaves run() and nothing is rolled back.
Catch ==
    /\ run.pc = "catch"
    /\ \/ Goto("undo", {})
       \/ run' = Idle
    /\ UNCHANGED <<dir, backup, runs, held, torn, lost>>

\* ConsoleRollback.process runs the steps in the order they were added.
UndoNext ==
    /\ run.pc = "undo"
    /\ \/ run.undo = <<>> /\ run' = Idle /\ UNCHANGED dir
       \/ /\ run.undo # <<>> /\ Head(run.undo) = "remove"
          /\ run' = [run EXCEPT !.undo = Tail(@), !.pc = "unremove",
                                !.todo = IF dir[run.f] = None THEN {} ELSE Present(dir[run.f])]
          /\ UNCHANGED dir
       \/ /\ run.undo # <<>> /\ Head(run.undo) = "restore"
          /\ run' = [run EXCEPT !.undo = Tail(@), !.pc = "restore", !.todo = Present(backup[run.f])]
          /\ dir' = [dir EXCEPT ![run.f] = IF @ = None THEN Empty ELSE @]
    /\ UNCHANGED <<backup, runs, held, torn, lost>>

UndoRemove ==
    /\ run.pc = "unremove"
    /\ IF run.todo = {}
       THEN dir' = [dir EXCEPT ![run.f] = None] /\ Goto("undo", {}) /\ lost' = TRUE
       ELSE \E x \in run.todo :
                /\ dir' = [dir EXCEPT ![run.f] = Removed(@, x)]
                /\ Goto("unremove", run.todo \ {x})
                /\ UNCHANGED lost
    /\ UNCHANGED <<backup, runs, held, torn>>

UndoRestore ==
    /\ run.pc = "restore"
    /\ IF run.todo = {}
       THEN Goto("undo", {}) /\ UNCHANGED dir
       ELSE \E x \in run.todo :
                /\ dir' = [dir EXCEPT ![run.f][x] = backup[run.f][x]]
                /\ Goto("restore", run.todo \ {x})
    /\ UNCHANGED <<backup, runs, held, torn, lost>>

\* A step that fails is recorded, and the next one runs.
UndoFail ==
    /\ run.pc \in {"unremove", "restore"}
    /\ Goto("undo", {})
    /\ UNCHANGED <<dir, backup, runs, held, torn, lost>>

Kill ==
    /\ run.pc # "idle"
    /\ run' = Idle
    /\ torn' = IF run.pc \in {"copy", "rm", "undo", "unremove", "restore"} THEN torn \cup {run.f}
               ELSE torn
    /\ UNCHANGED <<dir, backup, runs, held, lost>>

Next ==
    \/ Start \/ Refuse \/ handleConfirmation \/ MakeDir \/ CopyToBackup \/ CopyFile
    \/ KeepBackup \/ CleanBackup \/ RemoveFile \/ Done
    \/ Fail \/ Catch \/ UndoNext \/ UndoRemove \/ UndoRestore \/ UndoFail \/ Kill
Spec == Init /\ [][Next]_vars

-----------------------------------------------------------------------------
(* Properties *)

TypeOK ==
    /\ dir \in [Names -> {None} \cup Contents] /\ backup \in [Names -> {None} \cup Contents]
    /\ run.pc # "idle" => run.f \in Names /\ run.mode \in Modes /\ run.v \in Versions
    /\ run.pc \in {"copy", "keep", "clean", "done", "unremove"} => run.todo \subseteq Files
    /\ run.pc \in {"copy", "rm", "clean"} => dir[run.f] # None
    /\ run.pc \in {"keep", "clean", "restore"} => backup[run.f] # None
    /\ held \in [Names -> SUBSET (Files \X Versions)] /\ torn \subseteq Names /\ lost \in BOOLEAN

\* A manifest tells the truth: whatever runs came before, a directory whose
\* manifest says a version holds every file of that version, unless a copy or a
\* removal of this feature was interrupted or failed.
TruthfulManifests ==
    \A f \in Names \ torn :
        (dir[f] # None /\ run.f # f) =>
            hasManifest(dir[f]) /\ \A x \in Shipped[dir[f]["manifest"]] : dir[f][x] = dir[f]["manifest"]

\* From the moment an upgrade is confirmed, every file that it found is in the
\* feature's directory or in the backup, wherever the copying fails or dies, and
\* through later runs, until the backup is given up, the feature's removal is
\* confirmed, or a later upgrade's backup takes that file's place by another version
\* of it. (The last does lose files: {manifest 2, a 1} goes to 3, is killed when a 3
\* is copied, and is run again; the backup's a 1 is overwritten by a 3.)
Holds(c, p) == c # None /\ c[p[1]] = p[2]
OldFilesKept ==
    \A f \in Names : \A p \in held[f] : Holds(dir[f], p) \/ Holds(backup[f], p)

\* Whatever the copies and rollbacks do, features come and go as FeatureSet says.
Installed == {f \in Names : dir[f] # None}
Promise == INSTANCE FeatureSet WITH
    installed <- Installed, depends_on <- needs, depends_off <- neededBy
Implements == Promise!Spec
=============================================================================
