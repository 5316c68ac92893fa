---------------------------- MODULE FeatureProofs ----------------------------
(***************************************************************************)
(* What holds of the feature manager for any features, files and versions: *)
(* it keeps the promise of FeatureSet, what an upgrade found is never lost,*)
(* and manifests tell the truth.                                           *)
(***************************************************************************)
EXTENDS FeatureManager, TLAPS

(***************************************************************************)
(* The inductive invariant: what the running tool has done and checked.    *)
(***************************************************************************)

Undo == {<<>>, <<"remove">>, <<"restore">>, <<"remove", "restore">>}
Run == [pc : {"idle", "confirm", "mkdir", "backup", "copy", "keep", "clean", "rm", "done",
              "catch", "undo", "unremove", "restore"},
        mode : Modes \cup {None}, f : Names \cup {None}, v : 0 .. MaxVersion,
        todo : SUBSET Files, undo : Undo]

RunOK ==
    /\ run \in Run
    /\ run.pc = "idle" => run = Idle
    /\ run.pc # "idle" => run.f \in Names /\ run.mode \in Modes /\ run.v \in Versions
    /\ run.pc = "mkdir" => run.mode = "install"
    /\ run.pc \in {"backup", "keep", "clean"} => run.mode = "upgrade"
    /\ run.pc \in {"confirm", "mkdir", "backup", "copy", "rm"} => run.undo = <<>>
    /\ run.undo = <<"restore">> => run.pc \in {"undo", "unremove"}
    /\ run.pc \in {"unremove", "restore"} => run.undo \in {<<>>, <<"restore">>}

\* The directory and the backup are there when a step goes by them.
Places ==
    /\ dir \in [Names -> {None} \cup Contents] /\ backup \in [Names -> {None} \cup Contents]
    /\ run.pc \in {"backup", "copy", "keep", "clean", "rm", "unremove", "restore"}
            => dir[run.f] # None
    /\ run.pc = "confirm" /\ run.mode = "upgrade" => hasManifest(dir[run.f])
    /\ run.pc = "backup" => backup[run.f] # None \/ run.todo # {}
    /\ run.pc = "copy" /\ run.mode = "upgrade" => backup[run.f] # None
    /\ run.pc \in {"keep", "clean", "restore"} => backup[run.f] # None
    /\ run.undo \in {<<"remove">>, <<"remove", "restore">>} => dir[run.f] # None
    /\ run.undo \in {<<"restore">>, <<"remove", "restore">>} /\ run.pc # "done"
            => backup[run.f] # None
    /\ held \in [Names -> SUBSET (Files \X Versions)] /\ torn \subseteq Names /\ lost \in BOOLEAN

\* What the checks have found is still so.
Checked ==
    /\ (run.pc = "confirm" /\ run.mode = "install") \/ run.pc = "mkdir"
            => dir[run.f] = None /\ \A d \in needs[run.f] \cap Names : dir[d] # None
    /\ (run.pc = "confirm" /\ run.mode = "remove") \/ run.pc = "rm"
            => /\ dir[run.f] # None /\ "core" \notin neededBy[run.f]
               /\ \A d \in neededBy[run.f] \cap Names : dir[d] = None
    /\ run.pc = "undo" /\ run.undo = <<"restore">> /\ dir[run.f] = None => lost

TypeInv == RunOK /\ Places /\ Checked

LEMMA Undos ==
    /\ Head(<<"remove">>) = "remove" /\ Tail(<<"remove">>) = <<>>
    /\ Head(<<"restore">>) = "restore" /\ Tail(<<"restore">>) = <<>>
    /\ Head(<<"remove", "restore">>) = "remove" /\ Tail(<<"remove", "restore">>) = <<"restore">>
    /\ <<"remove">> # <<>> /\ <<"restore">> # <<>> /\ <<"remove", "restore">> # <<>>
    /\ <<"remove">> # <<"restore">> /\ <<"remove">> # <<"remove", "restore">>
    /\ <<"restore">> # <<"remove", "restore">>
<1>1. Head(<<"remove">>) = "remove" /\ Head(<<"restore">>) = "restore"
  OBVIOUS
<1>2. Head(<<"remove", "restore">>) = "remove"
  OBVIOUS
<1>3. Tail(<<"remove">>) = <<>> /\ Tail(<<"restore">>) = <<>>
  OBVIOUS
<1>4. Tail(<<"remove", "restore">>) = <<"restore">>
  OBVIOUS
<1>5. <<"remove">> # <<>> /\ <<"restore">> # <<>> /\ <<"remove", "restore">> # <<>>
  OBVIOUS
<1>6. <<"remove">> # <<"restore">> /\ <<"remove">> # <<"remove", "restore">>
  <2>1. <<"remove">>[1] # <<"restore">>[1] /\ Len(<<"remove">>) # Len(<<"remove", "restore">>)
    OBVIOUS
  <2> QED
    BY <2>1
<1>7. <<"restore">> # <<"remove", "restore">>
  <2>1. <<"restore">>[1] # <<"remove", "restore">>[1]
    OBVIOUS
  <2> QED
    BY <2>1
<1> QED
  BY <1>1, <1>2, <1>3, <1>4, <1>5, <1>6, <1>7

LEMMA Basics ==
    /\ Empty \in Contents /\ \A c \in Contents : c # None /\ Present(c) \subseteq Files
    /\ 1 \in Versions /\ Versions \subseteq 0 .. MaxVersion
    /\ \A v \in Versions : Shipped[v] \subseteq Files /\ "manifest" \in Shipped[v]
BY FeatureManagerAssumption DEF Contents, Empty, Present, Versions

LEMMA AtVersionsOK == \A c \in Contents : AtVersions(c) \in SUBSET (Files \X Versions)
<1> SUFFICES ASSUME NEW c \in Contents, NEW x \in Present(c)
             PROVE  x \in Files /\ c[x] \in Versions
  BY DEF AtVersions
<1> QED
  BY FeatureManagerAssumption DEF Contents, Present, Versions

LEMMA TypeInit == Init => TypeInv
<1> SUFFICES ASSUME Init PROVE TypeInv
  OBVIOUS
<1>1. Idle \in Run
  BY FeatureManagerAssumption DEF Idle, Run, Undo
<1>2. RunOK
  BY <1>1, Undos DEF Init, RunOK, Idle
<1>3. [x \in Files |-> IF x \in Shipped[1] THEN 1 ELSE 0] \in Contents
  BY Basics, FeatureManagerAssumption DEF Contents, Versions
<1>4. Places
  BY <1>3, Basics, Undos DEF Init, Places, Idle
<1>5. Checked
  BY Undos DEF Init, Checked, Idle
<1> QED
  BY <1>2, <1>4, <1>5 DEF TypeInv


\* One step at a time.
LEMMA TypeStart == TypeInv /\ Start => TypeInv'
<1> SUFFICES ASSUME TypeInv, Start PROVE TypeInv'
  OBVIOUS
<1>1. PICK f \in Names, mode \in Modes, v \in Versions :
        /\ Ready(f, mode, v)
        /\ run' = [Idle EXCEPT !.pc = "confirm", !.mode = mode, !.f = f, !.v = v]
  BY DEF Start
<1>2. /\ run' \in Run /\ run'.pc = "confirm" /\ run'.mode = mode /\ run'.f = f /\ run'.v = v
      /\ run'.todo = {} /\ run'.undo = <<>>
  BY <1>1, Basics DEF Idle, Run, Undo
<1>3. RunOK'
  BY <1>2, Undos DEF RunOK
<1>4. UNCHANGED <<dir, backup, held, torn, lost>>
  BY DEF Start
<1>5. Places'
  BY <1>1, <1>2, <1>4, Undos DEF TypeInv, Places, Ready, Modes, hasManifest
<1>6. \A d \in Names : pathExists(d) <=> dir[d] # None
  BY DEF pathExists
<1>7. /\ mode = "install" => dir[f] = None /\ \A d \in needs[f] \cap Names : dir[d] # None
      /\ mode = "remove" => /\ dir[f] # None /\ "core" \notin neededBy[f]
                            /\ \A d \in neededBy[f] \cap Names : dir[d] = None
  BY <1>1, <1>6 DEF Ready, Modes, getMissingFeatures, getExistingFeatures
<1>8. Checked'
  BY <1>2, <1>4, <1>7 DEF Checked
<1> QED
  BY <1>3, <1>5, <1>8 DEF TypeInv

LEMMA TypeConfirm == TypeInv /\ handleConfirmation => TypeInv'
<1> SUFFICES ASSUME TypeInv, handleConfirmation PROVE TypeInv'
  OBVIOUS
<1>1. /\ run \in Run /\ run.pc = "confirm" /\ run.f \in Names /\ run.mode \in Modes
      /\ run.v \in Versions /\ run.undo = <<>>
      /\ UNCHANGED <<dir, backup, runs, torn, lost>>
  BY DEF TypeInv, RunOK, handleConfirmation, Confirm
<1>2. dir[run.f] # None => dir[run.f] \in Contents /\ Present(dir[run.f]) \subseteq Files
  BY <1>1, Basics DEF TypeInv, Places
<1>3. CASE Goto("catch", {})
  <2>1. run' \in Run /\ run'.pc = "catch" /\ run'.f = run.f /\ run'.mode = run.mode
        /\ run'.v = run.v /\ run'.todo = {} /\ run'.undo = <<>>
    BY <1>1, <1>3 DEF Goto, Run
  <2>2. held' = held
    BY <2>1 DEF handleConfirmation, Confirm
  <2> QED
    BY <1>1, <2>1, <2>2, Undos DEF TypeInv, RunOK, Places, Checked
<1>4. CASE run.mode = "install" /\ Goto("mkdir", {})
  <2>1. run' \in Run /\ run'.pc = "mkdir" /\ run'.f = run.f /\ run'.mode = run.mode
        /\ run'.v = run.v /\ run'.todo = {} /\ run'.undo = <<>>
    BY <1>1, <1>4 DEF Goto, Run
  <2>2. held' = held
    BY <2>1 DEF handleConfirmation, Confirm
  <2> QED
    BY <1>1, <1>4, <2>1, <2>2, Undos DEF TypeInv, RunOK, Places, Checked
<1>5. CASE run.mode = "remove" /\ Goto("rm", Present(dir[run.f]))
  <2>1. dir[run.f] # None
    BY <1>1, <1>5 DEF TypeInv, Checked
  <2>2. run' \in Run /\ run'.pc = "rm" /\ run'.f = run.f /\ run'.mode = run.mode
        /\ run'.v = run.v /\ run'.undo = <<>>
    BY <1>1, <1>2, <1>5, <2>1 DEF Goto, Run
  <2>3. held' = [held EXCEPT ![run.f] = {}]
    BY <2>2 DEF handleConfirmation, Confirm
  <2>4. held' \in [Names -> SUBSET (Files \X Versions)]
    BY <1>1, <2>3 DEF TypeInv, Places
  <2> QED
    BY <1>1, <1>5, <2>1, <2>2, <2>4, Undos DEF TypeInv, RunOK, Places, Checked
<1>6. CASE run.mode = "upgrade" /\ Goto("backup", Present(dir[run.f]))
  <2>1. hasManifest(dir[run.f])
    BY <1>1, <1>6 DEF TypeInv, Places
  <2>2. dir[run.f] # None /\ "manifest" \in Present(dir[run.f])
    BY <2>1, FeatureManagerAssumption DEF hasManifest, Present
  <2>3. run' \in Run /\ run'.pc = "backup" /\ run'.f = run.f /\ run'.mode = run.mode
        /\ run'.v = run.v /\ run'.undo = <<>> /\ run'.todo # {}
    BY <1>1, <1>2, <1>6, <2>2 DEF Goto, Run
  <2>4. held' = [held EXCEPT ![run.f] = @ \cup AtVersions(dir[run.f])]
    BY <2>3 DEF handleConfirmation, Confirm
  <2>5. held' \in [Names -> SUBSET (Files \X Versions)]
    BY <1>1, <1>2, <2>2, <2>4, AtVersionsOK DEF TypeInv, Places
  <2> QED
    BY <1>1, <1>6, <2>2, <2>3, <2>5, Undos DEF TypeInv, RunOK, Places, Checked
<1> QED
  BY <1>3, <1>4, <1>5, <1>6 DEF handleConfirmation, Confirm

LEMMA TypeMakeDir == TypeInv /\ MakeDir => TypeInv'
<1> SUFFICES ASSUME TypeInv, MakeDir PROVE TypeInv'
  OBVIOUS
<1>1. /\ run \in Run /\ run.pc = "mkdir" /\ run.f \in Names /\ run.mode = "install"
      /\ run.v \in Versions /\ run.undo = <<>>
      /\ UNCHANGED <<backup, held, torn, lost>>
      /\ dir' = [dir EXCEPT ![run.f] = Empty] /\ Goto("copy", ToCopy)
  BY DEF TypeInv, RunOK, MakeDir
<1>2. run' \in Run /\ run'.pc = "copy" /\ run'.f = run.f /\ run'.mode = run.mode
      /\ run'.v = run.v /\ run'.undo = <<>>
  BY <1>1, Basics DEF Goto, Run, ToCopy
<1>3. dir' \in [Names -> {None} \cup Contents] /\ dir'[run.f] # None
  BY <1>1, Basics DEF TypeInv, Places
<1> QED
  BY <1>1, <1>2, <1>3, Undos DEF TypeInv, RunOK, Places, Checked, Modes

\* What the running tool is.
LEMMA Running ==
    TypeInv /\ run.pc # "idle" =>
        /\ run \in Run /\ run.f \in Names /\ run.mode \in Modes /\ run.v \in Versions
        /\ dir \in [Names -> {None} \cup Contents] /\ backup \in [Names -> {None} \cup Contents]
        /\ held \in [Names -> SUBSET (Files \X Versions)]
BY DEF TypeInv, RunOK, Places

LEMMA Gone ==
    ASSUME TypeInv, run.pc # "idle", NEW pc, NEW todo, Goto(pc, todo), todo \subseteq Files,
           pc \in {"idle", "confirm", "mkdir", "backup", "copy", "keep", "clean", "rm", "done",
                  "catch", "undo", "unremove", "restore"}
    PROVE  /\ run' \in Run /\ run'.pc = pc /\ run'.todo = todo /\ run'.f = run.f
           /\ run'.mode = run.mode /\ run'.v = run.v /\ run'.undo = run.undo
BY Running DEF Goto, Run

LEMMA Changed ==
    /\ \A c \in Contents, x \in Files, n \in 0 .. MaxVersion : [c EXCEPT ![x] = n] \in Contents
    /\ \A c \in Contents, x \in Files : Removed(c, x) \in Contents
    /\ \A c \in Contents, x \in Files : c[x] \in 0 .. MaxVersion
BY FeatureManagerAssumption DEF Contents, Removed

LEMMA TypeCopyToBackup == TypeInv /\ CopyToBackup => TypeInv'
<1> SUFFICES ASSUME TypeInv, CopyToBackup PROVE TypeInv'
  OBVIOUS
<1>1. /\ run.pc = "backup" /\ run.pc # "idle" /\ run.undo = <<>> /\ run.mode = "upgrade"
      /\ dir[run.f] # None /\ UNCHANGED <<dir, torn, lost>>
  BY DEF TypeInv, RunOK, Places, CopyToBackup
<1>2. run \in Run /\ run.f \in Names /\ run.v \in Versions
      /\ dir \in [Names -> {None} \cup Contents] /\ backup \in [Names -> {None} \cup Contents]
      /\ held \in [Names -> SUBSET (Files \X Versions)]
  BY <1>1, Running
<1>3. CASE run.todo = {} /\ Goto("copy", ToCopy) /\ UNCHANGED <<backup, held>>
  <2>1. /\ run' \in Run /\ run'.pc = "copy" /\ run'.f = run.f
        /\ run'.mode = run.mode /\ run'.v = run.v /\ run'.undo = run.undo
    BY <1>1, <1>2, <1>3, Gone, Basics DEF ToCopy, Run
  <2>2. backup[run.f] # None
    BY <1>1, <1>3 DEF TypeInv, Places
  <2> QED
    BY <1>1, <1>2, <1>3, <2>1, <2>2, Undos DEF TypeInv, RunOK, Places, Checked
<1>4. ASSUME NEW x \in run.todo, Goto("backup", run.todo \ {x}),
             backup' = [backup EXCEPT ![run.f] = Merged(@, x)],
             held' = [held EXCEPT ![run.f] = {p \in @ : p[1] = x => p[2] = dir[run.f][x]}]
      PROVE  TypeInv'
  <2>1. x \in Files /\ run.todo \ {x} \subseteq Files
    BY <1>2 DEF Run
  <2>2. /\ run' \in Run /\ run'.pc = "backup" /\ run'.f = run.f
        /\ run'.mode = run.mode /\ run'.v = run.v /\ run'.undo = run.undo
    BY <1>1, <1>2, <1>4, <2>1, Gone DEF Run
  <2>3. dir[run.f] \in Contents
    BY <1>1, <1>2
  <2>4. Merged(backup[run.f], x) \in Contents
    BY <1>2, <2>1, <2>3, Changed, Basics DEF Merged
  <2>5. backup' \in [Names -> {None} \cup Contents] /\ backup'[run.f] # None
    BY <1>2, <1>4, <2>4, Basics
  <2>6. held' \in [Names -> SUBSET (Files \X Versions)]
    BY <1>2, <1>4
  <2> QED
    BY <1>1, <1>2, <2>2, <2>5, <2>6, Undos DEF TypeInv, RunOK, Places, Checked
<1> QED
  BY <1>1, <1>3, <1>4 DEF CopyToBackup

LEMMA TypeCopyFile == TypeInv /\ CopyFile => TypeInv'
<1> SUFFICES ASSUME TypeInv, CopyFile PROVE TypeInv'
  OBVIOUS
<1>1. /\ run.pc = "copy" /\ run.pc # "idle" /\ run.undo = <<>>
      /\ dir[run.f] # None /\ UNCHANGED <<backup, held, torn, lost>>
  BY DEF TypeInv, RunOK, Places, CopyFile
<1>2. run \in Run /\ run.f \in Names /\ run.mode \in Modes /\ run.v \in Versions
      /\ dir \in [Names -> {None} \cup Contents]
  BY <1>1, Running
<1>3. CASE /\ run.todo = {} /\ UNCHANGED dir
           /\ run' = [run EXCEPT !.pc = IF run.mode = "upgrade" THEN "keep" ELSE "done",
                                 !.undo = UndoSteps]
  <2>1. UndoSteps \in Undo
    BY DEF UndoSteps, Undo
  <2>2. /\ run' \in Run /\ run'.pc = (IF run.mode = "upgrade" THEN "keep" ELSE "done")
        /\ run'.f = run.f /\ run'.mode = run.mode /\ run'.v = run.v /\ run'.undo = UndoSteps
    BY <1>2, <1>3, <2>1 DEF Run
  <2> QED
    BY <1>1, <1>2, <1>3, <2>2, Undos DEF TypeInv, RunOK, Places, Checked, UndoSteps
<1>4. ASSUME NEW x \in run.todo, Goto("copy", run.todo \ {x}),
             dir' = [dir EXCEPT ![run.f][x] = run.v]
      PROVE  TypeInv'
  <2>1. x \in Files /\ run.todo \ {x} \subseteq Files
    BY <1>2 DEF Run
  <2>2. /\ run' \in Run /\ run'.pc = "copy" /\ run'.f = run.f
        /\ run'.mode = run.mode /\ run'.v = run.v /\ run'.undo = run.undo
    BY <1>1, <1>2, <1>4, <2>1, Gone DEF Run
  <2>3. dir[run.f] \in Contents
    BY <1>1, <1>2
  <2>4. [dir[run.f] EXCEPT ![x] = run.v] \in Contents
    BY <1>2, <2>1, <2>3, Changed, Basics
  <2>5. dir' \in [Names -> {None} \cup Contents] /\ dir'[run.f] # None
    BY <1>2, <1>4, <2>4, Basics
  <2> QED
    BY <1>1, <1>2, <2>2, <2>5, Undos DEF TypeInv, RunOK, Places, Checked
<1> QED
  BY <1>1, <1>3, <1>4 DEF CopyFile

LEMMA TypeKeepBackup == TypeInv /\ KeepBackup => TypeInv'
<1> SUFFICES ASSUME TypeInv, KeepBackup PROVE TypeInv'
  OBVIOUS
<1>1. /\ run.pc = "keep" /\ run.pc # "idle" /\ run.mode = "upgrade"
      /\ dir[run.f] # None /\ backup[run.f] # None
      /\ UNCHANGED <<dir, backup, torn, lost>>
  BY DEF TypeInv, RunOK, Places, KeepBackup
<1>2. run \in Run /\ run.f \in Names /\ run.v \in Versions
      /\ backup[run.f] \in Contents /\ held \in [Names -> SUBSET (Files \X Versions)]
  BY <1>1, Running
<1>3. CASE Goto("done", {}) /\ UNCHANGED held
  <2>1. /\ run' \in Run /\ run'.pc = "done" /\ run'.f = run.f
        /\ run'.mode = run.mode /\ run'.v = run.v /\ run'.undo = run.undo
    BY <1>1, <1>3, Gone DEF Run
  <2> QED
    BY <1>1, <1>2, <1>3, <2>1, Undos DEF TypeInv, RunOK, Places, Checked
<1>4. CASE /\ Goto("clean", Present(backup[run.f]))
           /\ held' = [held EXCEPT ![run.f] = {}]
  <2>1. /\ run' \in Run /\ run'.pc = "clean" /\ run'.f = run.f
        /\ run'.mode = run.mode /\ run'.v = run.v /\ run'.undo = run.undo
    BY <1>1, <1>2, <1>4, Gone, Basics DEF Run
  <2>2. held' \in [Names -> SUBSET (Files \X Versions)]
    BY <1>2, <1>4
  <2> QED
    BY <1>1, <1>2, <2>1, <2>2, Undos DEF TypeInv, RunOK, Places, Checked
<1> QED
  BY <1>3, <1>4 DEF KeepBackup

LEMMA TypeCleanBackup == TypeInv /\ CleanBackup => TypeInv'
<1> SUFFICES ASSUME TypeInv, CleanBackup PROVE TypeInv'
  OBVIOUS
<1>1. /\ run.pc = "clean" /\ run.pc # "idle" /\ run.mode = "upgrade"
      /\ dir[run.f] # None /\ backup[run.f] # None
      /\ UNCHANGED <<dir, held, torn, lost>>
  BY DEF TypeInv, RunOK, Places, CleanBackup
<1>2. run \in Run /\ run.f \in Names /\ run.v \in Versions
      /\ backup \in [Names -> {None} \cup Contents] /\ backup[run.f] \in Contents
  BY <1>1, Running
<1>3. CASE backup' = [backup EXCEPT ![run.f] = None] /\ Goto("done", {})
  <2>1. /\ run' \in Run /\ run'.pc = "done" /\ run'.f = run.f
        /\ run'.mode = run.mode /\ run'.v = run.v /\ run'.undo = run.undo
    BY <1>1, <1>3, Gone DEF Run
  <2>2. backup' \in [Names -> {None} \cup Contents]
    BY <1>2, <1>3
  <2> QED
    BY <1>1, <1>2, <2>1, <2>2, Undos DEF TypeInv, RunOK, Places, Checked
<1>4. ASSUME NEW x \in run.todo, Goto("clean", run.todo \ {x}),
             backup' = [backup EXCEPT ![run.f] = Removed(@, x)]
      PROVE  TypeInv'
  <2>1. x \in Files /\ run.todo \ {x} \subseteq Files
    BY <1>2 DEF Run
  <2>2. /\ run' \in Run /\ run'.pc = "clean" /\ run'.f = run.f
        /\ run'.mode = run.mode /\ run'.v = run.v /\ run'.undo = run.undo
    BY <1>1, <1>2, <1>4, <2>1, Gone DEF Run
  <2>3. backup' \in [Names -> {None} \cup Contents] /\ backup'[run.f] # None
    BY <1>2, <1>4, <2>1, Changed, Basics
  <2> QED
    BY <1>1, <1>2, <2>2, <2>3, Undos DEF TypeInv, RunOK, Places, Checked
<1> QED
  BY <1>1, <1>3, <1>4 DEF CleanBackup

LEMMA TypeRemoveFile == TypeInv /\ RemoveFile => TypeInv'
<1> SUFFICES ASSUME TypeInv, RemoveFile PROVE TypeInv'
  OBVIOUS
<1>1. /\ run.pc = "rm" /\ run.pc # "idle" /\ run.undo = <<>>
      /\ dir[run.f] # None /\ UNCHANGED <<backup, held, torn, lost>>
  BY DEF TypeInv, RunOK, Places, RemoveFile
<1>2. run \in Run /\ run.f \in Names /\ run.v \in Versions
      /\ dir \in [Names -> {None} \cup Contents] /\ dir[run.f] \in Contents
  BY <1>1, Running
<1>3. CASE dir' = [dir EXCEPT ![run.f] = None] /\ Goto("done", {})
  <2>1. /\ run' \in Run /\ run'.pc = "done" /\ run'.f = run.f
        /\ run'.mode = run.mode /\ run'.v = run.v /\ run'.undo = run.undo
    BY <1>1, <1>3, Gone DEF Run
  <2>2. dir' \in [Names -> {None} \cup Contents]
    BY <1>2, <1>3
  <2> QED
    BY <1>1, <1>2, <2>1, <2>2, Undos DEF TypeInv, RunOK, Places, Checked
<1>4. ASSUME NEW x \in run.todo, Goto("rm", run.todo \ {x}),
             dir' = [dir EXCEPT ![run.f] = Removed(@, x)]
      PROVE  TypeInv'
  <2>1. x \in Files /\ run.todo \ {x} \subseteq Files
    BY <1>2 DEF Run
  <2>2. /\ run' \in Run /\ run'.pc = "rm" /\ run'.f = run.f
        /\ run'.mode = run.mode /\ run'.v = run.v /\ run'.undo = run.undo
    BY <1>1, <1>2, <1>4, <2>1, Gone DEF Run
  <2>3. dir' \in [Names -> {None} \cup Contents] 
        /\ \A g \in Names : dir'[g] = None <=> dir[g] = None
    BY <1>2, <1>4, <2>1, Changed, Basics
  <2> QED
    BY <1>1, <1>2, <2>2, <2>3, Undos DEF TypeInv, RunOK, Places, Checked
<1> QED
  BY <1>1, <1>3, <1>4 DEF RemoveFile

LEMMA TypeIdle ==
    ASSUME TypeInv, run' = Idle, UNCHANGED <<dir, backup, held, lost>>, torn' \subseteq Names
    PROVE  TypeInv'
<1>1. /\ run' \in Run /\ run'.pc = "idle" /\ run'.undo = <<>>
  BY FeatureManagerAssumption DEF Idle, Run, Undo
<1> QED
  BY <1>1, Undos DEF TypeInv, RunOK, Places, Checked

LEMMA TypeDone == TypeInv /\ (Done \/ Kill) => TypeInv'
BY TypeIdle, Running DEF Done, Kill, TypeInv, Places

LEMMA TypeFail == TypeInv /\ Fail => TypeInv'
<1> SUFFICES ASSUME TypeInv, Fail PROVE TypeInv'
  OBVIOUS
<1>1. run.pc \in {"mkdir", "backup", "copy", "clean", "rm"} /\ run.pc # "idle"
      /\ UNCHANGED <<dir, backup, held, lost>> /\ Goto("catch", {})
  BY DEF Fail
<1>2. run' \in Run /\ run'.pc = "catch" /\ run'.f = run.f
      /\ run'.mode = run.mode /\ run'.v = run.v /\ run'.undo = run.undo
  BY <1>1, Gone DEF Run
<1>3. run.f \in Names /\ torn' \subseteq Names
  BY <1>1, Running DEF Fail, TypeInv, Places
<1> QED
  BY <1>1, <1>2, <1>3, Undos DEF TypeInv, RunOK, Places, Checked

LEMMA TypeCatch == TypeInv /\ Catch => TypeInv'
<1> SUFFICES ASSUME TypeInv, Catch PROVE TypeInv'
  OBVIOUS
<1>1. CASE run' = Idle
  BY <1>1, TypeIdle DEF Catch, TypeInv, Places
<1>2. CASE Goto("undo", {})
  <2>1. run.pc = "catch" /\ run.pc # "idle" /\ UNCHANGED <<dir, backup, held, torn, lost>>
    BY DEF Catch
  <2>2. run' \in Run /\ run'.pc = "undo" /\ run'.f = run.f
        /\ run'.mode = run.mode /\ run'.v = run.v /\ run'.undo = run.undo
    BY <1>2, <2>1, Gone DEF Run
  <2> QED
    BY <2>1, <2>2, Undos DEF TypeInv, RunOK, Places, Checked
<1> QED
  BY <1>1, <1>2 DEF Catch

LEMMA TypeUndoNext == TypeInv /\ UndoNext => TypeInv'
<1> SUFFICES ASSUME TypeInv, UndoNext PROVE TypeInv'
  OBVIOUS
<1>1. run.pc = "undo" /\ run.pc # "idle" /\ UNCHANGED <<backup, held, torn, lost>>
  BY DEF UndoNext
<1>2. run \in Run /\ run.f \in Names /\ run.mode \in Modes /\ run.v \in Versions
      /\ dir \in [Names -> {None} \cup Contents] /\ backup \in [Names -> {None} \cup Contents]
  BY <1>1, Running
<1>3. CASE run' = Idle /\ UNCHANGED dir
  BY <1>1, <1>3, TypeIdle DEF TypeInv, Places
<1>4. CASE /\ run.undo # <<>> /\ Head(run.undo) = "remove" /\ UNCHANGED dir
           /\ run' = [run EXCEPT !.undo = Tail(@), !.pc = "unremove",
                                 !.todo = IF dir[run.f] = None THEN {} ELSE Present(dir[run.f])]
  <2>1. run.undo \in {<<"remove">>, <<"remove", "restore">>}
    BY <1>2, <1>4, Undos DEF Run, Undo
  <2>2. Tail(run.undo) \in {<<>>, <<"restore">>} /\ dir[run.f] # None
        /\ (Tail(run.undo) = <<"restore">> => run.undo = <<"remove", "restore">>)
    BY <2>1, Undos DEF TypeInv, Places
  <2>3. Present(dir[run.f]) \subseteq Files
    BY <1>2, <2>2, Basics
  <2>4. /\ run' \in Run /\ run'.pc = "unremove" /\ run'.f = run.f
        /\ run'.mode = run.mode /\ run'.v = run.v /\ run'.undo = Tail(run.undo)
    BY <1>2, <1>4, <2>2, <2>3 DEF Run, Undo
  <2> QED
    BY <1>1, <1>2, <1>4, <2>2, <2>4, Undos DEF TypeInv, RunOK, Places, Checked
<1>5. CASE /\ run.undo # <<>> /\ Head(run.undo) = "restore"
           /\ run' = [run EXCEPT !.undo = Tail(@), !.pc = "restore",
                                 !.todo = Present(backup[run.f])]
           /\ dir' = [dir EXCEPT ![run.f] = IF @ = None THEN Empty ELSE @]
  <2>1. run.undo = <<"restore">> /\ Tail(run.undo) = <<>>
    BY <1>2, <1>5, Undos DEF Run, Undo
  <2>2. backup[run.f] # None
    BY <1>1, <2>1 DEF TypeInv, Places
  <2>3. Present(backup[run.f]) \subseteq Files
    BY <1>2, <2>2, Basics
  <2>4. /\ run' \in Run /\ run'.pc = "restore" /\ run'.f = run.f
        /\ run'.mode = run.mode /\ run'.v = run.v /\ run'.undo = <<>>
    BY <1>2, <1>5, <2>1, <2>3 DEF Run, Undo
  <2>5. dir' \in [Names -> {None} \cup Contents] /\ dir'[run.f] # None
    BY <1>2, <1>5, Basics
  <2> QED
    BY <1>1, <1>2, <2>2, <2>4, <2>5, Undos DEF TypeInv, RunOK, Places, Checked
<1> QED
  BY <1>3, <1>4, <1>5 DEF UndoNext

LEMMA TypeUndoRemove == TypeInv /\ UndoRemove => TypeInv'
<1> SUFFICES ASSUME TypeInv, UndoRemove PROVE TypeInv'
  OBVIOUS
<1>1. /\ run.pc = "unremove" /\ run.pc # "idle" /\ run.undo \in {<<>>, <<"restore">>}
      /\ dir[run.f] # None /\ UNCHANGED <<backup, held, torn>>
  BY DEF TypeInv, RunOK, Places, UndoRemove
<1>2. run \in Run /\ run.f \in Names /\ run.v \in Versions
      /\ dir \in [Names -> {None} \cup Contents] /\ dir[run.f] \in Contents
  BY <1>1, Running
<1>3. CASE dir' = [dir EXCEPT ![run.f] = None] /\ Goto("undo", {}) /\ lost' = TRUE
  <2>1. /\ run' \in Run /\ run'.pc = "undo" /\ run'.f = run.f
        /\ run'.mode = run.mode /\ run'.v = run.v /\ run'.undo = run.undo
    BY <1>1, <1>3, Gone DEF Run
  <2>2. dir' \in [Names -> {None} \cup Contents]
    BY <1>2, <1>3
  <2> QED
    BY <1>1, <1>2, <1>3, <2>1, <2>2, Undos DEF TypeInv, RunOK, Places, Checked
<1>4. ASSUME NEW x \in run.todo, Goto("unremove", run.todo \ {x}), UNCHANGED lost,
             dir' = [dir EXCEPT ![run.f] = Removed(@, x)]
      PROVE  TypeInv'
  <2>1. x \in Files /\ run.todo \ {x} \subseteq Files
    BY <1>2 DEF Run
  <2>2. /\ run' \in Run /\ run'.pc = "unremove" /\ run'.f = run.f
        /\ run'.mode = run.mode /\ run'.v = run.v /\ run'.undo = run.undo
    BY <1>1, <1>2, <1>4, <2>1, Gone DEF Run
  <2>3. dir' \in [Names -> {None} \cup Contents] /\ dir'[run.f] # None
    BY <1>2, <1>4, <2>1, Changed, Basics
  <2> QED
    BY <1>1, <1>2, <1>4, <2>2, <2>3, Undos DEF TypeInv, RunOK, Places, Checked
<1> QED
  BY <1>1, <1>3, <1>4 DEF UndoRemove

LEMMA TypeUndoRestore == TypeInv /\ UndoRestore => TypeInv'
<1> SUFFICES ASSUME TypeInv, UndoRestore PROVE TypeInv'
  OBVIOUS
<1>1. /\ run.pc = "restore" /\ run.pc # "idle" /\ run.undo = <<>>
      /\ dir[run.f] # None /\ backup[run.f] # None /\ UNCHANGED <<backup, held, torn, lost>>
  BY Undos DEF TypeInv, RunOK, Places, UndoRestore
<1>2. run \in Run /\ run.f \in Names /\ run.v \in Versions
      /\ dir \in [Names -> {None} \cup Contents] /\ dir[run.f] \in Contents
      /\ backup[run.f] \in Contents
  BY <1>1, Running
<1>3. CASE UNCHANGED dir /\ Goto("undo", {})
  <2>1. /\ run' \in Run /\ run'.pc = "undo" /\ run'.f = run.f
        /\ run'.mode = run.mode /\ run'.v = run.v /\ run'.undo = run.undo
    BY <1>1, <1>3, Gone DEF Run
  <2> QED
    BY <1>1, <1>2, <1>3, <2>1, Undos DEF TypeInv, RunOK, Places, Checked
<1>4. ASSUME NEW x \in run.todo, Goto("restore", run.todo \ {x}),
             dir' = [dir EXCEPT ![run.f][x] = backup[run.f][x]]
      PROVE  TypeInv'
  <2>1. x \in Files /\ run.todo \ {x} \subseteq Files
    BY <1>2 DEF Run
  <2>2. /\ run' \in Run /\ run'.pc = "restore" /\ run'.f = run.f
        /\ run'.mode = run.mode /\ run'.v = run.v /\ run'.undo = run.undo
    BY <1>1, <1>2, <1>4, <2>1, Gone DEF Run
  <2>3. [dir[run.f] EXCEPT ![x] = backup[run.f][x]] \in Contents
    BY <1>2, <2>1, Changed
  <2>4. dir' \in [Names -> {None} \cup Contents] /\ dir'[run.f] # None
    BY <1>2, <1>4, <2>3, Basics
  <2> QED
    BY <1>1, <1>2, <2>2, <2>4, Undos DEF TypeInv, RunOK, Places, Checked
<1> QED
  BY <1>1, <1>3, <1>4 DEF UndoRestore

LEMMA TypeUndoFail == TypeInv /\ UndoFail => TypeInv'
<1> SUFFICES ASSUME TypeInv, UndoFail PROVE TypeInv'
  OBVIOUS
<1>1. run.pc \in {"unremove", "restore"} /\ run.pc # "idle" /\ dir[run.f] # None
      /\ UNCHANGED <<dir, backup, held, torn, lost>> /\ Goto("undo", {})
  BY DEF UndoFail, TypeInv, Places
<1>2. run' \in Run /\ run'.pc = "undo" /\ run'.f = run.f
      /\ run'.mode = run.mode /\ run'.v = run.v /\ run'.undo = run.undo
  BY <1>1, Gone DEF Run
<1> QED
  BY <1>1, <1>2, Undos DEF TypeInv, RunOK, Places, Checked

LEMMA TypeNext == TypeInv /\ [Next]_vars => TypeInv'
<1> SUFFICES ASSUME TypeInv, [Next]_vars PROVE TypeInv'
  OBVIOUS
<1>1. CASE Refuse \/ UNCHANGED vars
  <2>1. UNCHANGED <<dir, backup, run, held, torn, lost>>
    BY <1>1 DEF Refuse, vars
  <2>2. RunOK'
    BY <2>1 DEF TypeInv, RunOK
  <2>3. Places'
    BY <2>1 DEF TypeInv, Places
  <2>4. Checked'
    BY <2>1 DEF TypeInv, Checked
  <2> QED
    BY <2>2, <2>3, <2>4 DEF TypeInv
<1> QED
  BY <1>1, TypeStart, TypeConfirm, TypeMakeDir, TypeCopyToBackup, TypeCopyFile, TypeKeepBackup,
     TypeCleanBackup, TypeRemoveFile, TypeDone, TypeFail, TypeCatch, TypeUndoNext,
     TypeUndoRemove, TypeUndoRestore, TypeUndoFail
  DEF Next

\* At every moment the feature manager's variables have their types, and a
\* directory is there whenever a step goes by its being there.
THEOREM TypeCorrect == Spec => []TypeOK
<1>1. TypeInv => TypeOK
  BY DEF TypeInv, RunOK, Places, TypeOK, Run
<1> QED
  BY <1>1, TypeInit, TypeNext, PTL DEF Spec

(***************************************************************************)
(* Features come and go as FeatureSet says: every step is one of it, or    *)
(* none.                                                                   *)
(***************************************************************************)

\* The steps that change no directory's being there.
Still == Installed' = Installed /\ lost' = lost

LEMMA StillSame == dir' = dir /\ lost' = lost => Still
BY DEF Still, Installed

LEMMA StillThere ==
    ASSUME TypeInv, run.pc # "idle", dir[run.f] # None, lost' = lost, NEW c \in Contents,
           dir' = [dir EXCEPT ![run.f] = c]
    PROVE  Still
BY Running, Basics DEF Still, Installed

LEMMA Gains ==
    ASSUME TypeInv, run.pc # "idle", dir[run.f] = None, dir' = [dir EXCEPT ![run.f] = Empty]
    PROVE  Installed' = Installed \cup {run.f} /\ run.f \notin Installed
BY Running, Basics DEF Installed

LEMMA Loses ==
    ASSUME TypeInv, run.pc # "idle", dir' = [dir EXCEPT ![run.f] = None]
    PROVE  Installed' = Installed \ {run.f}
BY Running DEF Installed

LEMMA PromiseStep == TypeInv /\ [Next]_vars => [Promise!Next]_<<Installed, lost>>
<1> SUFFICES ASSUME TypeInv, [Next]_vars PROVE Still \/ Promise!Next
  BY DEF Still
<1>1. CASE UNCHANGED vars \/ Start \/ Refuse \/ handleConfirmation \/ CopyToBackup
           \/ KeepBackup \/ CleanBackup \/ Done \/ Fail \/ Catch \/ UndoFail \/ Kill
  <2>1. dir' = dir /\ lost' = lost
    BY <1>1 DEF vars, Start, Refuse, handleConfirmation, Confirm, CopyToBackup, KeepBackup,
       CleanBackup, Done, Fail, Catch, UndoFail, Kill
  <2> QED
    BY <2>1, StillSame
<1>2. CASE MakeDir
  <2>1. /\ run.pc = "mkdir" /\ run.f \in Names /\ lost' = lost
        /\ dir' = [dir EXCEPT ![run.f] = Empty]
        /\ dir[run.f] = None /\ \A d \in needs[run.f] \cap Names : dir[d] # None
    BY <1>2 DEF TypeInv, RunOK, Checked, MakeDir
  <2>2. Installed' = Installed \cup {run.f} /\ run.f \notin Installed
    BY <2>1, Gains
  <2>3. needs[run.f] \cap Names \subseteq Installed
    BY <2>1 DEF Installed
  <2>4. Promise!Install(run.f)
    BY <2>1, <2>2, <2>3 DEF Promise!Install
  <2> QED
    BY <2>1, <2>4 DEF Promise!Next
<1>3. CASE CopyFile
  <2>1. /\ run.pc = "copy" /\ dir[run.f] # None /\ lost' = lost
        /\ run \in Run /\ dir[run.f] \in Contents /\ run.f \in Names
    BY <1>3, Running DEF CopyFile, TypeInv, Places
  <2>2. ASSUME NEW x \in run.todo, dir' = [dir EXCEPT ![run.f][x] = run.v] PROVE Still
    <3>1. x \in Files /\ run.v \in 0 .. MaxVersion
      BY <2>1 DEF Run
    <3>2. [dir[run.f] EXCEPT ![x] = run.v] \in Contents
      BY <2>1, <3>1, Changed
    <3>3. dir' = [dir EXCEPT ![run.f] = [dir[run.f] EXCEPT ![x] = run.v]]
      BY <2>2
    <3> QED
      BY <2>1, <3>2, <3>3, StillThere
  <2> QED
    BY <1>3, <2>1, <2>2, StillSame DEF CopyFile
<1>4. CASE RemoveFile
  <2>1. /\ run.pc = "rm" /\ dir[run.f] # None /\ lost' = lost
        /\ run \in Run /\ dir[run.f] \in Contents /\ run.f \in Names
        /\ "core" \notin neededBy[run.f] /\ \A d \in neededBy[run.f] \cap Names : dir[d] = None
    BY <1>4, Running DEF RemoveFile, TypeInv, Places, Checked
  <2>2. ASSUME NEW x \in run.todo, dir' = [dir EXCEPT ![run.f] = Removed(@, x)] PROVE Still
    <3>1. Removed(dir[run.f], x) \in Contents
      BY <2>1, Changed DEF Run
    <3> QED
      BY <2>1, <2>2, <3>1, StillThere
  <2>3. CASE dir' = [dir EXCEPT ![run.f] = None]
    <3>1. Installed' = Installed \ {run.f} /\ run.f \in Installed
      BY <2>1, <2>3, Loses DEF Installed
    <3>2. neededBy[run.f] \cap Installed = {}
      BY <2>1 DEF Installed
    <3>3. Promise!Remove(run.f)
      BY <2>1, <3>1, <3>2 DEF Promise!Remove
    <3> QED
      BY <2>1, <3>3 DEF Promise!Next
  <2> QED
    BY <1>4, <2>2, <2>3 DEF RemoveFile
<1>5. CASE UndoNext
  <2>1. run.pc = "undo" /\ run.f \in Names /\ lost' = lost /\ run \in Run
        /\ dir \in [Names -> {None} \cup Contents]
    BY <1>5, Running DEF UndoNext
  <2>2. CASE dir' = dir
    BY <2>1, <2>2, StillSame
  <2>3. CASE /\ run.undo # <<>> /\ Head(run.undo) = "restore"
             /\ dir' = [dir EXCEPT ![run.f] = IF @ = None THEN Empty ELSE @]
    <3>1. run.undo = <<"restore">>
      BY <2>1, <2>3, Undos DEF Run, Undo
    <3>2. CASE dir[run.f] = None
      <4>1. lost /\ dir' = [dir EXCEPT ![run.f] = Empty]
        BY <2>1, <2>3, <3>1, <3>2 DEF TypeInv, Checked
      <4>2. Promise!Regain(run.f)
        BY <2>1, <3>2, <4>1, Gains DEF Promise!Regain
      <4> QED
        BY <2>1, <4>2 DEF Promise!Next
    <3>3. CASE dir[run.f] # None
      <4>1. dir' = [dir EXCEPT ![run.f] = dir[run.f]] /\ dir[run.f] \in Contents
        BY <2>1, <2>3, <3>3
      <4> QED
        BY <2>1, <3>3, <4>1, StillThere
    <3> QED
      BY <3>2, <3>3
  <2> QED
    BY <1>5, <2>2, <2>3 DEF UndoNext
<1>6. CASE UndoRemove
  <2>1. /\ run.pc = "unremove" /\ dir[run.f] # None
        /\ run \in Run /\ dir[run.f] \in Contents /\ run.f \in Names
    BY <1>6, Running DEF UndoRemove, TypeInv, Places
  <2>2. ASSUME NEW x \in run.todo, dir' = [dir EXCEPT ![run.f] = Removed(@, x)], lost' = lost
        PROVE  Still
    <3>1. Removed(dir[run.f], x) \in Contents
      BY <2>1, Changed DEF Run
    <3> QED
      BY <2>1, <2>2, <3>1, StillThere
  <2>3. CASE dir' = [dir EXCEPT ![run.f] = None] /\ lost' = TRUE
    <3>1. Promise!Lose(run.f)
      BY <2>1, <2>3, Loses DEF Promise!Lose
    <3> QED
      BY <2>1, <3>1 DEF Promise!Next
  <2> QED
    BY <1>6, <2>2, <2>3 DEF UndoRemove
<1>7. CASE UndoRestore
  <2>1. /\ run.pc = "restore" /\ dir[run.f] # None /\ backup[run.f] # None /\ lost' = lost
        /\ run \in Run /\ dir[run.f] \in Contents /\ backup[run.f] \in Contents /\ run.f \in Names
    BY <1>7, Running DEF UndoRestore, TypeInv, Places
  <2>2. ASSUME NEW x \in run.todo, dir' = [dir EXCEPT ![run.f][x] = backup[run.f][x]] PROVE Still
    <3>1. x \in Files /\ backup[run.f][x] \in 0 .. MaxVersion
      BY <2>1, Changed DEF Run
    <3>2. [dir[run.f] EXCEPT ![x] = backup[run.f][x]] \in Contents
      BY <2>1, <3>1, Changed
    <3>3. dir' = [dir EXCEPT ![run.f] = [dir[run.f] EXCEPT ![x] = backup[run.f][x]]]
      BY <2>2
    <3> QED
      BY <2>1, <3>2, <3>3, StillThere
  <2> QED
    BY <1>7, <2>1, <2>2, StillSame DEF UndoRestore
<1> QED
  BY <1>1, <1>2, <1>3, <1>4, <1>5, <1>6, <1>7 DEF Next

\* Installs, removals, upgrades, their failures and rollbacks implement FeatureSet:
\* a feature comes with what it needs and goes when nothing needs it, whenever the
\* tool fails or is killed.
THEOREM ImplementsPromise == Spec => Implements
<1>1. Init => Promise!Init
  BY DEF Init, Promise!Init, Installed
<1> QED
  BY <1>1, TypeInit, TypeNext, PromiseStep, PTL DEF Spec, Implements, Promise!Spec

(***************************************************************************)
(* What FeatureSet is good for: until a rollback loses a feature, those    *)
(* that an installed feature needs are installed.                          *)
(***************************************************************************)

LEMMA ClosedNext ==
    Promise!Closed /\ [Promise!Next]_<<Installed, lost>> => Promise!Closed'
<1> SUFFICES ASSUME Promise!Closed, [Promise!Next]_<<Installed, lost>>, ~lost',
                    NEW f \in Installed', NEW d \in needs[f] \cap Names
             PROVE  d \in Installed'
  BY DEF Promise!Closed
<1>1. CASE UNCHANGED <<Installed, lost>>
  BY <1>1 DEF Promise!Closed
<1>2. ASSUME NEW g \in Names, Promise!Install(g) PROVE d \in Installed'
  BY <1>2 DEF Promise!Install, Promise!Closed
<1>3. ASSUME NEW g \in Names, Promise!Remove(g) PROVE d \in Installed'
  <2>1. f \in Installed /\ d \in Installed /\ f \in Names /\ Installed' = Installed \ {g}
    BY <1>3 DEF Promise!Remove, Promise!Closed, Installed
  <2>2. CASE d = g
    <3>1. "core" \notin neededBy[d] /\ neededBy[d] \cap Installed = {}
      BY <1>3, <2>2 DEF Promise!Remove
    <3>2. PICK h \in neededBy[d] \cap Names : h = f \/ h \in needs[f]
      BY <2>1, <3>1, FeatureManagerAssumption
    <3>3. h \in Installed
      BY <1>3, <2>1, <3>2 DEF Promise!Closed, Promise!Remove
    <3> QED
      BY <3>1, <3>2, <3>3
  <2> QED
    BY <2>1, <2>2
<1>4. ASSUME NEW g \in Names, Promise!Lose(g) PROVE d \in Installed'
  BY <1>4 DEF Promise!Lose
<1>5. ASSUME NEW g \in Names, Promise!Regain(g) PROVE d \in Installed'
  BY <1>5 DEF Promise!Regain
<1> QED
  BY <1>1, <1>2, <1>3, <1>4, <1>5 DEF Promise!Next

\* Whatever order features are installed, upgraded and removed in, an installed
\* feature has the features that it needs, as long as no rollback has lost one.
THEOREM NeedsStay == Spec => []Promise!Closed
<1>1. Promise!Init => Promise!Closed
  BY DEF Promise!Init, Promise!Closed
<1>2. Promise!Spec => []Promise!Closed
  BY <1>1, ClosedNext, PTL DEF Promise!Spec
<1> QED
  BY <1>2, ImplementsPromise, PTL DEF Implements

(***************************************************************************)
(* What an upgrade found is kept: while it is overwritten or removed, it   *)
(* is in the backup.                                                       *)
(***************************************************************************)

Saved(f) == \A p \in held[f] : Holds(backup[f], p)

Saving ==
    /\ run.pc = "backup" =>
        \A p \in held[run.f] : p[1] \notin run.todo => Holds(backup[run.f], p)
    /\ run.pc \in {"mkdir", "copy", "keep", "unremove", "restore"} \/ run.undo # <<>>
            => Saved(run.f)
    /\ run.pc \in {"rm", "clean"} => held[run.f] = {}

KeepInv == OldFilesKept /\ Saving

LEMMA KeptOthers ==
    ASSUME TypeInv, OldFilesKept, run.pc # "idle",
           \A f \in Names \ {run.f} : dir'[f] = dir[f] /\ backup'[f] = backup[f]
                                      /\ held'[f] = held[f],
           \A p \in held'[run.f] : Holds(dir'[run.f], p) \/ Holds(backup'[run.f], p)
    PROVE  OldFilesKept'
<1> SUFFICES ASSUME NEW f \in Names, NEW p \in held'[f]
             PROVE  Holds(dir'[f], p) \/ Holds(backup'[f], p)
  BY DEF OldFilesKept, Holds
<1>1. CASE f = run.f
  BY <1>1
<1>2. CASE f # run.f
  BY <1>2 DEF OldFilesKept
<1> QED
  BY <1>1, <1>2

LEMMA KeptSame == OldFilesKept /\ UNCHANGED <<dir, backup, held>> => OldFilesKept'
BY DEF OldFilesKept, Holds

\* The tool changes the directory while the backup has it all.
LEMMA KeptByBackup ==
    ASSUME TypeInv, OldFilesKept, run.pc # "idle", Saved(run.f), UNCHANGED <<backup, held>>,
           NEW c, dir' = [dir EXCEPT ![run.f] = c]
    PROVE  OldFilesKept'
<1>1. \A f \in Names \ {run.f} : dir'[f] = dir[f] /\ backup'[f] = backup[f] /\ held'[f] = held[f]
  BY Running
<1> QED
  BY <1>1, KeptOthers DEF Saved

LEMMA KeepInit == Init => KeepInv
BY Undos DEF Init, KeepInv, OldFilesKept, Saving, Idle

LEMMA KeepConfirm == TypeInv /\ KeepInv /\ handleConfirmation => KeepInv'
<1> SUFFICES ASSUME TypeInv, KeepInv, handleConfirmation PROVE KeepInv'
  OBVIOUS
<1>1. /\ run.pc = "confirm" /\ run.pc # "idle" /\ run.undo = <<>> /\ UNCHANGED <<dir, backup>>
      /\ run \in Run /\ run.f \in Names /\ run.mode \in Modes
      /\ held \in [Names -> SUBSET (Files \X Versions)]
      /\ dir \in [Names -> {None} \cup Contents]
  BY Running DEF handleConfirmation, Confirm, TypeInv, RunOK
<1>2. CASE Goto("catch", {})
  <2>1. run'.pc = "catch" /\ run'.f = run.f /\ run'.undo = <<>>
    BY <1>1, <1>2, Gone
  <2>2. held' = held
    BY <2>1 DEF handleConfirmation, Confirm
  <2> QED
    BY <1>1, <2>1, <2>2, KeptSame DEF KeepInv, Saving
<1>3. CASE run.mode = "install" /\ Goto("mkdir", {})
  <2>1. run'.pc = "mkdir" /\ run'.f = run.f /\ run'.undo = <<>>
    BY <1>1, <1>3, Gone
  <2>2. held' = held /\ dir[run.f] = None
    BY <1>1, <1>3, <2>1 DEF handleConfirmation, Confirm, TypeInv, Checked
  <2>3. Saved(run.f)
    BY <1>1, <2>2 DEF KeepInv, OldFilesKept, Saved, Holds
  <2> QED
    BY <1>1, <2>1, <2>2, <2>3, KeptSame DEF KeepInv, Saving, Saved
<1>4. CASE run.mode = "remove" /\ Goto("rm", Present(dir[run.f]))
  <2>1. dir[run.f] # None
    BY <1>1, <1>4 DEF TypeInv, Checked
  <2>2. run'.pc = "rm" /\ run'.f = run.f /\ run'.undo = <<>>
    BY <1>1, <1>4, <2>1, Basics, Gone
  <2>3. held' = [held EXCEPT ![run.f] = {}]
    BY <2>2 DEF handleConfirmation, Confirm
  <2>4. held'[run.f] = {} /\ \A f \in Names \ {run.f} : held'[f] = held[f]
    BY <1>1, <2>3
  <2>5. OldFilesKept'
    BY <1>1, <2>4, KeptOthers DEF KeepInv
  <2> QED
    BY <2>2, <2>4, <2>5 DEF KeepInv, Saving
<1>5. CASE run.mode = "upgrade" /\ Goto("backup", Present(dir[run.f]))
  <2>1. dir[run.f] # None
    BY <1>1, <1>5 DEF TypeInv, Places, hasManifest
  <2>2. run'.pc = "backup" /\ run'.f = run.f /\ run'.undo = <<>> /\ run'.todo = Present(dir[run.f])
    BY <1>1, <1>5, <2>1, Basics, Gone
  <2>3. held' = [held EXCEPT ![run.f] = @ \cup AtVersions(dir[run.f])]
    BY <2>2 DEF handleConfirmation, Confirm
  <2>4. /\ held'[run.f] = held[run.f] \cup AtVersions(dir[run.f])
        /\ \A f \in Names \ {run.f} : held'[f] = held[f]
    BY <1>1, <2>3
  <2>5. \A p \in AtVersions(dir[run.f]) :
            p[1] \in Present(dir[run.f]) /\ p[2] = dir[run.f][p[1]]
    BY DEF AtVersions
  <2>6. \A p \in held'[run.f] : Holds(dir[run.f], p) \/ Holds(backup[run.f], p)
    BY <1>1, <2>1, <2>4, <2>5 DEF KeepInv, OldFilesKept, Holds
  <2>7. OldFilesKept'
    BY <1>1, <2>4, <2>6, KeptOthers DEF KeepInv
  <2>8. ASSUME NEW p \in held'[run.f], p[1] \notin Present(dir[run.f])
        PROVE  Holds(backup[run.f], p)
    <3>1. p \in held[run.f] /\ p \in Files \X Versions
      BY <1>1, <2>4, <2>5, <2>8
    <3>2. p[1] \in Files /\ p[2] # 0
      BY <3>1 DEF Versions
    <3>3. ~Holds(dir[run.f], p)
      BY <2>8, <3>2 DEF Holds, Present
    <3> QED
      BY <1>1, <3>1, <3>3 DEF KeepInv, OldFilesKept
  <2> QED
    BY <1>1, <2>2, <2>7, <2>8 DEF KeepInv, Saving
<1> QED
  BY <1>2, <1>3, <1>4, <1>5 DEF handleConfirmation, Confirm

LEMMA KeepCopyToBackup == TypeInv /\ KeepInv /\ CopyToBackup => KeepInv'
<1> SUFFICES ASSUME TypeInv, KeepInv, CopyToBackup PROVE KeepInv'
  OBVIOUS
<1>1. /\ run.pc = "backup" /\ run.pc # "idle" /\ run.undo = <<>> /\ UNCHANGED dir
      /\ run \in Run /\ run.f \in Names /\ dir[run.f] # None /\ dir[run.f] \in Contents
      /\ backup \in [Names -> {None} \cup Contents]
      /\ held \in [Names -> SUBSET (Files \X Versions)]
  BY Running DEF CopyToBackup, TypeInv, RunOK, Places
<1>2. CASE run.todo = {} /\ Goto("copy", ToCopy) /\ UNCHANGED <<backup, held>>
  <2>1. run'.pc = "copy" /\ run'.f = run.f /\ run'.undo = <<>>
    BY <1>1, <1>2, Basics, Gone, Running DEF ToCopy
  <2>2. Saved(run.f)
    BY <1>1, <1>2 DEF KeepInv, Saving, Saved
  <2> QED
    BY <1>1, <1>2, <2>1, <2>2, KeptSame DEF KeepInv, Saving, Saved
<1>3. ASSUME NEW x \in run.todo, Goto("backup", run.todo \ {x}),
             backup' = [backup EXCEPT ![run.f] = Merged(@, x)],
             held' = [held EXCEPT ![run.f] = {p \in @ : p[1] = x => p[2] = dir[run.f][x]}]
      PROVE  KeepInv'
  <2>1. x \in Files /\ run.todo \ {x} \subseteq Files
    BY <1>1 DEF Run
  <2>2. run'.pc = "backup" /\ run'.f = run.f /\ run'.undo = <<>> /\ run'.todo = run.todo \ {x}
    BY <1>1, <1>3, <2>1, Gone
  <2>3. /\ backup'[run.f] = Merged(backup[run.f], x)
        /\ held'[run.f] = {p \in held[run.f] : p[1] = x => p[2] = dir[run.f][x]}
        /\ \A f \in Names \ {run.f} : backup'[f] = backup[f] /\ held'[f] = held[f]
    BY <1>1, <1>3
  <2>4. backup'[run.f] # None /\ backup'[run.f][x] = dir[run.f][x]
    <3>1. backup'[run.f] \in Contents /\ backup'[run.f][x] = dir[run.f][x]
      BY <1>1, <2>1, <2>3, Changed, Basics DEF Merged, Contents
    <3> QED
      BY <3>1, Basics
  <2>5. \A y \in Files \ {x} : backup[run.f] # None => backup'[run.f][y] = backup[run.f][y]
    BY <1>1, <2>1, <2>3 DEF Merged, Contents
  <2>6. \A p \in held'[run.f] : p[1] = x => Holds(backup'[run.f], p)
    BY <2>3, <2>4 DEF Holds
  <2>7. \A p \in held'[run.f] : p[1] # x /\ Holds(backup[run.f], p) => Holds(backup'[run.f], p)
    <3>1. \A p \in held'[run.f] : p[1] \in Files
      BY <1>1, <2>3
    <3> QED
      BY <2>4, <2>5, <3>1 DEF Holds
  <2>8. \A p \in held'[run.f] : Holds(dir[run.f], p) \/ Holds(backup'[run.f], p)
    BY <1>1, <2>3, <2>6, <2>7 DEF KeepInv, OldFilesKept
  <2>9. OldFilesKept'
    BY <1>1, <2>3, <2>8, KeptOthers DEF KeepInv
  <2>10. \A p \in held'[run.f] : p[1] \notin run'.todo => Holds(backup'[run.f], p)
    BY <1>1, <2>2, <2>3, <2>6, <2>7 DEF KeepInv, Saving
  <2> QED
    BY <2>2, <2>9, <2>10 DEF KeepInv, Saving
<1> QED
  BY <1>1, <1>2, <1>3 DEF CopyToBackup

\* Steps that change the directory alone, and the run's place.
LEMMA KeepDir ==
    ASSUME TypeInv, KeepInv, run.pc # "idle", Saved(run.f), UNCHANGED <<backup, held>>,
           (dir' = dir) \/ (\E c : dir' = [dir EXCEPT ![run.f] = c]), run'.f = run.f,
           run'.pc \notin {"backup", "rm", "clean"}
    PROVE  KeepInv'
BY KeptSame, KeptByBackup DEF KeepInv, Saving, Saved

LEMMA KeepIdle ==
    ASSUME KeepInv, run' = Idle, UNCHANGED <<dir, backup, held>>
    PROVE  KeepInv'
BY KeptSame, Undos DEF KeepInv, Saving, Idle

LEMMA KeepNext == TypeInv /\ KeepInv /\ [Next]_vars => KeepInv'
<1> SUFFICES ASSUME TypeInv, KeepInv, [Next]_vars PROVE KeepInv'
  OBVIOUS
<1>1. CASE Refuse \/ UNCHANGED vars
  BY <1>1, KeptSame DEF Refuse, vars, KeepInv, Saving, Saved
<1>2. CASE Start
  <2>1. PICK f, mode, v : run' = [Idle EXCEPT !.pc = "confirm", !.mode = mode, !.f = f, !.v = v]
    BY <1>2 DEF Start
  <2>2. run'.pc = "confirm" /\ run'.undo = <<>> /\ UNCHANGED <<dir, backup, held>>
    BY <1>2, <2>1 DEF Idle, Start
  <2> QED
    BY <2>2, KeptSame DEF KeepInv, Saving
<1>3. CASE MakeDir
  <2>1. run.pc = "mkdir" /\ UNCHANGED <<backup, held>> /\ Goto("copy", ToCopy)
        /\ run \in Run /\ run.v \in Versions
    BY <1>3, Running DEF MakeDir
  <2>2. run'.pc = "copy" /\ run'.f = run.f
    BY <2>1, Basics, Gone DEF ToCopy
  <2>3. \E c : dir' = [dir EXCEPT ![run.f] = c]
    BY <1>3 DEF MakeDir
  <2> QED
    BY <2>1, <2>2, <2>3, KeepDir DEF KeepInv, Saving
<1>4. CASE CopyFile
  <2>1. run.pc = "copy" /\ UNCHANGED <<backup, held>> /\ run \in Run
    BY <1>4, Running DEF CopyFile
  <2>2. run'.pc \in {"copy", "keep", "done"} /\ run'.f = run.f
    BY <1>4, <2>1 DEF CopyFile, Goto, Run
  <2>3. (dir' = dir) \/ (\E c : dir' = [dir EXCEPT ![run.f] = c])
    <3>1. ASSUME NEW x \in run.todo, dir' = [dir EXCEPT ![run.f][x] = run.v]
          PROVE  dir' = [dir EXCEPT ![run.f] = [dir[run.f] EXCEPT ![x] = run.v]]
      BY <3>1
    <3> QED
      BY <1>4, <3>1 DEF CopyFile
  <2> QED
    BY <2>1, <2>2, <2>3, KeepDir DEF KeepInv, Saving
<1>5. CASE KeepBackup
  <2>1. run.pc = "keep" /\ run.pc # "idle" /\ UNCHANGED <<dir, backup>> /\ run \in Run
        /\ run.f \in Names /\ backup[run.f] # None /\ backup[run.f] \in Contents
        /\ held \in [Names -> SUBSET (Files \X Versions)] /\ Saved(run.f)
    BY <1>5, Running DEF KeepBackup, TypeInv, Places, KeepInv, Saving
  <2>2. CASE Goto("done", {}) /\ UNCHANGED held
    <3>1. run'.pc = "done" /\ run'.f = run.f
      BY <2>1, <2>2, Gone
    <3> QED
      BY <2>1, <2>2, <3>1, KeepDir
  <2>3. CASE Goto("clean", Present(backup[run.f])) /\ held' = [held EXCEPT ![run.f] = {}]
    <3>1. run'.pc = "clean" /\ run'.f = run.f
      BY <2>1, <2>3, Basics, Gone
    <3>2. held'[run.f] = {} /\ \A f \in Names \ {run.f} : held'[f] = held[f]
      BY <2>1, <2>3
    <3>3. OldFilesKept'
      BY <2>1, <3>2, KeptOthers DEF KeepInv
    <3> QED
      BY <3>1, <3>2, <3>3 DEF KeepInv, Saving, Saved
  <2> QED
    BY <1>5, <2>2, <2>3 DEF KeepBackup
<1>6. CASE CleanBackup
  <2>1. run.pc = "clean" /\ run.pc # "idle" /\ UNCHANGED <<dir, held>> /\ run \in Run
        /\ run.f \in Names /\ held[run.f] = {}
        /\ backup \in [Names -> {None} \cup Contents]
    BY <1>6, Running DEF CleanBackup, KeepInv, Saving
  <2>2. run'.pc \in {"clean", "done"} /\ run'.f = run.f
    BY <1>6, <2>1 DEF CleanBackup, Goto, Run
  <2>3. \A f \in Names \ {run.f} : backup'[f] = backup[f]
    BY <1>6, <2>1 DEF CleanBackup
  <2>4. OldFilesKept'
    BY <2>1, <2>3, KeptOthers DEF KeepInv
  <2> QED
    BY <2>1, <2>2, <2>4 DEF KeepInv, Saving, Saved
<1>7. CASE RemoveFile
  <2>1. run.pc = "rm" /\ run.pc # "idle" /\ UNCHANGED <<backup, held>> /\ run \in Run
        /\ run.f \in Names /\ held[run.f] = {}
        /\ dir \in [Names -> {None} \cup Contents]
    BY <1>7, Running DEF RemoveFile, KeepInv, Saving
  <2>2. run'.pc \in {"rm", "done"} /\ run'.f = run.f
    BY <1>7, <2>1 DEF RemoveFile, Goto, Run
  <2>3. \A f \in Names \ {run.f} : dir'[f] = dir[f]
    BY <1>7, <2>1 DEF RemoveFile
  <2>4. OldFilesKept'
    BY <2>1, <2>3, KeptOthers DEF KeepInv
  <2> QED
    BY <2>1, <2>2, <2>4 DEF KeepInv, Saving, Saved
<1>8. CASE Done \/ Kill
  BY <1>8, KeepIdle DEF Done, Kill
<1>9. CASE Fail \/ UndoFail
  <2>1. PICK pc \in {"catch", "undo"} : Goto(pc, {}) /\ UNCHANGED <<dir, backup, held>>
        /\ run.pc # "idle"
    BY <1>9 DEF Fail, UndoFail
  <2>2. run'.pc = pc /\ run'.f = run.f /\ run'.undo = run.undo
    BY <2>1, Gone
  <2> QED
    BY <2>1, <2>2, KeptSame DEF KeepInv, Saving, Saved
<1>10. CASE Catch
  <2>1. run.pc = "catch" /\ run.pc # "idle" /\ UNCHANGED <<dir, backup, held>>
    BY <1>10 DEF Catch
  <2>2. CASE Goto("undo", {})
    <3>1. run'.pc = "undo" /\ run'.f = run.f /\ run'.undo = run.undo
      BY <2>1, <2>2, Gone
    <3> QED
      BY <2>1, <3>1, KeptSame DEF KeepInv, Saving, Saved
  <2> QED
    BY <1>10, <2>1, <2>2, KeepIdle DEF Catch
<1>11. CASE UndoNext
  <2>1. run.pc = "undo" /\ run.pc # "idle" /\ UNCHANGED <<backup, held>> /\ run \in Run
    BY <1>11, Running DEF UndoNext
  <2>2. CASE run' = Idle /\ UNCHANGED dir
    BY <2>1, <2>2, KeepIdle
  <2>3. CASE run.undo # <<>> /\ run'.pc \in {"unremove", "restore"} /\ run'.f = run.f
             /\ ((dir' = dir) \/ (\E c : dir' = [dir EXCEPT ![run.f] = c]))
    BY <2>1, <2>3, KeepDir DEF KeepInv, Saving
  <2>4. CASE /\ run.undo # <<>> /\ UNCHANGED dir
             /\ run' = [run EXCEPT !.undo = Tail(@), !.pc = "unremove",
                                   !.todo = IF dir[run.f] = None THEN {} ELSE Present(dir[run.f])]
    <3>1. run'.pc = "unremove" /\ run'.f = run.f
      BY <2>1, <2>4 DEF Run
    <3> QED
      BY <2>3, <2>4, <3>1
  <2>5. CASE /\ run.undo # <<>>
             /\ run' = [run EXCEPT !.undo = Tail(@), !.pc = "restore",
                                   !.todo = Present(backup[run.f])]
             /\ dir' = [dir EXCEPT ![run.f] = IF @ = None THEN Empty ELSE @]
    <3>1. run'.pc = "restore" /\ run'.f = run.f
      BY <2>1, <2>5 DEF Run
    <3>2. dir' = [dir EXCEPT ![run.f] = IF dir[run.f] = None THEN Empty ELSE dir[run.f]]
      BY <2>5
    <3> QED
      BY <2>3, <2>5, <3>1, <3>2
  <2> QED
    BY <1>11, <2>2, <2>4, <2>5 DEF UndoNext
<1>12. CASE UndoRemove
  <2>1. run.pc = "unremove" /\ run.pc # "idle" /\ UNCHANGED <<backup, held>> /\ run \in Run
    BY <1>12, Running DEF UndoRemove
  <2>2. run'.pc \in {"unremove", "undo"} /\ run'.f = run.f
    BY <1>12, <2>1 DEF UndoRemove, Goto, Run
  <2>3. \E c : dir' = [dir EXCEPT ![run.f] = c]
    BY <1>12 DEF UndoRemove
  <2> QED
    BY <2>1, <2>2, <2>3, KeepDir DEF KeepInv, Saving
<1>13. CASE UndoRestore
  <2>1. run.pc = "restore" /\ run.pc # "idle" /\ UNCHANGED <<backup, held>> /\ run \in Run
    BY <1>13, Running DEF UndoRestore
  <2>2. run'.pc \in {"restore", "undo"} /\ run'.f = run.f
    BY <1>13, <2>1 DEF UndoRestore, Goto, Run
  <2>3. (dir' = dir) \/ (\E c : dir' = [dir EXCEPT ![run.f] = c])
    <3>1. ASSUME NEW x \in run.todo, dir' = [dir EXCEPT ![run.f][x] = backup[run.f][x]]
          PROVE  dir' = [dir EXCEPT ![run.f] = [dir[run.f] EXCEPT ![x] = backup[run.f][x]]]
      BY <3>1
    <3> QED
      BY <1>13, <3>1 DEF UndoRestore
  <2> QED
    BY <2>1, <2>2, <2>3, KeepDir DEF KeepInv, Saving
<1> QED
  BY <1>1, <1>2, <1>3, <1>4, <1>5, <1>6, <1>7, <1>8, <1>9, <1>10, <1>11, <1>12, <1>13,
     KeepConfirm, KeepCopyToBackup DEF Next

\* Every file that an upgrade found is in the directory or in the backup, however
\* often copies, removals and rollbacks fail or the tool is killed, and whatever runs
\* follow, until the backup is given up, the removal of the feature is confirmed, or
\* the backup of a later upgrade overwrites it by another version of the same file.
THEOREM UpgradeKeepsOldFiles == Spec => []OldFilesKept
<1>1. KeepInv => OldFilesKept
  BY DEF KeepInv
<1> QED
  BY <1>1, TypeInit, TypeNext, KeepInit, KeepNext, PTL DEF Spec

(***************************************************************************)
(* Manifests tell the truth.                                               *)
(***************************************************************************)

Truthful(f) ==
    /\ hasManifest(dir[f])
    /\ \A x \in Shipped[dir[f]["manifest"]] : dir[f][x] = dir[f]["manifest"]

Truth ==
    /\ run.pc \in {"confirm", "mkdir", "backup", "catch", "undo"}
            => run.f \in torn \/ dir[run.f] = None \/ Truthful(run.f)
    /\ run.pc \in {"keep", "done", "clean"} => dir[run.f] = None \/ Truthful(run.f)
    /\ run.pc = "copy" => \A x \in Shipped[run.v] \ run.todo : dir[run.f][x] = run.v
    /\ run.pc \in {"catch", "undo"} /\ run.undo # <<>> => run.f \in torn
    /\ run.pc \in {"unremove", "restore"} => run.f \in torn

TruthInv == TruthfulManifests /\ Truth

\* The tool works on one feature, whose manifest may say what it likes meanwhile.
LEMMA TrueOthers ==
    ASSUME TypeInv, TruthfulManifests, run.pc # "idle", run'.f = run.f,
           torn' = torn \/ torn' = torn \cup {run.f},
           \A f \in Names \ {run.f} : dir'[f] = dir[f]
    PROVE  TruthfulManifests'
BY DEF TruthfulManifests

LEMMA TrueSame ==
    ASSUME NEW f \in Names, dir'[f] = dir[f], Truthful(f)
    PROVE  Truthful(f)'
BY DEF Truthful

\* The run ends; its feature is torn or its manifest is true.
LEMMA TrueEnd ==
    ASSUME TypeInv, TruthInv, run.pc # "idle", run' = Idle, dir' = dir,
           torn' = torn \/ torn' = torn \cup {run.f} \/ torn' = torn \ {run.f},
           run.f \in torn' \/ dir[run.f] = None \/ Truthful(run.f)
    PROVE  TruthInv'
<1>1. run.f \in Names /\ run'.pc = "idle"
  BY Running DEF Idle
<1>2. TruthfulManifests'
  <2> SUFFICES ASSUME NEW f \in Names, f \notin torn', dir[f] # None
               PROVE  Truthful(f)
    BY DEF TruthfulManifests, Truthful
  <2>1. CASE f = run.f
    BY <2>1
  <2>2. CASE f # run.f
    BY <2>2 DEF TruthInv, TruthfulManifests, Truthful
  <2> QED
    BY <2>1, <2>2
<1> QED
  BY <1>1, <1>2 DEF TruthInv, Truth

LEMMA TrueInit == Init => TruthInv
<1> SUFFICES ASSUME Init PROVE TruthInv
  OBVIOUS
<1>1. ASSUME NEW f \in Names, dir[f] # None PROVE Truthful(f)
  <2>1. dir[f] = [x \in Files |-> IF x \in Shipped[1] THEN 1 ELSE 0]
    BY <1>1 DEF Init
  <2>2. dir[f]["manifest"] = 1 /\ \A x \in Shipped[1] : dir[f][x] = 1
    BY <2>1, Basics, FeatureManagerAssumption
  <2> QED
    BY <1>1, <2>2 DEF Truthful, hasManifest
<1> QED
  BY <1>1 DEF Init, TruthInv, TruthfulManifests, Truth, Truthful, Idle

LEMMA TruthNext == TypeInv /\ TruthInv /\ [Next]_vars => TruthInv'
<1> SUFFICES ASSUME TypeInv, TruthInv, [Next]_vars PROVE TruthInv'
  OBVIOUS
<1>1. CASE Refuse \/ UNCHANGED vars
  <2>1. UNCHANGED <<run, dir, torn>>
    BY <1>1 DEF Refuse, vars
  <2> QED
    BY <2>1 DEF TruthInv, TruthfulManifests, Truth, Truthful
<1>2. CASE Start
  <2>1. PICK f \in Names, mode \in Modes, v \in Versions :
            run' = [Idle EXCEPT !.pc = "confirm", !.mode = mode, !.f = f, !.v = v]
    BY <1>2 DEF Start
  <2>2. run'.pc = "confirm" /\ run'.f = f /\ UNCHANGED <<dir, torn>> /\ run.f = None
    <3>1. run'.pc = "confirm" /\ run'.f = f
      BY <2>1 DEF Idle
    <3>2. run = Idle /\ UNCHANGED <<dir, torn>>
      BY <1>2 DEF Start, TypeInv, RunOK
    <3> QED
      BY <3>1, <3>2 DEF Idle
  <2>3. \A g \in Names : g \in torn \/ dir[g] = None \/ Truthful(g)
    BY <2>2, FeatureManagerAssumption DEF TruthInv, TruthfulManifests, Truthful
  <2> QED
    BY <2>2, <2>3 DEF TruthInv, TruthfulManifests, Truth, Truthful
<1>3. CASE handleConfirmation
  <2>1. /\ run.pc = "confirm" /\ run.pc # "idle" /\ UNCHANGED <<dir, torn>>
        /\ run \in Run /\ run.f \in Names /\ run.undo = <<>>
    BY <1>3, Running DEF handleConfirmation, Confirm, TypeInv, RunOK
  <2>2. run'.pc \in {"catch", "mkdir", "rm", "backup"} /\ run'.f = run.f /\ run'.undo = <<>>
    BY <1>3, <2>1 DEF handleConfirmation, Confirm, Goto, Run
  <2>3. TruthfulManifests'
    BY <2>1, <2>2, TrueOthers DEF TruthInv
  <2> QED
    BY <2>1, <2>2, <2>3 DEF TruthInv, Truth, Truthful
<1>4. CASE MakeDir
  <2>1. /\ run.pc = "mkdir" /\ run.pc # "idle" /\ torn' = torn /\ Goto("copy", ToCopy)
        /\ dir' = [dir EXCEPT ![run.f] = Empty] /\ run \in Run /\ run.v \in Versions
    BY <1>4, Running DEF MakeDir
  <2>2. run'.pc = "copy" /\ run'.f = run.f /\ run'.todo = Shipped[run.v] /\ run'.v = run.v
    <3>1. ToCopy = Shipped[run.v] /\ ToCopy \subseteq Files
      BY <2>1, Basics DEF ToCopy
    <3> QED
      BY <2>1, <3>1, Gone
  <2>3. \A f \in Names \ {run.f} : dir'[f] = dir[f]
    BY <2>1, Running
  <2>4. TruthfulManifests'
    BY <2>1, <2>2, <2>3, TrueOthers DEF TruthInv
  <2> QED
    BY <2>2, <2>4 DEF TruthInv, Truth
<1>5. CASE CopyToBackup
  <2>1. /\ run.pc = "backup" /\ run.pc # "idle" /\ UNCHANGED <<dir, torn>>
        /\ run \in Run /\ run.f \in Names /\ run.v \in Versions /\ run.undo = <<>>
    BY <1>5, Running DEF CopyToBackup, TypeInv, RunOK
  <2>2. \/ /\ run'.pc = "copy" /\ run'.todo = Shipped[run.v] /\ run'.v = run.v /\ run'.f = run.f
        \/ run'.pc = "backup" /\ run'.f = run.f
    BY <1>5, <2>1 DEF CopyToBackup, Goto, Run, ToCopy
  <2>3. TruthfulManifests'
    BY <2>1, <2>2, TrueOthers DEF TruthInv
  <2> QED
    BY <2>1, <2>2, <2>3 DEF TruthInv, Truth, Truthful
<1>6. CASE CopyFile
  <2>1. /\ run.pc = "copy" /\ run.pc # "idle" /\ torn' = torn /\ dir[run.f] \in Contents
        /\ run \in Run /\ run.f \in Names /\ run.v \in Versions
        /\ dir \in [Names -> {None} \cup Contents]
    BY <1>6, Running DEF CopyFile, TypeInv, Places
  <2>2. CASE /\ run.todo = {} /\ UNCHANGED dir
             /\ run' = [run EXCEPT !.pc = IF run.mode = "upgrade" THEN "keep" ELSE "done",
                                   !.undo = UndoSteps]
    <3>1. run'.pc \in {"keep", "done"} /\ run'.f = run.f
      BY <2>1, <2>2 DEF Run
    <3>2. \A x \in Shipped[run.v] : dir[run.f][x] = run.v
      BY <2>1, <2>2 DEF TruthInv, Truth
    <3>3. Truthful(run.f)
      BY <2>1, <3>2, Basics DEF Truthful, hasManifest, Versions
    <3>4. TruthfulManifests'
      BY <2>1, <2>2, <3>1, TrueOthers DEF TruthInv
    <3> QED
      BY <2>2, <3>1, <3>3, <3>4 DEF TruthInv, Truth, Truthful
  <2>3. ASSUME NEW x \in run.todo, Goto("copy", run.todo \ {x}),
               dir' = [dir EXCEPT ![run.f][x] = run.v]
        PROVE  TruthInv'
    <3>1. x \in Files /\ run.todo \ {x} \subseteq Files
      BY <2>1 DEF Run
    <3>2. run'.pc = "copy" /\ run'.f = run.f /\ run'.v = run.v /\ run'.todo = run.todo \ {x}
      BY <2>1, <2>3, <3>1, Gone
    <3>3. /\ \A f \in Names \ {run.f} : dir'[f] = dir[f]
          /\ dir'[run.f] = [dir[run.f] EXCEPT ![x] = run.v]
      BY <2>1, <2>3
    <3>4. \A y \in Shipped[run.v] \ (run.todo \ {x}) : dir'[run.f][y] = run.v
      BY <2>1, <3>1, <3>3, Basics DEF TruthInv, Truth, Contents
    <3>5. TruthfulManifests'
      BY <2>1, <3>2, <3>3, TrueOthers DEF TruthInv
    <3> QED
      BY <3>2, <3>4, <3>5 DEF TruthInv, Truth
  <2> QED
    BY <1>6, <2>1, <2>2, <2>3 DEF CopyFile
<1>7. CASE KeepBackup \/ CleanBackup
  <2>1. /\ run.pc \in {"keep", "clean"} /\ run.pc # "idle" /\ UNCHANGED <<dir, torn>>
        /\ run \in Run /\ run.f \in Names
    BY <1>7, Running DEF KeepBackup, CleanBackup
  <2>2. run'.pc \in {"done", "clean"} /\ run'.f = run.f
    BY <1>7, <2>1 DEF KeepBackup, CleanBackup, Goto, Run
  <2>3. TruthfulManifests'
    BY <2>1, <2>2, TrueOthers DEF TruthInv
  <2> QED
    BY <2>1, <2>2, <2>3 DEF TruthInv, Truth, Truthful
<1>8. CASE RemoveFile
  <2>1. /\ run.pc = "rm" /\ run.pc # "idle" /\ torn' = torn /\ run \in Run /\ run.f \in Names
        /\ dir \in [Names -> {None} \cup Contents]
    BY <1>8, Running DEF RemoveFile
  <2>2. /\ run'.pc \in {"rm", "done"} /\ run'.f = run.f
        /\ run'.pc = "done" => dir'[run.f] = None
        /\ \A f \in Names \ {run.f} : dir'[f] = dir[f]
    BY <1>8, <2>1 DEF RemoveFile, Goto, Run
  <2>3. TruthfulManifests'
    BY <2>1, <2>2, TrueOthers DEF TruthInv
  <2> QED
    BY <2>1, <2>2, <2>3 DEF TruthInv, Truth
<1>9. CASE Done
  BY <1>9, TrueEnd DEF Done, TruthInv, Truth
<1>10. CASE Kill
  <2>1. /\ run.pc # "idle" /\ run' = Idle /\ UNCHANGED dir /\ run \in Run
        /\ torn' = (IF run.pc \in {"copy", "rm", "undo", "unremove", "restore"}
                    THEN torn \cup {run.f} ELSE torn)
    BY <1>10, Running DEF Kill
  <2>2. run.f \in torn' \/ dir[run.f] = None \/ Truthful(run.f)
    BY <2>1 DEF Run, TruthInv, Truth
  <2> QED
    BY <2>1, <2>2, TrueEnd
<1>11. CASE Fail
  <2>1. /\ run.pc \in {"mkdir", "backup", "copy", "clean", "rm"} /\ run.pc # "idle"
        /\ UNCHANGED dir /\ Goto("catch", {}) /\ run \in Run /\ run.f \in Names
        /\ torn' = (IF run.pc \in {"copy", "clean", "rm"} THEN torn \cup {run.f} ELSE torn)
    BY <1>11, Running DEF Fail
  <2>2. run'.pc = "catch" /\ run'.f = run.f /\ run'.undo = run.undo
    BY <2>1, Gone
  <2>3. run.pc \in {"mkdir", "backup"} => run.undo = <<>>
    BY DEF TypeInv, RunOK
  <2>4. TruthfulManifests'
    BY <2>1, <2>2, TrueOthers DEF TruthInv
  <2> QED
    BY <2>1, <2>2, <2>3, <2>4 DEF TruthInv, Truth, Truthful
<1>12. CASE Catch
  <2>1. run.pc = "catch" /\ run.pc # "idle" /\ UNCHANGED <<dir, torn>> /\ run.f \in Names
    BY <1>12, Running DEF Catch
  <2>2. CASE run' = Idle
    BY <2>1, <2>2, TrueEnd DEF TruthInv, Truth
  <2>3. CASE Goto("undo", {})
    <3>1. run'.pc = "undo" /\ run'.f = run.f /\ run'.undo = run.undo
      BY <2>1, <2>3, Gone
    <3>2. TruthfulManifests'
      BY <2>1, <3>1, TrueOthers DEF TruthInv
    <3> QED
      BY <2>1, <3>1, <3>2 DEF TruthInv, Truth, Truthful
  <2> QED
    BY <1>12, <2>2, <2>3 DEF Catch
<1>13. CASE UndoNext
  <2>1. run.pc = "undo" /\ run.pc # "idle" /\ torn' = torn /\ run \in Run /\ run.f \in Names
        /\ dir \in [Names -> {None} \cup Contents]
    BY <1>13, Running DEF UndoNext
  <2>2. CASE run.undo = <<>>
    <3>1. run' = Idle /\ dir' = dir
      BY <1>13, <2>2 DEF UndoNext
    <3> QED
      BY <2>1, <3>1, TrueEnd DEF TruthInv, Truth
  <2>3. CASE run.undo # <<>>
    <3>1. /\ run'.pc \in {"unremove", "restore"} /\ run'.f = run.f
          /\ \A f \in Names \ {run.f} : dir'[f] = dir[f]
      BY <1>13, <2>1, <2>3 DEF UndoNext, Run
    <3>2. TruthfulManifests'
      BY <2>1, <3>1, TrueOthers DEF TruthInv
    <3> QED
      BY <2>1, <2>3, <3>1, <3>2 DEF TruthInv, Truth
  <2> QED
    BY <2>2, <2>3
<1>14. CASE UndoRemove \/ UndoRestore \/ UndoFail
  <2>1. run.pc \in {"unremove", "restore"} /\ run.pc # "idle" /\ torn' = torn
        /\ run \in Run /\ run.f \in Names /\ dir \in [Names -> {None} \cup Contents]
    BY <1>14, Running DEF UndoRemove, UndoRestore, UndoFail
  <2>2. run'.pc \in {"unremove", "restore", "undo"} /\ run'.f = run.f
    BY <1>14, <2>1 DEF UndoRemove, UndoRestore, UndoFail, Goto, Run
  <2>3. \A f \in Names \ {run.f} : dir'[f] = dir[f]
    BY <1>14, <2>1 DEF UndoRemove, UndoRestore, UndoFail
  <2>4. TruthfulManifests'
    BY <2>1, <2>2, <2>3, TrueOthers DEF TruthInv
  <2> QED
    BY <2>1, <2>2, <2>4 DEF TruthInv, Truth
<1> QED
  BY <1>1, <1>2, <1>3, <1>4, <1>5, <1>6, <1>7, <1>8, <1>9, <1>10, <1>11, <1>12, <1>13, <1>14
  DEF Next

\* Unless an interrupted run left it torn, a feature that no run works on holds
\* every file of the version that its manifest says.
THEOREM ManifestsTellTruth == Spec => []TruthfulManifests
<1>1. TruthInv => TruthfulManifests
  BY DEF TruthInv
<1> QED
  BY <1>1, TypeInit, TypeNext, TrueInit, TruthNext, PTL DEF Spec
=============================================================================
