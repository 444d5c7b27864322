--------------------------- MODULE Webboot_proofs ---------------------------
(***************************************************************************)
(* Proofs about the main loop.  The safety properties of Webboot do not    *)
(* carry themselves: whether an image was vetted depends on what the       *)
(* locals of one exec() hold at the earlier places of main().  Shape says  *)
(* that, and Inv, the properties together with Shape, is inductive.        *)
(***************************************************************************)
EXTENDS Webboot, TLAPS

\* Which locals are set at which place.
Shape ==
    /\ pc \in {"MainMenu", "ReadDir", "Browse", "Probe", "Network", "FetchTable", "DistroMenu"} =>
           label = NoDistro
    /\ pc = "EnterURL" => label = Other
    /\ pc \in {"EnterURL", "MirrorMenu", "Request", "Body", "Saving", "Check", "Confirm"} =>
           label # NoDistro
    /\ pc \in {"Request", "Body", "Saving", "Check", "Confirm"} \cup InExec => iso \in Isos
    /\ pc = "Saving" => temp \in Images
    /\ pc \in InExec => files[iso] # "none"

Safe == Vetted /\ DownloadComplete /\ LabelsAreKeys /\ InsideCache /\ ParamsOfThisIso

Inv == TypeOK /\ Shape /\ Safe

-----------------------------------------------------------------------------
(* Facts about the constants and about the frames of the actions.          *)

\* What a start may have found as cache directory.
LEMMA ConfType == \A c \in Confs : c.cacheDir \in {Root, NoDir}
  BY ConfAssumption

\* Both places a download may go to are places of ISO files.
LEMMA TargetType == \A n \in Names : Target(n) \in Isos
  BY DirAssumption DEF Target, Isos, Places

\* An image is neither a part of one nor its absence.
LEMMA ImageIsWhole == "none" \notin Images /\ "part" \notin Images
  BY DataAssumption DEF Images

\* A label found in the table is not one of the two that stand for none.
LEMMA KeysAreLabels == \A d \in Distros : d # Other /\ d # NoDistro
  BY DataAssumption

\* The rendered parameters are a record of the type LocalsOK asks for.
LEMMA ParamsType ==
    \A i \in Isos \cup {NoIso}, m \in BOOLEAN :
        [iso |-> i, mangled |-> m] \in [iso : Isos \cup {NoIso}, mangled : BOOLEAN]
  OBVIOUS

\* A finished exec() leaves its locals well typed ...
LEMMA IdleLocals == Idle => LocalsOK'
  <1>1. NoParams \in [iso : Isos \cup {NoIso}, mangled : BOOLEAN]
    BY DEF NoParams
  <1>2. QED
    BY <1>1 DEF Idle, LocalsOK

\* ... as does a step that does not touch them,
LEMMA KeptLocals == LocalsOK /\ UNCHANGED locals => LocalsOK'
  BY DEF LocalsOK, locals

\* and the frame Same keeps the type of the globals.
LEMMA SameGlobals == GlobalsOK /\ Same => GlobalsOK'
  BY DEF Same, GlobalsOK, disk

-----------------------------------------------------------------------------
(* Type correctness.  It needs Inv: what ChooseIso and BackFromDir make    *)
(* of dir is well typed because the browser is inside the cache.           *)

\* Every step of main() keeps the types.
LEMMA TypeStep == Inv /\ [Next]_vars => TypeOK'
  <1> SUFFICES ASSUME Inv, PlaceOK, GlobalsOK, LocalsOK, [Next]_vars PROVE TypeOK'
    BY DEF Inv, TypeOK
  <1>1. CASE Start
    <2>1. PlaceOK'
      BY <1>1 DEF Start, PlaceOK, Prompts, Menus, Work, Ended, Go
    <2>2. GlobalsOK'
      BY <1>1 DEF Start, GlobalsOK, disk, Die
    <2>3. LocalsOK'
      BY <1>1, IdleLocals DEF Start, Die
    <2>4. QED
      BY <2>1, <2>2, <2>3 DEF TypeOK
  <1>2. CASE PowerLoss
    <2>1. PlaceOK'
      BY <1>2 DEF PowerLoss, PlaceOK, Prompts, Menus, Work, Ended, Go
    <2>2. files' \in [Isos -> Content]
      <3>0. PICK lost \in SUBSET unsynced : \E left \in [lost -> {"none", "part"}] :
              files' = [f \in Isos |-> IF f[1] = Tmp THEN "none"
                                       ELSE IF f \in lost THEN left[f] ELSE files[f]]
        BY <1>2 DEF PowerLoss
      <3>1. PICK left \in [lost -> {"none", "part"}] :
              files' = [f \in Isos |-> IF f[1] = Tmp THEN "none"
                                       ELSE IF f \in lost THEN left[f] ELSE files[f]]
        BY <3>0
      <3>2. \A f \in Isos : files[f] \in Content
        BY DEF GlobalsOK
      <3>3. \A f \in lost : left[f] \in Content
        BY DEF Content
      <3>4. "none" \in Content
        BY DEF Content
      <3>5. QED
        BY <3>1, <3>2, <3>3, <3>4
    <2>5. GlobalsOK'
      BY <1>2, <2>2 DEF PowerLoss, GlobalsOK, Die, LocalsOK
    <2>3. LocalsOK'
      BY <1>2, IdleLocals DEF PowerLoss, Die
    <2>4. QED
      BY <2>1, <2>5, <2>3 DEF TypeOK
  <1>3. CASE LogFatal
    <2>1. PlaceOK'
      BY <1>3 DEF LogFatal, PlaceOK, Prompts, Menus, Work, Ended, Go
    <2>2. GlobalsOK'
      BY <1>3 DEF LogFatal, GlobalsOK, disk, Die
    <2>3. LocalsOK'
      BY <1>3, IdleLocals DEF LogFatal, Die
    <2>4. QED
      BY <2>1, <2>2, <2>3 DEF TypeOK
  <1>4. CASE ChooseCache
    <2>1. PlaceOK'
      BY <1>4 DEF ChooseCache, PlaceOK, Prompts, Menus, Work, Ended, Go
    <2>2. GlobalsOK'
      BY <1>4, SameGlobals DEF ChooseCache
    <2>3. LocalsOK'
      BY <1>4, ConfType, DirAssumption DEF ChooseCache, LocalsOK, GlobalsOK
    <2>4. QED
      BY <2>1, <2>2, <2>3 DEF TypeOK
  <1>5. CASE ChooseDownload
    <2>1. PlaceOK'
      BY <1>5 DEF ChooseDownload, PlaceOK, Prompts, Menus, Work, Ended, Go
    <2>2. GlobalsOK'
      BY <1>5, SameGlobals DEF ChooseDownload
    <2>3. LocalsOK'
      BY <1>5, KeptLocals DEF ChooseDownload
    <2>4. QED
      BY <2>1, <2>2, <2>3 DEF TypeOK
  <1>6. CASE ChooseLog
    <2>1. PlaceOK'
      BY <1>6 DEF ChooseLog, PlaceOK, Prompts, Menus, Work, Ended, Go, ToResult
    <2>2. GlobalsOK'
      BY <1>6, SameGlobals DEF ChooseLog
    <2>3. LocalsOK'
      BY <1>6, IdleLocals DEF ChooseLog, ToResult
    <2>4. QED
      BY <2>1, <2>2, <2>3 DEF TypeOK
  <1>7. CASE QuitMainMenu
    <2>1. PlaceOK'
      BY <1>7 DEF QuitMainMenu, PlaceOK, Prompts, Menus, Work, Ended, Go
    <2>2. GlobalsOK'
      BY <1>7 DEF QuitMainMenu, GlobalsOK, disk, Die
    <2>3. LocalsOK'
      BY <1>7, IdleLocals DEF QuitMainMenu, Die
    <2>4. QED
      BY <2>1, <2>2, <2>3 DEF TypeOK
  <1>8. CASE LeaveResult
    <2>1. PlaceOK'
      BY <1>8 DEF LeaveResult, PlaceOK, Prompts, Menus, Work, Ended, Go, ToMenu
    <2>2. GlobalsOK'
      BY <1>8 DEF LeaveResult, GlobalsOK, disk
    <2>3. LocalsOK'
      BY <1>8, IdleLocals DEF LeaveResult, ToMenu
    <2>4. QED
      BY <2>1, <2>2, <2>3 DEF TypeOK
  <1>9. CASE Quit
    <2>1. PlaceOK'
      BY <1>9 DEF Quit, PlaceOK, Prompts, Menus, Work, Ended, Go
    <2>2. GlobalsOK'
      BY <1>9 DEF Quit, GlobalsOK, disk, Die
    <2>3. LocalsOK'
      BY <1>9, IdleLocals DEF Quit, Die
    <2>4. QED
      BY <2>1, <2>2, <2>3 DEF TypeOK
  <1>10. CASE Probe
    <2>1. PlaceOK'
      BY <1>10 DEF Probe, PlaceOK, Prompts, Menus, Work, Ended, Go
    <2>2. GlobalsOK'
      BY <1>10, SameGlobals DEF Probe
    <2>3. LocalsOK'
      BY <1>10, KeptLocals DEF Probe
    <2>4. QED
      BY <2>1, <2>2, <2>3 DEF TypeOK
  <1>11. CASE SetupNetwork
    <2>1. PlaceOK'
      BY <1>11 DEF SetupNetwork, PlaceOK, Prompts, Menus, Work, Ended, Go
    <2>2. GlobalsOK'
      BY <1>11 DEF SetupNetwork, GlobalsOK, disk
    <2>3. LocalsOK'
      BY <1>11, KeptLocals DEF SetupNetwork
    <2>4. QED
      BY <2>1, <2>2, <2>3 DEF TypeOK
  <1>12. CASE FetchTable
    <2>1. PlaceOK'
      BY <1>12 DEF FetchTable, PlaceOK, Prompts, Menus, Work, Ended, Go
    <2>2. GlobalsOK'
      BY <1>12 DEF FetchTable, GlobalsOK, disk
    <2>3. LocalsOK'
      BY <1>12, KeptLocals DEF FetchTable
    <2>4. QED
      BY <2>1, <2>2, <2>3 DEF TypeOK
  <1>13. CASE ChooseDistro
    <2>1. PlaceOK'
      BY <1>13 DEF ChooseDistro, PlaceOK, Prompts, Menus, Work, Ended, Go, ToResult
    <2>2. GlobalsOK'
      BY <1>13, SameGlobals DEF ChooseDistro
    <2>3. LocalsOK'
      BY <1>13, IdleLocals DEF ChooseDistro, ToResult, LocalsOK, GlobalsOK
    <2>4. QED
      BY <2>1, <2>2, <2>3 DEF TypeOK
  <1>14. CASE ChooseOther
    <2>1. PlaceOK'
      BY <1>14 DEF ChooseOther, PlaceOK, Prompts, Menus, Work, Ended, Go
    <2>2. GlobalsOK'
      BY <1>14, SameGlobals DEF ChooseOther
    <2>3. LocalsOK'
      BY <1>14 DEF ChooseOther, LocalsOK
    <2>4. QED
      BY <2>1, <2>2, <2>3 DEF TypeOK
  <1>15. CASE ChooseLink
    <2>1. PlaceOK'
      BY <1>15 DEF ChooseLink, PlaceOK, Prompts, Menus, Work, Ended, Go, ToResult
    <2>2. GlobalsOK'
      BY <1>15, SameGlobals DEF ChooseLink
    <2>3. LocalsOK'
      BY <1>15, IdleLocals, TargetType DEF ChooseLink, ToResult, LocalsOK
    <2>4. QED
      BY <2>1, <2>2, <2>3 DEF TypeOK
  <1>16. CASE BackFromDownload
    <2>1. PlaceOK'
      BY <1>16 DEF BackFromDownload, PlaceOK, Prompts, Menus, Work, Ended, Go, ToMenu
    <2>2. GlobalsOK'
      BY <1>16, SameGlobals DEF BackFromDownload
    <2>3. LocalsOK'
      BY <1>16, IdleLocals DEF BackFromDownload, ToMenu
    <2>4. QED
      BY <2>1, <2>2, <2>3 DEF TypeOK
  <1>17. CASE Request
    <2>1. PlaceOK'
      BY <1>17 DEF Request, PlaceOK, Prompts, Menus, Work, Ended, Go, ToResult
    <2>2. GlobalsOK'
      BY <1>17, SameGlobals DEF Request
    <2>3. LocalsOK'
      BY <1>17, IdleLocals, KeptLocals DEF Request, ToResult
    <2>4. QED
      BY <2>1, <2>2, <2>3 DEF TypeOK
  <1>18. CASE Body
    <2>1. PlaceOK'
      BY <1>18 DEF Body, PlaceOK, Prompts, Menus, Work, Ended, Go, ToResult
    <2>2. GlobalsOK'
      <3>1. iso \in Isos
        BY <1>18 DEF Body, Inv, Shape
      <3>2. unsynced' \subseteq Isos
        BY <1>18, <3>1 DEF Body, GlobalsOK, disk
      <3>3. files' \in [Isos -> Content]
        BY <1>18 DEF Body, GlobalsOK, Content, disk
      <3>4. QED
        BY <1>18, <3>2, <3>3 DEF Body, GlobalsOK
    <2>3. LocalsOK'
      BY <1>18, IdleLocals DEF Body, ToResult, LocalsOK, GlobalsOK
    <2>4. QED
      BY <2>1, <2>2, <2>3 DEF TypeOK
  <1>19. CASE Saved
    <2>1. PlaceOK'
      BY <1>19 DEF Saved, PlaceOK, Prompts, Menus, Work, Ended, Go
    <2>2. GlobalsOK'
      BY <1>19 DEF Saved, GlobalsOK, LocalsOK, Content
    <2>3. LocalsOK'
      BY <1>19 DEF Saved, LocalsOK, GlobalsOK
    <2>4. QED
      BY <2>1, <2>2, <2>3 DEF TypeOK
  <1>20. CASE SaveFailed
    <2>1. PlaceOK'
      BY <1>20 DEF SaveFailed, PlaceOK, Prompts, Menus, Work, Ended, Go, ToResult
    <2>2. GlobalsOK'
      BY <1>20 DEF SaveFailed, GlobalsOK, LocalsOK, Content
    <2>3. LocalsOK'
      BY <1>20, IdleLocals DEF SaveFailed, ToResult
    <2>4. QED
      BY <2>1, <2>2, <2>3 DEF TypeOK
  <1>21. CASE Check
    <2>1. PlaceOK'
      BY <1>21 DEF Check, PlaceOK, Prompts, Menus, Work, Ended, Go, ToResult
    <2>2. GlobalsOK'
      BY <1>21, SameGlobals DEF Check
    <2>3. LocalsOK'
      BY <1>21, IdleLocals, KeptLocals DEF Check, ToResult
    <2>4. QED
      BY <2>1, <2>2, <2>3 DEF TypeOK
  <1>22. CASE Accept
    <2>1. PlaceOK'
      BY <1>22 DEF Accept, PlaceOK, Prompts, Menus, Work, Ended, Go
    <2>2. GlobalsOK'
      BY <1>22, SameGlobals DEF Accept
    <2>3. LocalsOK'
      BY <1>22 DEF Accept, LocalsOK
    <2>4. QED
      BY <2>1, <2>2, <2>3 DEF TypeOK
  <1>23. CASE Decline
    <2>1. PlaceOK'
      BY <1>23 DEF Decline, PlaceOK, Prompts, Menus, Work, Ended, Go
    <2>2. GlobalsOK'
      BY <1>23, SameGlobals DEF Decline
    <2>3. LocalsOK'
      BY <1>23, IdleLocals DEF Decline
    <2>4. QED
      BY <2>1, <2>2, <2>3 DEF TypeOK
  <1>24. CASE LeaveConfirm
    <2>1. PlaceOK'
      BY <1>24 DEF LeaveConfirm, PlaceOK, Prompts, Menus, Work, Ended, Go, ToResult
    <2>2. GlobalsOK'
      BY <1>24 DEF LeaveConfirm, GlobalsOK, disk
    <2>3. LocalsOK'
      BY <1>24, IdleLocals DEF LeaveConfirm, ToResult
    <2>4. QED
      BY <2>1, <2>2, <2>3 DEF TypeOK
  <1>25. CASE ReadDir
    <2>1. PlaceOK'
      BY <1>25 DEF ReadDir, PlaceOK, Prompts, Menus, Work, Ended, Go, ToResult
    <2>2. GlobalsOK'
      BY <1>25, SameGlobals DEF ReadDir
    <2>3. LocalsOK'
      BY <1>25, IdleLocals, KeptLocals DEF ReadDir, ToResult
    <2>4. QED
      BY <2>1, <2>2, <2>3 DEF TypeOK
  <1>26. CASE ChooseSubdir
    <2>1. PlaceOK'
      BY <1>26 DEF ChooseSubdir, PlaceOK, Prompts, Menus, Work, Ended, Go
    <2>2. GlobalsOK'
      BY <1>26, SameGlobals DEF ChooseSubdir
    <2>3. LocalsOK'
      BY <1>26 DEF ChooseSubdir, Subs, LocalsOK
    <2>4. QED
      BY <2>1, <2>2, <2>3 DEF TypeOK
  <1>27. CASE ChooseIso
    <2>1. PlaceOK'
      BY <1>27 DEF ChooseIso, PlaceOK, Prompts, Menus, Work, Ended, Go
    <2>2. GlobalsOK'
      BY <1>27, SameGlobals DEF ChooseIso
    <2>3. LocalsOK'
      <3>1. dir \in Dirs
        BY <1>27, DirAssumption DEF ChooseIso, Inv, Safe, InsideCache
      <3>2. iso' \in Isos
        BY <1>27, <3>1 DEF ChooseIso, Here, Isos, Places
      <3>3. QED
        BY <1>27, <3>2 DEF ChooseIso, LocalsOK
    <2>4. QED
      BY <2>1, <2>2, <2>3 DEF TypeOK
  <1>28. CASE BackFromDir
    <2>1. PlaceOK'
      BY <1>28 DEF BackFromDir, PlaceOK, Prompts, Menus, Work, Ended, Go, ToMenu
    <2>2. GlobalsOK'
      BY <1>28, SameGlobals DEF BackFromDir
    <2>3. LocalsOK'
      <3>1. Parent[dir] \in Dirs
        BY <1>28, DirAssumption DEF BackFromDir, Inv, Safe, InsideCache
      <3>2. QED
        BY <1>28, <3>1, IdleLocals DEF BackFromDir, ToMenu, LocalsOK
    <2>4. QED
      BY <2>1, <2>2, <2>3 DEF TypeOK
  <1>29. CASE InferType
    <2>1. PlaceOK'
      BY <1>29 DEF InferType, Matching, PlaceOK, Prompts, Menus, Work, Ended, Go, ToResult
    <2>2. GlobalsOK'
      BY <1>29, SameGlobals DEF InferType
    <2>3. LocalsOK'
      BY <1>29, IdleLocals, KeptLocals DEF InferType, Matching, ToResult, LocalsOK, GlobalsOK
    <2>4. QED
      BY <2>1, <2>2, <2>3 DEF TypeOK
  <1>30. CASE ChooseType
    <2>1. PlaceOK'
      BY <1>30 DEF ChooseType, PlaceOK, Prompts, Menus, Work, Ended, Go
    <2>2. GlobalsOK'
      BY <1>30, SameGlobals DEF ChooseType
    <2>3. LocalsOK'
      BY <1>30 DEF ChooseType, LocalsOK, GlobalsOK
    <2>4. QED
      BY <2>1, <2>2, <2>3 DEF TypeOK
  <1>31. CASE Load
    <2>1. PlaceOK'
      BY <1>31 DEF Load, PlaceOK, Prompts, Menus, Work, Ended, Go, ToResult
    <2>2. GlobalsOK'
      BY <1>31, SameGlobals DEF Load
    <2>3. LocalsOK'
      BY <1>31, IdleLocals, KeptLocals DEF Load, ToResult
    <2>4. QED
      BY <2>1, <2>2, <2>3 DEF TypeOK
  <1>32. CASE ChooseConfig
    <2>1. PlaceOK'
      BY <1>32 DEF ChooseConfig, PlaceOK, Prompts, Menus, Work, Ended, Go, ToResult
    <2>2. GlobalsOK'
      BY <1>32 DEF ChooseConfig, GlobalsOK, LocalsOK, disk
    <2>3. LocalsOK'
      <3>1. CASE ToResult
        BY <3>1, IdleLocals DEF ToResult
      <3>2. CASE ~ToResult
        <4>1. params' = [iso |-> isoPath', mangled |-> isoPath' \in Special]
          BY <1>32, <3>2 DEF ChooseConfig
        <4>2. isoPath' \in Isos \cup {NoIso} /\ (isoPath' \in Special) \in BOOLEAN
          BY <1>32 DEF ChooseConfig, LocalsOK
        <4>3. params' \in [iso : Isos \cup {NoIso}, mangled : BOOLEAN]
          BY <4>1, <4>2, ParamsType
        <4>4. QED
          BY <1>32, <3>2, <4>3 DEF ChooseConfig, LocalsOK
      <3>3. QED
        BY <3>1, <3>2
    <2>4. QED
      BY <2>1, <2>2, <2>3 DEF TypeOK
  <1>33. CASE BackFromIso
    <2>1. PlaceOK'
      BY <1>33 DEF BackFromIso, PlaceOK, Prompts, Menus, Work, Ended, Go, ToMenu
    <2>2. GlobalsOK'
      BY <1>33, SameGlobals DEF BackFromIso
    <2>3. LocalsOK'
      BY <1>33, IdleLocals DEF BackFromIso, ToMenu
    <2>4. QED
      BY <2>1, <2>2, <2>3 DEF TypeOK
  <1>34. CASE Boot
    <2>1. PlaceOK'
      BY <1>34 DEF Boot, PlaceOK, Prompts, Menus, Work, Ended, Go, ToResult
    <2>2. GlobalsOK'
      BY <1>34, SameGlobals DEF Boot
    <2>3. LocalsOK'
      BY <1>34, IdleLocals, KeptLocals DEF Boot, ToResult
    <2>4. QED
      BY <2>1, <2>2, <2>3 DEF TypeOK
  <1>35. CASE UNCHANGED vars
    BY <1>35 DEF vars, disk, locals, TypeOK, PlaceOK, GlobalsOK, LocalsOK
  <1>36. QED
    BY <1>1, <1>2, <1>3, <1>4, <1>5, <1>6, <1>7, <1>8, <1>9, <1>10, <1>11, <1>12, <1>13, <1>14, <1>15, <1>16, <1>17, <1>18, <1>19, <1>20, <1>21, <1>22, <1>23, <1>24, <1>25, <1>26, <1>27, <1>28, <1>29, <1>30, <1>31, <1>32, <1>33, <1>34, <1>35
    DEF Next, User, Back, Program

-----------------------------------------------------------------------------
(* Safety.                                                                 *)

\* Every step of main() keeps Shape and the five properties.
LEMMA SafeStep == Inv /\ [Next]_vars => Shape' /\ Safe'
  <1> SUFFICES ASSUME TypeOK, Shape, Safe, [Next]_vars PROVE Shape' /\ Safe'
    BY DEF Inv
  <1> USE DEF Go, Shape, Safe, Vetted, DownloadComplete, LabelsAreKeys, InsideCache,
              ParamsOfThisIso, InExec
  <1>1. CASE Start
    BY <1>1 DEF Start, Die, Idle
  <1>2. CASE PowerLoss
    BY <1>2 DEF PowerLoss, Die, Idle
  <1>3. CASE LogFatal
    BY <1>3 DEF LogFatal, Die, Idle
  <1>4. CASE ChooseCache
    BY <1>4, ConfType, DirAssumption DEF ChooseCache, Same, TypeOK, GlobalsOK
  <1>5. CASE ChooseDownload
    BY <1>5 DEF ChooseDownload, Same, locals
  <1>6. CASE ChooseLog
    BY <1>6 DEF ChooseLog, ToResult, Same, Idle
  <1>7. CASE QuitMainMenu
    BY <1>7 DEF QuitMainMenu, Die, Idle
  <1>8. CASE LeaveResult
    BY <1>8 DEF LeaveResult, ToMenu, Same, Idle
  <1>9. CASE Quit
    BY <1>9 DEF Quit, Die, Idle
  <1>10. CASE Probe
    BY <1>10 DEF Probe, Same, locals
  <1>11. CASE SetupNetwork
    BY <1>11 DEF SetupNetwork, locals
  <1>12. CASE FetchTable
    BY <1>12 DEF FetchTable, locals
  <1>13. CASE ChooseDistro
    BY <1>13, KeysAreLabels DEF ChooseDistro, ToResult, Same, Idle, TypeOK, GlobalsOK
  <1>14. CASE ChooseOther
    BY <1>14, DataAssumption DEF ChooseOther, Same
  <1>15. CASE ChooseLink
    BY <1>15, TargetType DEF ChooseLink, ToResult, Same, Idle
  <1>16. CASE BackFromDownload
    BY <1>16 DEF BackFromDownload, ToMenu, Same, Idle
  <1>17. CASE Request
    BY <1>17 DEF Request, ToResult, Same, Idle, locals
  <1>18. CASE Body
    <2>1. CASE ToResult
      BY <1>18, <2>1 DEF ToResult, Idle
    <2>2. CASE pc' = "Saving"
      <3>1. files'[iso] = "part" /\ iso \in Isos
        BY <1>18, <2>2 DEF Body, ToResult, TypeOK, GlobalsOK
      <3>2. QED
        BY <1>18, <2>2, <3>1 DEF Body, ToResult
    <2>3. QED
      BY <1>18, <2>1, <2>2 DEF Body
  <1>19. CASE Saved
    <2>1. files'[iso] = temp /\ iso \in Isos /\ temp \in Images
      BY <1>19 DEF Saved, TypeOK, GlobalsOK
    <2>2. QED
      BY <1>19, <2>1, ImageIsWhole DEF Saved
  <1>20. CASE SaveFailed
    BY <1>20 DEF SaveFailed, ToResult, Idle
  <1>21. CASE Check
    BY <1>21, ImageIsWhole, KeysAreLabels DEF Check, Valid, ToResult, Same, disk, Idle, locals
  <1>22. CASE Accept
    BY <1>22, ImageIsWhole DEF Accept, Same, disk
  <1>23. CASE Decline
    BY <1>23 DEF Decline, Same, Idle
  <1>24. CASE LeaveConfirm
    BY <1>24 DEF LeaveConfirm, ToResult, Idle
  <1>25. CASE ReadDir
    BY <1>25 DEF ReadDir, ToResult, Same, Here, Subs, Idle, locals
  <1>26. CASE ChooseSubdir
    BY <1>26, DirAssumption DEF ChooseSubdir, Same, Subs
  <1>27. CASE ChooseIso
    <2>1. dir \in Dirs
      BY <1>27, DirAssumption DEF ChooseIso
    <2>2. iso' \in Isos /\ files'[iso'] # "none"
      BY <1>27, <2>1 DEF ChooseIso, Here, Isos, Places, Same, disk
    <2>3. label' \notin Distros
      BY <1>27, DataAssumption DEF ChooseIso
    <2>4. QED
      BY <1>27, <2>2, <2>3 DEF ChooseIso
  <1>28. CASE BackFromDir
    BY <1>28, DirAssumption DEF BackFromDir, ToMenu, Same, Idle
  <1>29. CASE InferType
    BY <1>29 DEF InferType, Matching, ToResult, Same, disk, Idle, locals
  <1>30. CASE ChooseType
    BY <1>30 DEF ChooseType, Same, disk
  <1>31. CASE Load
    BY <1>31 DEF Load, ToResult, Same, disk, Idle, locals
  <1>32. CASE ChooseConfig
    BY <1>32 DEF ChooseConfig, ToResult, Idle, disk
  <1>33. CASE BackFromIso
    BY <1>33 DEF BackFromIso, ToMenu, Same, Idle
  <1>34. CASE Boot
    BY <1>34 DEF Boot, ToResult, Same, disk, Idle, locals
  <1>35. CASE UNCHANGED vars
    BY <1>35 DEF vars, disk, locals
  <1>36. QED
    BY <1>1, <1>2, <1>3, <1>4, <1>5, <1>6, <1>7, <1>8, <1>9, <1>10, <1>11, <1>12, <1>13, <1>14, <1>15, <1>16, <1>17, <1>18, <1>19, <1>20, <1>21, <1>22, <1>23, <1>24, <1>25, <1>26, <1>27, <1>28, <1>29, <1>30, <1>31, <1>32, <1>33, <1>34, <1>35
    DEF Next, User, Back, Program

\* The first start finds the cache as it was filled by other means.
LEMMA InvInit == Init => Inv
  <1> SUFFICES ASSUME Init PROVE Inv
    OBVIOUS
  <1>1. PlaceOK
    BY DEF Init, PlaceOK, Ended
  <1>2. GlobalsOK
    BY DEF Init, GlobalsOK, Content, Images
  <1>3. LocalsOK
    BY ParamsType DEF Init, LocalsOK, NoParams
  <1>4. Shape /\ Safe
    BY DEF Init, Shape, Safe, Vetted, DownloadComplete, LabelsAreKeys, InsideCache,
           ParamsOfThisIso, InExec
  <1>5. QED
    BY <1>1, <1>2, <1>3, <1>4 DEF Inv, TypeOK

-----------------------------------------------------------------------------
\* Inv holds in every reachable state, for any tables, caches and flags.
THEOREM Invariance == Spec => []Inv
  <1>1. Inv /\ [Next]_vars => Inv'
    BY TypeStep, SafeStep DEF Inv
  <1>2. QED
    BY InvInit, <1>1, PTL DEF Spec

\* The variables of main() and the contents of the cache stay in their types.
THEOREM TypeCorrect == Spec => []TypeOK
  <1>1. Inv => TypeOK
    BY DEF Inv
  <1>2. QED
    BY Invariance, <1>1, PTL

\* No image from the "Linux Distros" menu is executed unless its checksum
\* matched or the user insisted.
THEOREM OnlyVettedImagesRun == Spec => []Vetted
  <1>1. Inv => Vetted
    BY DEF Inv, Safe
  <1>2. QED
    BY Invariance, <1>1, PTL

\* No failure, cancelling or clean-up of a download hands on part of a file.
THEOREM OnlyWholeDownloadsRun == Spec => []DownloadComplete
  <1>1. Inv => DownloadComplete
    BY DEF Inv, Safe
  <1>2. QED
    BY Invariance, <1>1, PTL

\* A label is looked up only while it is a key of the table.
THEOREM LookupsSucceed == Spec => []LabelsAreKeys
  <1>1. Inv => LabelsAreKeys
    BY DEF Inv, Safe
  <1>2. QED
    BY Invariance, <1>1, PTL

\* The browser never leaves the cache, whatever the tree of directories is.
THEOREM BrowserStaysInside == Spec => []InsideCache
  <1>1. Inv => InsideCache
    BY DEF Inv, Safe
  <1>2. QED
    BY Invariance, <1>1, PTL

\* The parameters at the jump are those of the image that was loaded.
THEOREM ParamsMatch == Spec => []ParamsOfThisIso
  <1>1. Inv => ParamsOfThisIso
    BY DEF Inv, Safe
  <1>2. QED
    BY Invariance, <1>1, PTL

-----------------------------------------------------------------------------
(* How far the statements that the code does not keep are off.             *)

\* The three places where a typed <Ctrl+d> is dropped: main() only logs what
\* setupNetwork returns, displayChecksumPrompt wraps it in another error, and
\* nobody looks at what DisplayResult returns.
Drops == exitAsked' /\ (SetupNetwork \/ LeaveConfirm \/ LeaveResult)

\* "User requested to exit the program" is kept by all the other prompts: as
\* long as none of these three drops it, <Ctrl+d> ends the program.
THEOREM ExitHonouredElsewhere == Spec /\ [][~Drops]_vars => []ExitHonoured
  <1>1. Init => ExitHonoured
    BY DEF Init, ExitHonoured
  <1>2. ExitHonoured /\ [Next]_vars /\ [~Drops]_vars => ExitHonoured'
    <2> SUFFICES ASSUME ExitHonoured, [Next]_vars, [~Drops]_vars, exitAsked'
                 PROVE  pc' \in {"Exit", "Fatal", "Off"}
      BY DEF ExitHonoured
    <2>1. CASE Quit \/ QuitMainMenu
      BY <2>1 DEF Quit, QuitMainMenu, Go
    <2>2. CASE SetupNetwork \/ LeaveConfirm \/ LeaveResult
      <3>1. UNCHANGED vars
        BY <2>2 DEF Drops
      <3>2. QED
        BY <3>1 DEF vars, ExitHonoured
    <2>3. CASE UNCHANGED vars
      BY <2>3 DEF vars, ExitHonoured
    <2>4. CASE \/ Start \/ PowerLoss \/ LogFatal \/ FetchTable \/ Body \/ Saved \/ SaveFailed
               \/ ChooseConfig
      BY <2>4 DEF Start, PowerLoss, LogFatal, FetchTable, Body, Saved, SaveFailed, ChooseConfig
    <2>5. CASE Same
      BY <2>5 DEF Same
    <2>6. QED
      BY <2>1, <2>2, <2>3, <2>4, <2>5
      DEF Next, User, Back, Program, ChooseCache, ChooseDownload, ChooseLog, ChooseDistro,
          ChooseOther, ChooseLink, ChooseSubdir, ChooseIso, ChooseType, Accept, Decline,
          BackFromDownload, BackFromDir, BackFromIso, Probe, Request, Check, ReadDir,
          InferType, Load, Boot
  <1>3. QED
    BY <1>1, <1>2, PTL DEF Spec

\* What else the locals hold: a label looked up later is still a key, and the
\* parameters are exact unless a character was escaped.
Exact ==
    /\ pc \in {"InferType", "TypeMenu"} /\ label \in Distros => label \in table
    /\ pc \in {"Boot", "Kexec"} => params.mangled = (iso \in Special)

LEMMA ExactStep == Inv /\ Exact /\ [Next]_vars => Exact'
  <1> SUFFICES ASSUME Inv, Exact, [Next]_vars PROVE Exact'
    OBVIOUS
  <1> DEFINE Far == pc' \notin {"InferType", "TypeMenu", "Boot", "Kexec"}
  <1>0. Far => Exact'
    BY DEF Exact
  <1>1. CASE \/ Start \/ PowerLoss \/ LogFatal \/ ChooseCache \/ ChooseDownload \/ ChooseLog
             \/ QuitMainMenu \/ LeaveResult \/ Quit \/ Probe \/ SetupNetwork \/ FetchTable
             \/ ChooseDistro \/ ChooseOther \/ BackFromDownload
    <2>1. Far
      BY <1>1
      DEF Start, PowerLoss, LogFatal, ChooseCache, ChooseDownload, ChooseLog, QuitMainMenu,
          LeaveResult, Quit, Probe, SetupNetwork, FetchTable, ChooseDistro, ChooseOther,
          BackFromDownload, Go, ToMenu, ToResult
    <2>2. QED
      BY <1>0, <2>1
  <1>2. CASE \/ SaveFailed \/ Saved \/ Decline \/ LeaveConfirm \/ ReadDir \/ ChooseSubdir
             \/ BackFromDir \/ ChooseType \/ Load \/ BackFromIso
    <2>1. Far
      BY <1>2
      DEF SaveFailed, Saved, Decline, LeaveConfirm, ReadDir, ChooseSubdir, BackFromDir,
          ChooseType, Load, BackFromIso, Go, ToMenu, ToResult
    <2>2. QED
      BY <1>0, <2>1
  <1>3. CASE ChooseLink
    BY <1>0, <1>3 DEF ChooseLink, Go, ToResult
  <1>4. CASE Request \/ Body
    BY <1>0, <1>4 DEF Request, Body, Go, ToResult
  <1>5. CASE Check \/ Accept
    BY <1>0, <1>5, DataAssumption
    DEF Check, Accept, Exact, Inv, Safe, LabelsAreKeys, Go, ToResult, Same, locals
  <1>6. CASE ChooseIso
    BY <1>6, DataAssumption DEF ChooseIso, Exact, Inv, Shape, Go
  <1>7. CASE InferType
    BY <1>0, <1>7 DEF InferType, Exact, Go, ToResult, Same, locals
  <1>8. CASE ChooseConfig
    BY <1>0, <1>8 DEF ChooseConfig, Exact, Go, ToResult
  <1>9. CASE Boot
    BY <1>0, <1>9 DEF Boot, Exact, Go, ToResult, locals
  <1>10. CASE UNCHANGED vars
    BY <1>10 DEF vars, disk, locals, Exact
  <1>11. QED
    BY <1>1, <1>2, <1>3, <1>4, <1>5, <1>6, <1>7, <1>8, <1>9, <1>10
    DEF Next, User, Back, Program

\* It holds in every reachable state.
LEMMA ExactAlways == Spec => [](Inv /\ Exact)
  <1>1. Init => Exact
    BY DEF Init, Exact
  <1>2. Inv /\ Exact /\ [Next]_vars => (Inv /\ Exact)'
    BY TypeStep, SafeStep, ExactStep DEF Inv
  <1>3. QED
    BY InvInit, <1>1, <1>2, PTL DEF Spec

\* "After the user decides on an ISO, boot it": with no table of distros there
\* is none it could be booted as, and that happens to two kinds of ISOs only:
\* to one chosen in the cache, and to one whose link was typed under "Other
\* Distro".  One downloaded as a distro of the menu has at least that distro.
THEOREM BootableUnlessOther ==
    Spec => [](label \notin {NoDistro, Other} => ChosenIsBootable)
  <1>1. Inv /\ Exact => (label \notin {NoDistro, Other} => ChosenIsBootable)
    BY DEF Exact, ChosenIsBootable, Inv, TypeOK, LocalsOK
  <1>2. QED
    BY ExactAlways, <1>1, PTL

\* "parameters to tell the next distro where to locate its ISO file": they do
\* exactly from a stick, and for a path, directory names and file name, without
\* a character that is escaped.
THEOREM LocatableExactly ==
    Spec => [](pc = "Kexec" => (Locatable <=> conf.stick /\ iso \notin Special))
  <1>1. Exact => (pc = "Kexec" => (Locatable <=> conf.stick /\ iso \notin Special))
    BY DEF Exact, Locatable
  <1>2. QED
    BY ExactAlways, <1>1, PTL

\* Where main() is when it has an ISO in hand, where that ISO lies if it was
\* downloaded, and where every file lies that a loss of power may damage.
InHand == {"Request", "Body", "Saving", "Check", "Confirm"} \cup InExec

Located ==
    /\ iso # NoIso => pc \in InHand
    /\ label # NoDistro /\ iso # NoIso => iso[1] \in {Downloaded, Tmp}
    /\ \A f \in unsynced : f[1] = Downloaded

LEMMA LocatedStep == Inv /\ Located /\ [Next]_vars => Located'
  <1> SUFFICES ASSUME Inv, Located, [Next]_vars PROVE Located'
    OBVIOUS
  <1> DEFINE Durable == \A f \in unsynced : f[1] = Downloaded
  <1>0. iso' = NoIso /\ Durable' => Located'
    BY DEF Located
  <1>1. UNCHANGED <<iso, label>> /\ (pc \in InHand => pc' \in InHand) /\ Durable' => Located'
    BY DEF Located
  <1>a. Durable'
    <2>1. CASE Body
      <3>1. label # NoDistro /\ iso # NoIso
        BY <2>1, DataAssumption DEF Body, Inv, Shape
      <3>2. QED
        BY <2>1, <3>1 DEF Body, Located, disk
    <2>2. CASE PowerLoss
      BY <2>2 DEF PowerLoss
    <2>3. CASE UNCHANGED unsynced
      BY <2>3 DEF Located
    <2>4. QED
      BY <2>1, <2>2, <2>3
      DEF Next, User, Back, Program, vars, disk, Same, ChooseCache, ChooseDownload, ChooseLog,
          QuitMainMenu, ChooseDistro, ChooseOther, ChooseLink, ChooseSubdir, ChooseIso,
          ChooseType, ChooseConfig, Accept, Decline, Quit, LeaveResult, LeaveConfirm,
          BackFromDownload, BackFromDir, BackFromIso, Probe, SetupNetwork, FetchTable,
          Request, Saved, SaveFailed, Check, ReadDir, InferType, Load, Boot, LogFatal, Start
  <1> HIDE DEF Durable
  <1>2. CASE \/ Start \/ PowerLoss \/ LogFatal \/ ChooseLog \/ QuitMainMenu \/ LeaveResult
             \/ Quit \/ BackFromDownload \/ SaveFailed \/ Decline \/ LeaveConfirm \/ BackFromIso
    BY <1>0, <1>a, <1>2
    DEF Start, PowerLoss, LogFatal, ChooseLog, QuitMainMenu, LeaveResult, Quit,
        BackFromDownload, SaveFailed, Decline, LeaveConfirm, BackFromIso, ToMenu, ToResult,
        Die, Idle
  <1>3. CASE \/ ChooseCache \/ ChooseDownload \/ Probe \/ SetupNetwork \/ FetchTable
             \/ ReadDir \/ ChooseSubdir \/ BackFromDir
    BY <1>0, <1>1, <1>a, <1>3
    DEF ChooseCache, ChooseDownload, Probe, SetupNetwork, FetchTable, ReadDir, ChooseSubdir,
        BackFromDir, InHand, InExec, Go, ToMenu, ToResult, Idle, locals
  <1>4. CASE ChooseDistro \/ ChooseOther
    BY <1>0, <1>a, <1>4
    DEF Durable, ChooseDistro, ChooseOther, Located, InHand, InExec, ToResult, Idle
  <1>5. CASE ChooseLink
    BY <1>0, <1>a, <1>5
    DEF Durable, ChooseLink, Target, Located, InHand, Go, ToResult, Idle
  <1>6. CASE Request \/ Body \/ Saved \/ Check \/ Accept
    BY <1>0, <1>1, <1>a, <1>6
    DEF Request, Body, Saved, Check, Accept, InHand, InExec, Go, ToResult, Idle, locals
  <1>7. CASE ChooseIso
    BY <1>a, <1>7 DEF Durable, ChooseIso, Located, Inv, Shape, InHand, InExec, Go
  <1>8. CASE InferType \/ ChooseType \/ Load \/ ChooseConfig \/ Boot
    BY <1>0, <1>1, <1>a, <1>8
    DEF InferType, ChooseType, Load, ChooseConfig, Boot, InHand, InExec, Go, ToResult,
        Idle, locals
  <1>9. CASE UNCHANGED vars
    BY <1>9 DEF vars, disk, locals, Located
  <1>10. QED
    BY <1>2, <1>3, <1>4, <1>5, <1>6, <1>7, <1>8, <1>9 DEF Next, User, Back, Program

\* However downloads fail, are cancelled, or are cut off by a loss of power,
\* also one long after them: the ISOs the user put into other directories of
\* the cache never change, and while the power is on no file does but the one
\* that is being downloaded.
THEOREM OtherFilesKept == Spec => OwnFileOnly
  <1> DEFINE Own ==
        \A f \in Isos : files'[f] # files[f] =>
            /\ f[1] \in {Downloaded, Tmp}
            /\ pc' # "Off" => pc \in {"Body", "Saving"} /\ f = iso
  <1>1. Init => Located
    BY DEF Init, Located
  <1>2. Inv /\ Located /\ [Next]_vars => [Own]_vars
    <2> SUFFICES ASSUME Inv, Located, Next PROVE Own
      OBVIOUS
    <2>0. UNCHANGED files => Own
      OBVIOUS
    <2>1. files \in [Isos -> Content] /\ NoIso \notin Isos
      BY DataAssumption DEF Inv, TypeOK, GlobalsOK
    <2>2. CASE PowerLoss
      <3>0. PICK lost \in SUBSET unsynced : \E left \in [lost -> {"none", "part"}] :
              files' = [f \in Isos |-> IF f[1] = Tmp THEN "none"
                                       ELSE IF f \in lost THEN left[f] ELSE files[f]]
        BY <2>2 DEF PowerLoss
      <3>1. PICK left \in [lost -> {"none", "part"}] :
              files' = [f \in Isos |-> IF f[1] = Tmp THEN "none"
                                       ELSE IF f \in lost THEN left[f] ELSE files[f]]
        BY <3>0
      <3>2. pc' = "Off"
        BY <2>2 DEF PowerLoss, Go
      <3>3. \A f \in lost : f[1] = Downloaded
        BY <3>0 DEF Located
      <3>4. \A f \in Isos : files'[f] # files[f] => f[1] = Tmp \/ f \in lost
        BY <3>1
      <3>5. QED
        BY <3>2, <3>3, <3>4
    <2>3. CASE Body \/ Saved \/ SaveFailed
      <3>1. pc \in {"Body", "Saving"} /\ iso[1] \in {Downloaded, Tmp}
        BY <2>1, <2>3 DEF Body, Saved, SaveFailed, Inv, Shape, Located
      <3>2. \A f \in Isos : files'[f] # files[f] => f = iso
        BY <2>1, <2>3 DEF Body, Saved, SaveFailed, disk
      <3>3. QED
        BY <3>1, <3>2
    <2>4. CASE ~PowerLoss /\ ~Body /\ ~Saved /\ ~SaveFailed
      <3>1. UNCHANGED files
        BY <2>4
        DEF Next, User, Back, Program, Same, disk, ChooseCache, ChooseDownload,
            ChooseLog, QuitMainMenu, ChooseDistro, ChooseOther, ChooseLink, ChooseSubdir,
            ChooseIso, ChooseType, ChooseConfig, Accept, Decline, Quit, LeaveResult,
            LeaveConfirm, BackFromDownload, BackFromDir, BackFromIso, Probe, SetupNetwork,
            FetchTable, Request, Check, ReadDir, InferType, Load, Boot, LogFatal, Start
      <3>2. QED
        BY <2>0, <3>1
    <2>5. QED
      BY <2>2, <2>3, <2>4
  <1>3. Inv /\ Located /\ [Next]_vars => (Inv /\ Located)'
    BY TypeStep, SafeStep, LocatedStep DEF Inv
  <1>4. QED
    BY InvInit, <1>1, <1>2, <1>3, PTL DEF Spec, OwnFileOnly
=============================================================================
