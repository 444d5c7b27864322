--------------------------- MODULE BootIso_proofs ---------------------------
(* Proofs about BootIso, for any ISOs and any lists of configs, shared     *)
(* paths included.                                                         *)
EXTENDS BootIso, TLAPS

Copying == {"kernel", "initrd"}

\* What the locals of LoadCustomConfigs are while it copies: every copy is
\* one of a file of the mounted ISO, under the path it has there.
Copies ==
    /\ pc \in {"parse", "mount"} \cup Copying => iso \in Isos
    /\ pc = "mount" => Count[iso] # 0
    /\ pc \in Copying =>
          /\ mounted = iso /\ num \in Numbers(iso)
          /\ \A p \in Paths : copied[p] \in {NoFile, <<iso, p>>}
    /\ pc = "initrd" => copied[Kernel[iso][num]] = <<iso, Kernel[iso][num]>>

\* While it copies, the images of the configs behind it are made; when it is
\* through without an error, all are.
Complete ==
    /\ pc \in Copying => ~failed /\ \A i \in Numbers(iso) : i < num => Made(i)
    /\ pc \in {"close", "unmount"} /\ ~failed => \A i \in Numbers(iso) : Made(i)
    /\ pc = "menu" => \A i \in Numbers(iso) : Made(i)

\* From the menu on the image is one of the menu's; before the jump it is
\* the one in the kernel.
Chosen ==
    /\ pc \in {"stat", "command", "load", "reboot", "jumped"} => image \in images
    /\ pc \in {"reboot", "jumped"} => loaded = image

Inv == TypeOK /\ Copies /\ OfItsFiles

\* What a copy leaves: the others as they were, and one of its own path.
LEMMA CopyShape ==
    ASSUME TypeOK, NEW p \in Paths, NEW next, mounted = iso, iso \in Isos,
           \A q \in Paths : copied[q] \in {NoFile, <<iso, q>>},
           Copy(p, next)
    PROVE  /\ copied' \in [Paths -> Files \cup {NoFile}]
           /\ open' \subseteq Paths /\ failed' \in BOOLEAN
           /\ \A q \in Paths : copied'[q] \in {NoFile, <<iso, q>>}
           /\ \A q \in Paths : copied[q] # NoFile => copied'[q] = copied[q]
           /\ \/ failed' = failed /\ pc' = next /\ copied'[p] = <<iso, p>>
              \/ failed' = TRUE /\ pc' = "close"
<1>1. <<iso, p>> \in Files
  BY DEF Files
<1>2. CASE copied[p] = NoFile /\ failed' = failed /\ pc' = next
           /\ copied' = [copied EXCEPT ![p] = <<mounted, p>>]
           /\ open' = open \cup {p}
  BY <1>1, <1>2 DEF TypeOK
<1>3. CASE copied[p] # NoFile /\ failed' = failed /\ pc' = next
           /\ copied' = copied /\ open' = open
  BY <1>3 DEF TypeOK
<1>4. CASE copied[p] = NoFile /\ open' \in {open, open \cup {p}} /\ pc' = "close"
           /\ failed' = TRUE /\ copied' = copied
  BY <1>4 DEF TypeOK
<1> QED
  BY <1>2, <1>3, <1>4 DEF Copy

\* Before the first ISO there is no image and no copy.
LEMMA InitInv == Init => Inv /\ Chosen /\ Complete
<1> SUFFICES ASSUME Init PROVE Inv /\ Chosen /\ Complete
  OBVIOUS
<1>1. TypeOK
  BY DEF Init, TypeOK, Steps, NoCopies, Files, NoFile, Images, NoImage
<1>2. Copies /\ OfItsFiles /\ Chosen /\ Complete
  BY DEF Init, Copies, Copying, OfItsFiles, Chosen, Complete
<1> QED
  BY <1>1, <1>2 DEF Inv

\* A step keeps the types, the copies and the images made of them.
LEMMA StepInv == Inv /\ [Next]_vars => Inv'
<1> SUFFICES ASSUME Inv, [Next]_vars PROVE Inv'
  OBVIOUS
<1> USE DEF Inv
<1>1. CASE Exec
  <2>1. PICK x \in Isos : /\ iso' = x
                          /\ pc' = IF x \in Parsed THEN "parse"
                                   ELSE IF Count[x] # 0 THEN "mount" ELSE "idle"
    BY <1>1 DEF Exec
  <2>2. TypeOK'
    BY <1>1, <2>1 DEF Exec, TypeOK, Steps, load
  <2>3. Copies' /\ OfItsFiles'
    BY <1>1, <2>1 DEF Exec, Copies, Copying, OfItsFiles
  <2> QED
    BY <2>2, <2>3
<1>2. CASE ParseConfigFromISO
  <2>1. iso \in Isos
    BY <1>2 DEF ParseConfigFromISO, Copies
  <2>2. /\ pc' \in {"idle", "menu", "mount"} /\ (pc' = "mount" => Count[iso] # 0)
        /\ \/ images' = images \/ images' = {}
           \/ \E k, f \in Paths : images' = {Image(0, <<iso, k>>, <<iso, f>>)}
    BY <1>2 DEF ParseConfigFromISO, AfterParse
  <2>3. images' \subseteq Images /\ OfItsFiles'
    <3>1. CASE images' = images \/ images' = {}
      BY <1>2, <3>1 DEF ParseConfigFromISO, TypeOK, OfItsFiles
    <3>2. CASE \E k, f \in Paths : images' = {Image(0, <<iso, k>>, <<iso, f>>)}
      <4>1. PICK k, f \in Paths : images' = {Image(0, <<iso, k>>, <<iso, f>>)}
        BY <3>2
      <4>2. Image(0, <<iso, k>>, <<iso, f>>) \in Images
        BY <2>1 DEF Image, Images, Files
      <4>3. iso' = iso
        BY <1>2 DEF ParseConfigFromISO
      <4> QED
        BY <4>1, <4>2, <4>3 DEF OfItsFiles, Image
    <3> QED
      BY <2>2, <3>1, <3>2
  <2>4. TypeOK'
    BY <1>2, <2>2, <2>3 DEF ParseConfigFromISO, TypeOK, Steps, load
  <2>5. Copies'
    BY <1>2, <2>1, <2>2 DEF ParseConfigFromISO, Copies, Copying
  <2> QED
    BY <2>3, <2>4, <2>5
<1>3. CASE Mount
  <2>1. iso \in Isos /\ Count[iso] # 0
    BY <1>3 DEF Mount, Copies
  <2>2. 1 \in Numbers(iso)
    BY <2>1, BootAssumption DEF Numbers
  <2>3. NoCopies \in [Paths -> Files \cup {NoFile}] /\ \A p \in Paths : NoCopies[p] = NoFile
    BY DEF NoCopies
  <2>4. TypeOK'
    <3>1. CASE mounted' = iso /\ open' = {} /\ copied' = NoCopies /\ num' = 1
               /\ failed' = FALSE /\ pc' = "kernel"
      BY <1>3, <2>1, <2>3, <3>1 DEF Mount, TypeOK, Steps
    <3>2. CASE pc' = "idle" /\ UNCHANGED load
      BY <1>3, <3>2 DEF Mount, TypeOK, Steps, load
    <3> QED
      BY <1>3, <3>1, <3>2 DEF Mount
  <2>5. Copies'
    BY <1>3, <2>1, <2>2, <2>3 DEF Mount, Copies, Copying
  <2>6. OfItsFiles'
    BY <1>3 DEF Mount, OfItsFiles
  <2> QED
    BY <2>4, <2>5, <2>6
<1>4. CASE CopyKernel
  <2> DEFINE p == Kernel[iso][num]
  <2>1. /\ iso \in Isos /\ mounted = iso /\ num \in Numbers(iso)
        /\ \A q \in Paths : copied[q] \in {NoFile, <<iso, q>>}
    BY <1>4 DEF CopyKernel, Copies, Copying
  <2>2. p \in Paths
    BY <2>1, BootAssumption
  <2>3. Copy(p, "initrd")
    BY <1>4 DEF CopyKernel
  <2>4. /\ copied' \in [Paths -> Files \cup {NoFile}]
        /\ open' \subseteq Paths /\ failed' \in BOOLEAN
        /\ \A q \in Paths : copied'[q] \in {NoFile, <<iso, q>>}
        /\ (pc' = "initrd" /\ copied'[p] = <<iso, p>>) \/ pc' = "close"
    BY <2>1, <2>2, <2>3, CopyShape
  <2>5. TypeOK'
    BY <1>4, <2>4 DEF CopyKernel, TypeOK, Steps
  <2>6. Copies'
    BY <1>4, <2>1, <2>4 DEF CopyKernel, Copies, Copying
  <2>7. OfItsFiles'
    BY <1>4 DEF CopyKernel, OfItsFiles
  <2> QED
    BY <2>5, <2>6, <2>7
<1>5. CASE CopyInitrd
  <2> DEFINE k == Kernel[iso][num]
             f == Initrd[iso][num]
             next == IF Last THEN "close" ELSE "kernel"
  <2>1. /\ iso \in Isos /\ mounted = iso /\ num \in Numbers(iso)
        /\ \A q \in Paths : copied[q] \in {NoFile, <<iso, q>>}
        /\ copied[k] = <<iso, k>>
    BY <1>5 DEF CopyInitrd, Copies, Copying
  <2>2. k \in Paths /\ f \in Paths
    BY <2>1, BootAssumption
  <2>3. Copy(f, next)
    BY <1>5 DEF CopyInitrd
  <2>4. /\ copied' \in [Paths -> Files \cup {NoFile}]
        /\ open' \subseteq Paths /\ failed' \in BOOLEAN
        /\ \A q \in Paths : copied'[q] \in {NoFile, <<iso, q>>}
        /\ \A q \in Paths : copied[q] # NoFile => copied'[q] = copied[q]
        /\ \/ failed' = failed /\ pc' = next /\ copied'[f] = <<iso, f>>
           \/ failed' = TRUE /\ pc' = "close"
    BY <2>1, <2>2, <2>3, CopyShape
  <2>5. copied'[k] = <<iso, k>>
    <3>1. <<iso, k>> # NoFile
      BY <2>1, BootAssumption DEF NoFile
    <3> QED
      BY <2>1, <2>2, <2>4, <3>1
  <2>6. /\ iso' = iso /\ mounted' = mounted /\ command' = command
        /\ image' = image /\ loaded' = loaded
    BY <1>5 DEF CopyInitrd
  <2>7. CASE failed' /\ images' = images /\ num' = num
    <3>1. pc' \in {"close", "kernel"} /\ (pc' = "kernel" => num' \in Numbers(iso))
      BY <2>1, <2>4, <2>7
    <3>2. TypeOK'
      BY <2>4, <2>6, <2>7, <3>1 DEF TypeOK, Steps
    <3>3. Copies'
      BY <2>1, <2>4, <2>6, <3>1 DEF Copies, Copying
    <3>4. OfItsFiles'
      BY <2>6, <2>7 DEF OfItsFiles
    <3> QED
      BY <3>2, <3>3, <3>4
  <2>8. CASE /\ ~failed' /\ num' = num + 1
             /\ images' = images \cup {Image(num, copied'[k], copied'[f])}
    <3> DEFINE new == Image(num, <<iso, k>>, <<iso, f>>)
    <3>1. images' = images \cup {new} /\ pc' = next
      BY <2>4, <2>5, <2>8
    <3>2. num \in Nat /\ (~Last => num + 1 \in Numbers(iso))
      BY <2>1, BootAssumption DEF Numbers, Last
    <3>3. pc' \in {"close", "kernel"} /\ (pc' = "kernel" => num' \in Numbers(iso))
      BY <2>8, <3>1, <3>2
    <3>4. new \in Images
      BY <2>1, <2>2, <3>2 DEF Image, Images, Files
    <3>5. TypeOK'
      BY <2>4, <2>6, <2>8, <3>1, <3>2, <3>3, <3>4 DEF TypeOK, Steps
    <3>6. Copies'
      BY <2>1, <2>4, <2>6, <3>3 DEF Copies, Copying
    <3>7. OfItsFiles'
      BY <2>1, <2>6, <3>1 DEF OfItsFiles, Image, Numbers
    <3> QED
      BY <3>5, <3>6, <3>7
  <2> QED
    BY <1>5, <2>7, <2>8 DEF CopyInitrd
<1>6. CASE CloseFiles
  BY <1>6 DEF CloseFiles, TypeOK, Steps, Copies, Copying, OfItsFiles
<1>7. CASE Unmount
  <2>1. pc' \in {"idle", "menu", "fatal"} /\ mounted' \in {mounted, NoIso}
    BY <1>7 DEF Unmount, AfterCustom
  <2> QED
    BY <1>7, <2>1 DEF Unmount, TypeOK, Steps, Copies, Copying, OfItsFiles
<1>8. CASE ChooseConfig
  <2>1. pc' \in {"idle", "stat"} /\ image' \in images \cup {image}
    BY <1>8 DEF ChooseConfig
  <2> QED
    BY <1>8, <2>1 DEF ChooseConfig, TypeOK, Steps, load, Copies, Copying, OfItsFiles
<1>9. CASE Stat
  BY <1>9 DEF Stat, TypeOK, Steps, load, Copies, Copying, OfItsFiles
<1>10. CASE CmdKexecLoad
  BY <1>10 DEF CmdKexecLoad, TypeOK, Steps, load, Copies, Copying, OfItsFiles
<1>11. CASE Load
  BY <1>11 DEF Load, TypeOK, Steps, load, Copies, Copying, OfItsFiles
<1>12. CASE Reboot
  BY <1>12 DEF Reboot, TypeOK, Steps, load, Copies, Copying, OfItsFiles
<1>13. CASE UNCHANGED vars
  BY <1>13 DEF vars, load, TypeOK, Steps, Copies, Copying, OfItsFiles
<1> QED
  BY <1>1, <1>2, <1>3, <1>4, <1>5, <1>6, <1>7, <1>8, <1>9, <1>10, <1>11, <1>12,
     <1>13 DEF Next

\* Where a copy may lead.
LEMMA CopyLeads ==
    ASSUME CopyKernel \/ CopyInitrd
    PROVE  pc' \in {"kernel", "initrd", "close"}
BY DEF CopyKernel, CopyInitrd, Copy

\* A step keeps count of the images made.
LEMMA StepComplete == Inv /\ Complete /\ [Next]_vars => Complete'
<1> SUFFICES ASSUME Inv, Complete, [Next]_vars PROVE Complete'
  OBVIOUS
<1>0. \A x \in Isos : Count[x] = 0 => Numbers(x) = {}
  BY DEF Numbers
<1>1. CASE Exec
  <2>1. pc' \in {"parse", "mount", "idle"}
    BY <1>1 DEF Exec
  <2> QED
    BY <2>1 DEF Complete, Copying
<1>2. CASE ParseConfigFromISO
  <2>1. pc' \in {"idle", "mount", "menu"} /\ (pc' = "menu" => Count[iso] = 0)
    BY <1>2 DEF ParseConfigFromISO, AfterParse
  <2>2. iso \in Isos /\ iso' = iso
    BY <1>2 DEF ParseConfigFromISO, Inv, Copies
  <2> QED
    BY <1>0, <2>1, <2>2 DEF Complete, Copying
<1>3. CASE Mount
  <2>1. CASE num' = 1 /\ failed' = FALSE /\ pc' = "kernel"
    <3>1. \A i \in Numbers(iso') : ~(i < num')
      BY <2>1, BootAssumption DEF Numbers
    <3> QED
      BY <2>1, <3>1 DEF Complete, Copying
  <2>2. CASE pc' = "idle"
    BY <2>2 DEF Complete, Copying
  <2> QED
    BY <1>3, <2>1, <2>2 DEF Mount
<1>4. CASE CopyKernel
  <2>1. \/ pc' = "initrd" /\ failed' = failed
        \/ pc' = "close" /\ failed' = TRUE
    BY <1>4 DEF CopyKernel, Copy
  <2>2. pc = "kernel" /\ UNCHANGED <<iso, num, images>>
    BY <1>4 DEF CopyKernel
  <2> QED
    BY <2>1, <2>2 DEF Complete, Copying, Made
<1>5. CASE CopyInitrd
  <2>1. /\ pc = "initrd" /\ iso' = iso /\ num \in Numbers(iso) /\ iso \in Isos
        /\ ~failed /\ \A i \in Numbers(iso) : i < num => Made(i)
    BY <1>5 DEF CopyInitrd, Complete, Inv, Copies, Copying
  <2>2. \/ pc' = "close" /\ failed' = TRUE
        \/ pc' = (IF Last THEN "close" ELSE "kernel") /\ failed' = failed
    BY <1>5 DEF CopyInitrd, Copy
  <2>3. CASE failed'
    BY <2>1, <2>2, <2>3 DEF Complete, Copying
  <2>4. CASE ~failed'
    <3>1. /\ num' = num + 1
          /\ \E k, f : images' = images \cup {Image(num, k, f)}
      BY <1>5, <2>4 DEF CopyInitrd
    <3>2. (\E m \in images' : m.label = num) /\ \A i \in Numbers(iso) : Made(i) => Made(i)'
      <4>1. PICK k, f : images' = images \cup {Image(num, k, f)}
        BY <3>1
      <4>2. Image(num, k, f).label = num
        BY DEF Image
      <4> QED
        BY <2>1, <3>1, <4>1, <4>2 DEF Made
    <3>3. \A i \in Numbers(iso) : i < num + 1 => i < num \/ i = num
      BY <2>1, BootAssumption DEF Numbers
    <3>4. Last => \A i \in Numbers(iso) : i < num + 1
      BY <2>1, BootAssumption DEF Numbers, Last
    <3> QED
      <4>1. \A i \in Numbers(iso) : i < num + 1 => Made(i)'
        BY <2>1, <3>2, <3>3 DEF Made
      <4>2. (pc' = "close" /\ Last) \/ pc' = "kernel"
        BY <2>1, <2>2, <2>4
      <4> QED
        BY <2>1, <2>4, <3>1, <3>4, <4>1, <4>2 DEF Complete, Copying
  <2> QED
    BY <2>3, <2>4
<1>6. CASE CloseFiles
  BY <1>6 DEF CloseFiles, Complete, Copying, Made
<1>7. CASE Unmount
  BY <1>7 DEF Unmount, AfterCustom, Complete, Copying, Made
<1>8. CASE ChooseConfig \/ Stat \/ CmdKexecLoad \/ Load \/ Reboot
  <2>1. pc' \in {"stat", "idle", "load", "command", "reboot", "jumped"}
    BY <1>8 DEF ChooseConfig, Stat, CmdKexecLoad, Load, Reboot
  <2> QED
    BY <2>1 DEF Complete, Copying
<1>9. CASE UNCHANGED vars
  BY <1>9 DEF vars, load, Complete, Copying, Made
<1> QED
  BY <1>1, <1>2, <1>3, <1>4, <1>5, <1>6, <1>7, <1>8, <1>9 DEF Next

\* A step keeps the chosen image among the images of the menu.
LEMMA StepChosen == Chosen /\ [Next]_vars => Chosen'
<1> SUFFICES ASSUME Chosen, [Next]_vars PROVE Chosen'
  OBVIOUS
<1>1. CASE Exec
  <2>1. pc' \in {"parse", "mount", "idle"}
    BY <1>1 DEF Exec
  <2> QED
    BY <2>1 DEF Chosen
<1>2. CASE ParseConfigFromISO
  <2>1. pc' \in {"idle", "menu", "mount"}
    BY <1>2 DEF ParseConfigFromISO, AfterParse
  <2> QED
    BY <2>1 DEF Chosen
<1>3. CASE CopyKernel \/ CopyInitrd
  BY <1>3, CopyLeads DEF Chosen
<1>4. CASE Mount \/ CloseFiles \/ Unmount
  <2>1. pc' \in {"kernel", "idle", "unmount", "menu", "fatal"}
    BY <1>4 DEF Mount, CloseFiles, Unmount, AfterCustom
  <2> QED
    BY <2>1 DEF Chosen
<1>5. CASE ChooseConfig \/ Stat \/ CmdKexecLoad
  BY <1>5 DEF Chosen, ChooseConfig, Stat, CmdKexecLoad
<1>6. CASE Load \/ Reboot
  BY <1>6 DEF Chosen, Load, Reboot
<1>7. CASE UNCHANGED vars
  BY <1>7 DEF Chosen, vars
<1> QED
  BY <1>1, <1>2, <1>3, <1>4, <1>5, <1>6, <1>7 DEF Next

\* The files are closed and the ISO is unmounted on every way out.
LEMMA StepUnmounted ==
    TypeOK /\ NothingMounted /\ [Next]_vars => NothingMounted'
<1> SUFFICES ASSUME TypeOK, NothingMounted, [Next]_vars PROVE NothingMounted'
  OBVIOUS
<1>1. CASE Exec
  <2>1. pc' \in {"parse", "mount", "idle"}
    BY <1>1 DEF Exec
  <2> QED
    BY <1>1, <2>1 DEF Exec, load, NothingMounted
<1>2. CASE ParseConfigFromISO
  <2>1. pc' \in {"idle", "menu", "mount"}
    BY <1>2 DEF ParseConfigFromISO, AfterParse
  <2> QED
    BY <1>2, <2>1 DEF ParseConfigFromISO, load, NothingMounted
<1>3. CASE CopyKernel \/ CopyInitrd
  BY <1>3, CopyLeads DEF NothingMounted
<1>4. CASE Mount
  BY <1>4 DEF Mount, load, NothingMounted
<1>5. CASE CloseFiles
  BY <1>5 DEF CloseFiles, NothingMounted
<1>6. CASE Unmount
  <2>1. \/ mounted' = NoIso /\ pc' \in {"idle", "menu"}
        \/ pc' = "fatal"
    BY <1>6 DEF Unmount, AfterCustom
  <2> QED
    BY <2>1 DEF NothingMounted
<1>7. CASE ChooseConfig \/ Stat \/ CmdKexecLoad \/ Load \/ Reboot
  <2>1. /\ pc \in {"menu", "stat", "command", "load", "reboot"} /\ mounted' = mounted
        /\ pc' # "unmount"
    BY <1>7 DEF ChooseConfig, Stat, CmdKexecLoad, Load, Reboot, load
  <2> QED
    BY <2>1 DEF NothingMounted
<1>8. CASE UNCHANGED vars
  BY <1>8 DEF NothingMounted, vars, load
<1> QED
  BY <1>1, <1>2, <1>3, <1>4, <1>5, <1>6, <1>7, <1>8 DEF Next

\* The state of a session keeps its types: what the menu of images shows and
\* what is loaded into the kernel are images (ISO.exec, LoadCustomConfigs).
THEOREM TypeCorrect == Spec => []TypeOK
<1>1. Inv => TypeOK
  BY DEF Inv
<1> QED
  BY InitInv, StepInv, <1>1, PTL DEF Spec

\* Every image of the menu is made of files of the ISO it was made for, and
\* of those its config names (LoadCustomConfigs shares copies by path); every
\* config has its image there.
THEOREM ImagesOfTheirFiles == Spec => []OwnFiles
<1>1. Inv /\ Complete => OwnFiles
  BY DEF Inv, Complete, OwnFiles
<1> QED
  BY InitInv, StepInv, StepComplete, <1>1, PTL DEF Spec

\* kexec jumps into the image chosen last, never into one that stayed
\* loaded (BootCachedISO).
THEOREM JumpIsChosen == Spec => []JumpsIntoChosen
<1>1. Chosen => JumpsIntoChosen
  BY DEF Chosen, JumpsIntoChosen
<1> QED
  BY InitInv, StepChosen, <1>1, PTL DEF Spec

\* LoadCustomConfigs unmounts on every way out, with nothing open below.
THEOREM AlwaysUnmounted == Spec => []NothingMounted
<1>1. Init => NothingMounted
  BY DEF Init, NothingMounted
<1>2. Inv => TypeOK
  BY DEF Inv
<1> QED
  BY InitInv, StepInv, StepUnmounted, <1>1, <1>2, PTL DEF Spec

\* What the inverted test of BootCachedISO costs: without /sbin/kexec nothing
\* is loaded, so that no attempt ends in a jump.
THEOREM NothingBootsWithout ==
    Spec => [](pc \in {"load", "reboot", "jumped"} => command)
<1> DEFINE I == pc \in {"load", "reboot", "jumped"} => command
<1>1. Init => I
  BY DEF Init
<1>2. I /\ [Next]_vars => I'
  <2> SUFFICES ASSUME I, [Next]_vars, pc' \in {"load", "reboot", "jumped"} PROVE command'
    OBVIOUS
  <2>1. Stat \/ Load \/ Reboot \/ UNCHANGED vars
    BY CopyLeads DEF Next, Exec, ParseConfigFromISO, AfterParse, Mount, CloseFiles, Unmount,
                     AfterCustom, ChooseConfig, CmdKexecLoad
  <2> QED
    BY <2>1 DEF Stat, Load, Reboot, vars
<1> QED
  BY <1>1, <1>2, PTL DEF Spec
=============================================================================
