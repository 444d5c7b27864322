------------------------------ MODULE Webboot ------------------------------
(***************************************************************************)
(* The main loop of cmds/webboot: which prompt is on the screen, which     *)
(* menu.Entry is being executed, what the session knows about distros and  *)
(* what lies in the ISO cache, across power losses.                        *)
(*                                                                         *)
(* main() is one goroutine that alternates between a prompt (it waits for  *)
(* a key) and a piece of work (it waits for the network, a disk, the boot  *)
(* loader).  pc names the place.  A key is an action of the user, the end  *)
(* of a piece of work is an action of the program, and a power loss may    *)
(* come between any two of them.                                           *)
(***************************************************************************)
CONSTANTS
    Distros,     \* the keys of distros.json
    Names,       \* file names of ISOs (path.Base of a link)
    Mirrors,     \* distro -> the file names its mirrors' URLs end in
    Matches,     \* <<d, n>>: isoPattern of d matches the file name n
    Summed,      \* the distros that have a checksum
    Special,     \* ISO files with a character html/template escapes in their path
    Dirs,        \* directories, those outside the cache included
    Root,        \* the cache directory
    Downloaded,  \* its sub-directory for downloads
    Tmp,         \* os.TempDir(), used when there is no cache directory
    Inside,      \* the directories at or below Root
    Parent,      \* filepath.Dir
    Stored,      \* ISO files in the cache before the first start
    Confs,       \* the ways the program is started
    NoDir, NoIso, NoDistro, Other

Places == Dirs \cup {Tmp}
Isos   == Places \X Names

\* What a file holds: the image some distro published, a body taken for whole
\* that is no published image (also one cut short whose response told no
\* length), part of a file, or there is no file.
Images  == Distros \cup {"junk"}
Content == Images \cup {"part", "none"}

ASSUME DirAssumption ==
    /\ Root \in Inside /\ Downloaded \in Inside /\ Inside \subseteq Dirs
    /\ Parent \in [Dirs -> Dirs]
    /\ \A d \in Inside \ {Root} : Parent[d] \in Inside
    /\ \A d \in Dirs : Parent[d] \in Inside => d \in Inside
    /\ Tmp \notin Dirs /\ NoDir \notin Places

\* The cache directory found (or given by -dir), whether it is on a stick
\* webboot mounted itself, -network and -dryrun.
ASSUME ConfAssumption ==
    /\ Confs \subseteq [cacheDir : {Root, NoDir}, stick : BOOLEAN,
                       network : BOOLEAN, dryRun : BOOLEAN]
    /\ \A c \in Confs : c.stick => c.cacheDir = Root

ASSUME DataAssumption ==
    /\ Mirrors \in [Distros -> SUBSET Names]
    /\ Matches \subseteq Distros \X Names
    /\ Summed \subseteq Distros /\ Special \subseteq Isos
    /\ Stored \subseteq Inside \X Names
    /\ Other \notin Distros /\ NoDistro \notin Distros /\ NoDistro # Other
    /\ NoIso \notin Isos
    /\ {"junk", "part", "none"} \cap Distros = {}

VARIABLES
    pc,        \* the prompt or the piece of work main() is in
    conf,      \* how this run was started
    table,     \* supportedDistros: its keys
    files,     \* the contents of every ISO file
    unsynced,  \* cache files opened for writing, never synced, since power-on
    isoPath,   \* cacheDev.IsoPath
    dir,       \* DirOption.path
    label,     \* label chosen in the "Linux Distros" menu
    iso,       \* file being downloaded, or path of the ISO being executed
    temp,      \* contents of download()'s temporary file
    distro,    \* the distro whose boot settings ISO.exec uses
    params,    \* the kernel parameters rendered for the next kernel
    consent,   \* history: the user chose "Proceed anyway?" for this download
    exitAsked  \* history: the prompt just left was left with <Ctrl+d>

locals == <<dir, label, iso, temp, distro, params, consent>>
disk   == <<files, unsynced>>
vars   == <<pc, conf, table, disk, isoPath, locals, exitAsked>>

\* Prompts drawn by PromptMenuEntry, all prompts, work, and where main() ends.
Menus   == {"MainMenu", "DistroMenu", "MirrorMenu", "Browse", "TypeMenu", "ConfigMenu"}
Prompts == Menus \cup {"EnterURL", "Confirm", "Result"}
Work    == {"Probe", "Network", "FetchTable", "Request", "Body", "Saving",
            "Check", "ReadDir", "InferType", "Load", "Boot"}
Ended   == {"Off", "Exit", "Fatal", "Kexec"}

NoParams == [iso |-> NoIso, mangled |-> FALSE]

\* The locals of one exec() call die with it.
Idle == /\ dir' = NoDir /\ label' = NoDistro /\ iso' = NoIso
        /\ temp' = "none" /\ distro' = NoDistro /\ params' = NoParams
        /\ consent' = FALSE

\* The whole memory of the process dies.
Die == Idle /\ table' = {} /\ isoPath' = NoIso

Go(p) == pc' = p
Same  == UNCHANGED <<conf, table, disk, isoPath>> /\ exitAsked' = FALSE

\* main() handles BackRequest by returning to the main menu and any other
\* error by showing it first.
ToMenu   == Go("MainMenu") /\ Idle
ToResult == Go("Result") /\ Idle

PlaceOK == pc \in Prompts \cup Work \cup Ended

GlobalsOK ==
    /\ conf \in Confs
    /\ table \in SUBSET Distros
    /\ files \in [Isos -> Content]
    /\ unsynced \subseteq Isos
    /\ isoPath \in Isos \cup {NoIso}
    /\ exitAsked \in BOOLEAN

LocalsOK ==
    /\ dir \in Dirs \cup {NoDir}
    /\ label \in Distros \cup {Other, NoDistro}
    /\ iso \in Isos \cup {NoIso}
    /\ temp \in Images \cup {"none"}
    /\ distro \in Distros \cup {NoDistro}
    /\ params \in [iso : Isos \cup {NoIso}, mangled : BOOLEAN]
    /\ consent \in BOOLEAN

TypeOK == PlaceOK /\ GlobalsOK /\ LocalsOK

Init ==
    /\ pc = "Off" /\ conf \in Confs /\ table = {}
    /\ files = [f \in Isos |-> IF f \in Stored THEN "junk" ELSE "none"]
    /\ unsynced = {}
    /\ isoPath = NoIso /\ params = NoParams /\ exitAsked = FALSE
    /\ dir = NoDir /\ label = NoDistro /\ iso = NoIso
    /\ temp = "none" /\ distro = NoDistro /\ consent = FALSE

-----------------------------------------------------------------------------
(* Start, end, and the main menu.                                          *)

\* A run of the program: flags, getCachedDirectory, menu.Init, getMainMenu.
Start ==
    /\ pc \in {"Off", "Exit", "Fatal"}
    /\ conf' \in Confs
    /\ exitAsked' = FALSE
    /\ Die /\ UNCHANGED disk
    /\ \/ Go("MainMenu")
       \/ Go("Fatal")       \* menu.Init failed

\* The power goes.  /tmp is in memory; the cache is not, but download() closes
\* its file without Sync, and nothing that webboot does later has it written
\* back: of any such file the disk may have a part, or no name for it.
PowerLoss ==
    /\ pc # "Off"
    /\ Go("Off") /\ Die /\ exitAsked' = FALSE
    /\ unsynced' = {}
    /\ \E lost \in SUBSET unsynced : \E left \in [lost -> {"none", "part"}] :
          files' = [f \in Isos |-> IF f[1] = Tmp THEN "none"
                                   ELSE IF f \in lost THEN left[f] ELSE files[f]]
    /\ UNCHANGED conf

\* log.Fatal: PromptMenuEntry, here or in setupNetwork, cannot open or scan
\* logOutput.txt; LoadCustomConfigs cannot unmount the ISO.  (A panic of the
\* wifi worker ends the same way.)
LogFatal ==
    /\ pc \in Menus \cup {"Network", "Load"}
    /\ Go("Fatal") /\ Die /\ exitAsked' = FALSE
    /\ UNCHANGED <<conf, disk>>

ChooseCache ==
    /\ pc = "MainMenu" /\ conf.cacheDir # NoDir
    /\ Go("ReadDir") /\ dir' = conf.cacheDir
    /\ UNCHANGED <<label, iso, temp, distro, params, consent>> /\ Same

ChooseDownload ==
    /\ pc = "MainMenu"
    /\ Go("Probe") /\ UNCHANGED locals /\ Same

ChooseLog ==
    /\ pc = "MainMenu"
    /\ ToResult /\ Same

\* <Ctrl+d> in the main menu: getMainMenu calls log.Fatal.
QuitMainMenu ==
    /\ pc = "MainMenu"
    /\ Go("Fatal") /\ Die /\ exitAsked' = TRUE
    /\ UNCHANGED <<conf, disk>>

\* Any key but a scrolling key leaves DisplayResult.  handleError and showLog
\* do not look at what it returns, which after <Ctrl+d> is menu.ExitRequest.
LeaveResult ==
    /\ pc = "Result"
    /\ ToMenu /\ exitAsked' \in BOOLEAN
    /\ UNCHANGED <<conf, table, disk, isoPath>>

\* <Ctrl+d> anywhere handleError sees it unwrapped.
Quit ==
    /\ pc \in {"DistroMenu", "EnterURL", "MirrorMenu", "Browse", "TypeMenu", "ConfigMenu"}
    /\ Go("Exit") /\ Die /\ exitAsked' = TRUE
    /\ UNCHANGED <<conf, disk>>

-----------------------------------------------------------------------------
(* DownloadOption: network, distro table, choice of a link.                *)

Probe ==
    /\ pc = "Probe"
    /\ \/ Go("Network") /\ conf.network      \* no active connection
       \/ Go("FetchTable")
    /\ UNCHANGED locals /\ Same

\* setupNetwork asks on its own; main() only logs what it returns, also when
\* that is menu.ExitRequest.
SetupNetwork ==
    /\ pc = "Network"
    /\ Go("FetchTable")
    /\ exitAsked' \in BOOLEAN
    /\ UNCHANGED <<conf, table, disk, isoPath, locals>>

\* distroData: on any error it returns nil, and main() stores the nil.
FetchTable ==
    /\ pc = "FetchTable"
    /\ table' \in {Distros, {}}
    /\ Go("DistroMenu") /\ exitAsked' = FALSE
    /\ UNCHANGED <<conf, disk, isoPath, locals>>

\* Mutant: the menu offers every known distro, not the keys of the table.
ChooseDistroUnlisted ==
    /\ pc = "DistroMenu"
    /\ \E d \in Distros :
          \/ /\ Mirrors[d] # {} /\ Go("MirrorMenu") /\ label' = d
             /\ UNCHANGED <<dir, iso, temp, distro, params, consent>>
          \/ Mirrors[d] = {} /\ ToResult
    /\ Same

ChooseDistro ==
    /\ pc = "DistroMenu"
    /\ \E d \in table :
          \/ /\ Mirrors[d] # {} /\ Go("MirrorMenu") /\ label' = d
             /\ UNCHANGED <<dir, iso, temp, distro, params, consent>>
          \/ Mirrors[d] = {} /\ ToResult     \* "Mirror not found"
    /\ Same

ChooseOther ==
    /\ pc = "DistroMenu"
    /\ Go("EnterURL") /\ label' = Other
    /\ UNCHANGED <<dir, iso, temp, distro, params, consent>> /\ Same

\* Mutant: the sub-directory is left out of the path.
TargetInRoot(n) == <<IF conf.cacheDir = NoDir THEN Tmp ELSE Root, n>>

\* fpath: under the cache directory if there is one, else under /tmp.
Target(n) == <<IF conf.cacheDir = NoDir THEN Tmp ELSE Downloaded, n>>

\* A valid URL was typed, or a mirror chosen; MkdirAll may fail.
ChooseLink ==
    /\ \E n \in Names :
          /\ \/ pc = "EnterURL"
             \/ pc = "MirrorMenu" /\ n \in Mirrors[label]
          /\ \/ /\ Go("Request") /\ iso' = Target(n)
                /\ UNCHANGED <<dir, label, temp, distro, params, consent>>
             \/ conf.cacheDir # NoDir /\ ToResult
    /\ Same

BackFromDownload ==
    /\ pc \in {"DistroMenu", "EnterURL", "MirrorMenu"}
    /\ ToMenu /\ Same

-----------------------------------------------------------------------------
(* download(): request, body into a temporary file, copy to the cache.     *)

\* Transport error, status other than 200, TempFile fails; or the body begins.
Request ==
    /\ pc = "Request"
    /\ \/ Go("Body") /\ UNCHANGED locals
       \/ ToResult
    /\ Same

\* The body arrives, whatever the server serves, breaks off, or <Esc> cancels
\* it.  os.Create then truncates the target, or fails.
Body ==
    /\ pc = "Body"
    /\ \/ /\ Go("Saving") /\ temp' \in Images
          /\ label # Other => temp' \in {label, "junk"}
          /\ files' = [files EXCEPT ![iso] = "part"]
          /\ unsynced' = unsynced \cup {f \in {iso} : f[1] # Tmp}
          /\ UNCHANGED <<dir, label, iso, distro, params, consent>>
       \/ ToResult /\ UNCHANGED disk
    /\ exitAsked' = FALSE /\ UNCHANGED <<conf, table, isoPath>>

Saved ==
    /\ pc = "Saving"
    /\ Go("Check") /\ temp' = "none"
    /\ files' = [files EXCEPT ![iso] = temp]
    /\ exitAsked' = FALSE
    /\ UNCHANGED <<conf, table, unsynced, isoPath,
                   dir, label, iso, distro, params, consent>>

\* Mutant: the error of the copy to the cache is not returned.
SaveFailedIgnored ==
    /\ pc = "Saving"
    /\ files' \in {[files EXCEPT ![iso] = c] : c \in {"none", "part"}}
    /\ Go("Check") /\ temp' = "none"
    /\ exitAsked' = FALSE
    /\ UNCHANGED <<conf, table, unsynced, isoPath,
                   dir, label, iso, distro, params, consent>>

\* The copy fails: RemoveAll, whose own failure nobody looks at.
SaveFailed ==
    /\ pc = "Saving"
    /\ files' \in {[files EXCEPT ![iso] = c] : c \in {"none", "part"}}
    /\ ToResult /\ exitAsked' = FALSE
    /\ UNCHANGED <<conf, table, unsynced, isoPath>>

-----------------------------------------------------------------------------
(* displayChecksumPrompt.                                                  *)

\* VerifyChecksum, when it has no error: the file is the published image.
Valid == files[iso] = label

Check ==
    /\ pc = "Check"
    /\ \/ /\ label \in table => label \in Summed /\ Valid
          /\ Go("InferType") /\ UNCHANGED locals
       \/ /\ label \in table
          /\ label \in Summed => ~Valid
          /\ Go("Confirm") /\ UNCHANGED locals
       \/ label \in table \cap Summed /\ ToResult     \* VerifyChecksum failed
    /\ Same

Accept ==
    /\ pc = "Confirm"
    /\ Go("InferType") /\ consent' = TRUE
    /\ UNCHANGED <<dir, label, iso, temp, distro, params>> /\ Same

\* Mutant: the answer of PromptConfirmation is not looked at.
DeclineIgnored ==
    /\ pc = "Confirm"
    /\ Go("InferType") /\ UNCHANGED locals /\ Same

\* "No": main() executes a fresh DownloadOption; the file stays.
Decline ==
    /\ pc = "Confirm"
    /\ Go("Probe") /\ Idle /\ Same

\* BackRequest and ExitRequest are wrapped in another error, so both are shown.
LeaveConfirm ==
    /\ pc = "Confirm"
    /\ ToResult /\ exitAsked' \in BOOLEAN
    /\ UNCHANGED <<conf, table, disk, isoPath>>

-----------------------------------------------------------------------------
(* DirOption: walk the cache.                                              *)

Here == {n \in Names : files[<<dir, n>>] # "none"}
Subs == {d \in Dirs \ {dir} : Parent[d] = dir}

\* ReadDir fails, the directory offers nothing, or it is listed.
ReadDir ==
    /\ pc = "ReadDir"
    /\ \/ Here \cup Subs # {} /\ Go("Browse") /\ UNCHANGED locals
       \/ ToResult
    /\ Same

ChooseSubdir ==
    /\ pc = "Browse"
    /\ \E d \in Subs : dir' = d
    /\ Go("ReadDir")
    /\ UNCHANGED <<label, iso, temp, distro, params, consent>> /\ Same

\* Mutant: the path of the entry is its name, not joined to the directory.
ChooseIsoUnjoined ==
    /\ pc = "Browse"
    /\ \E n \in Here : iso' = <<NoDir, n>>
    /\ Go("InferType") /\ dir' = NoDir
    /\ UNCHANGED <<label, temp, distro, params, consent>> /\ Same

ChooseIso ==
    /\ pc = "Browse"
    /\ \E n \in Here : iso' = <<dir, n>>
    /\ Go("InferType") /\ dir' = NoDir
    /\ UNCHANGED <<label, temp, distro, params, consent>> /\ Same

\* Mutant: no comparison with the cache directory.
BackFromDirUnchecked ==
    /\ pc = "Browse"
    /\ Go("ReadDir") /\ dir' = Parent[dir]
    /\ UNCHANGED <<label, iso, temp, distro, params, consent>>
    /\ Same

\* Mutant: filepath.Dir of a path that was not cleaned ("Images/") is the
\* same directory again.
BackFromDirUncleaned ==
    /\ pc = "Browse"
    /\ \/ /\ dir # conf.cacheDir
          /\ Go("ReadDir") /\ dir' = dir
          /\ UNCHANGED <<label, iso, temp, distro, params, consent>>
       \/ dir = conf.cacheDir /\ ToMenu
    /\ Same

BackFromDir ==
    /\ pc = "Browse"
    /\ \/ /\ dir # conf.cacheDir
          /\ Go("ReadDir") /\ dir' = Parent[dir]
          /\ UNCHANGED <<label, iso, temp, distro, params, consent>>
       \/ dir = conf.cacheDir /\ ToMenu
    /\ Same

-----------------------------------------------------------------------------
(* ISO.exec: find out the type, load the configurations, boot one.         *)

\* inferIsoType ranges over a map: any matching distro may come first.
Matching == {d \in table : <<d, iso[2]>> \in Matches}

InferType ==
    /\ pc = "InferType"
    /\ \/ /\ distro' \in Matching
          /\ Go("Load") /\ UNCHANGED <<dir, label, iso, temp, params, consent>>
       \/ Matching = {} /\ table # {} /\ Go("TypeMenu") /\ UNCHANGED locals
       \/ table = {} /\ ToResult          \* "No Entry in the menu"
    /\ Same

ChooseType ==
    /\ pc = "TypeMenu"
    /\ distro' \in table
    /\ Go("Load")
    /\ UNCHANGED <<dir, label, iso, temp, params, consent>> /\ Same

\* ParseConfigFromISO and LoadCustomConfigs.
Load ==
    /\ pc = "Load"
    /\ \/ Go("ConfigMenu") /\ UNCHANGED locals
       \/ ToResult
    /\ Same

\* Mutant: the template is rendered before cacheDev.IsoPath is set.
ChooseConfigStale ==
    /\ pc = "ConfigMenu"
    /\ isoPath' = iso
    /\ \/ /\ ~conf.dryRun
          /\ params' = [iso |-> isoPath, mangled |-> iso \in Special]
          /\ Go("Boot") /\ UNCHANGED <<dir, label, iso, temp, distro, consent>>
       \/ ToResult
    /\ exitAsked' = FALSE /\ UNCHANGED <<conf, table, disk>>

\* cacheDev.IsoPath is set, then the template is rendered: html/template
\* escapes in the whole path, directory names included.
ChooseConfig ==
    /\ pc = "ConfigMenu"
    /\ isoPath' = iso
    /\ \/ /\ ~conf.dryRun
          /\ params' = [iso |-> isoPath', mangled |-> isoPath' \in Special]
          /\ Go("Boot") /\ UNCHANGED <<dir, label, iso, temp, distro, consent>>
       \/ ToResult                     \* invalid template, or -dryrun
    /\ exitAsked' = FALSE /\ UNCHANGED <<conf, table, disk>>

BackFromIso ==
    /\ pc \in {"TypeMenu", "ConfigMenu"}
    /\ ToMenu /\ Same

\* BootCachedISO: the machine leaves, or an error (or nothing) comes back.
Boot ==
    /\ pc = "Boot"
    /\ \/ Go("Kexec") /\ UNCHANGED locals
       \/ ToResult
    /\ Same

-----------------------------------------------------------------------------
User == \/ ChooseCache \/ ChooseDownload \/ ChooseLog \/ QuitMainMenu
        \/ ChooseDistro \/ ChooseOther \/ ChooseLink
        \/ ChooseSubdir \/ ChooseIso \/ ChooseType \/ ChooseConfig
        \/ Accept \/ Decline \/ Quit

Back == \/ LeaveResult \/ LeaveConfirm
        \/ BackFromDownload \/ BackFromDir \/ BackFromIso

Program == \/ Probe \/ SetupNetwork \/ FetchTable \/ Request \/ Body
           \/ Saved \/ SaveFailed \/ Check \/ ReadDir \/ InferType
           \/ Load \/ Boot

Next == Start \/ User \/ Back \/ Program \/ LogFatal \/ PowerLoss

Spec == Init /\ [][Next]_vars

(* The program runs on: fair as the Go scheduler is, and under the         *)
(* assumption that the server answers (net/http sets no timeout of its     *)
(* own).  BackSpec adds a user who does not leave a prompt alone for ever. *)
FairSpec == Spec /\ WF_vars(Program)
BackSpec == FairSpec /\ WF_vars(Back)

-----------------------------------------------------------------------------
(* Properties.                                                             *)

InExec == {"InferType", "TypeMenu", "Load", "ConfigMenu", "Boot", "Kexec"}

\* An image that came through the "Linux Distros" menu is executed only if
\* it is the one the distro's checksum is of, or the user said "Proceed
\* anyway?" after being told (displayChecksumPrompt).
Vetted ==
    pc \in InExec /\ label \in Distros =>
        consent \/ (label \in Summed /\ files[iso] = label)

\* A downloaded file that is handed to ISO.exec is all there: no path through
\* download()'s failures, cancelling or clean-up ends in the boot sequence.
DownloadComplete ==
    /\ pc \in InExec \cup {"Check", "Confirm"} /\ label # NoDistro =>
           files[iso] \in Images
    /\ pc = "Saving" => files[iso] = "part"

\* supportedDistros is replaced while menus show its old keys: a label chosen
\* from it is still a key of it wherever it is looked up again.
LabelsAreKeys ==
    /\ pc \in {"MirrorMenu", "Request", "Body", "Saving", "Check", "Confirm"} =>
           label \in table \cup {Other}
    /\ pc \in {"Load", "ConfigMenu", "Boot"} => distro \in table

\* However the user walks, the browser never shows a directory outside the
\* cache, and it walks only when there is one.
InsideCache ==
    pc \in {"ReadDir", "Browse"} => dir \in Inside /\ conf.cacheDir = Root

\* What is booted is what was chosen: at the jump the parameters name the
\* image whose configuration was loaded, not one an earlier ISO.exec left in
\* cacheDev, and that file exists.
ParamsOfThisIso ==
    pc \in {"Boot", "Kexec"} => params.iso = iso /\ files[iso] # "none"

\* However downloads fail, are cancelled or are cut off by a loss of power,
\* at once or later, an ISO outside the directory for downloads and /tmp is
\* never written, truncated, removed or lost: those the user put into the
\* cache stay.  And while the power is on, no file changes but the one that
\* is being downloaded.
OwnFileOnly ==
    [][\A f \in Isos : files'[f] # files[f] =>
        /\ f[1] \in {Downloaded, Tmp}
        /\ pc' # "Off" => pc \in {"Body", "Saving"} /\ f = iso]_vars

\* From wherever a user begins to only go back, he reaches the main menu (or
\* the program has ended): no prompt leads back to itself, and no work goes
\* on for ever.
BackingOut == <>[][~User]_vars => []<>(pc \in {"MainMenu"} \cup Ended)

(* Statements of the documentation and the comments that the code does not *)
(* keep.                                                                   *)

\* pkg/menu/menu.go: "User requested to exit the program."  Every prompt
\* shows "<Ctrl+d> to exit", and DisplayResult returns ExitRequest for it too.
ExitHonoured == exitAsked => pc \in {"Exit", "Fatal", "Off"}

\* cmds/webboot/Readme.md: "After the user decides on an ISO, boot it."  There
\* is at least one distro it could be booted as.
ChosenIsBootable == pc = "InferType" => table # {}

\* README.md, step 5: "parameters to tell the next distro where to locate its
\* ISO file".  The file lies on the device the parameters name, and they name
\* the file as it is called.
Locatable ==
    pc = "Kexec" => conf.stick /\ ~params.mangled
=============================================================================
