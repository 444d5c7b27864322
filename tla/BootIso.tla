------------------------------ MODULE BootIso ------------------------------
(***************************************************************************)
(* pkg/bootiso as ISO.exec uses it: ParseConfigFromISO and                 *)
(* LoadCustomConfigs make boot images of an ISO that is mounted meanwhile, *)
(* BootCachedISO loads the chosen one into the kernel and jumps.           *)
(*                                                                         *)
(* A session runs ISO.exec again and again: an error leads back to a menu. *)
(* Files are told apart by the ISO and the path they come from.  The       *)
(* parsers of u-root, the loop device and kexec are external.              *)
(***************************************************************************)
EXTENDS Naturals

CONSTANTS Isos, Paths,
          Parsed,   \* ISOs of distros with a BootConfig to parse
          Count,    \* ISO -> number of its CustomConfigs
          Kernel,   \* ISO -> number of a config -> KernelPath
          Initrd,   \* ISO -> number of a config -> InitrdPath
          NoIso

Numbers(x) == 1..Count[x]

ASSUME BootAssumption ==
    /\ Parsed \subseteq Isos /\ NoIso \notin Isos
    /\ Count \in [Isos -> Nat]
    /\ \A x \in Isos : /\ Kernel[x] \in [Numbers(x) -> Paths]
                       /\ Initrd[x] \in [Numbers(x) -> Paths]

VARIABLES
    pc,       \* the step the session is in
    command,  \* /sbin/kexec exists
    iso,      \* the ISO being executed
    mounted,  \* the ISO LoadCustomConfigs has mounted
    open,     \* paths it has opened below the mount point
    copied,   \* path -> its temporary copy
    num,      \* the number of the config being copied
    failed,   \* it will return an error
    images,   \* the boot images made so far
    image,    \* the image to boot
    loaded    \* the image in the kernel's kexec slot

load == <<mounted, open, copied, num, failed>>
vars == <<pc, command, iso, load, images, image, loaded>>

Files   == Isos \X Paths
NoFile  == <<NoIso, NoIso>>
NoImage == [label |-> 0, kernel |-> NoFile, initrd |-> NoFile]

Image(i, k, f) == [label |-> i, kernel |-> k, initrd |-> f]

\* Labels number the custom configs; a parsed one has label 0.
Images == [label : Nat, kernel : Files, initrd : Files]

Steps == {"idle", "parse", "mount", "kernel", "initrd", "close", "unmount",
          "menu", "stat", "command", "load", "reboot", "fatal", "jumped"}

TypeOK ==
    /\ pc \in Steps /\ command \in BOOLEAN
    /\ iso \in Isos \cup {NoIso} /\ mounted \in Isos \cup {NoIso}
    /\ open \subseteq Paths
    /\ copied \in [Paths -> Files \cup {NoFile}]
    /\ num \in Nat /\ failed \in BOOLEAN
    /\ images \subseteq Images
    /\ image \in Images \cup {NoImage} /\ loaded \in Images \cup {NoImage}

NoCopies == [p \in Paths |-> NoFile]

Init ==
    /\ pc = "idle" /\ command \in BOOLEAN
    /\ iso = NoIso /\ mounted = NoIso /\ open = {} /\ copied = NoCopies
    /\ num = 0 /\ failed = FALSE /\ images = {}
    /\ image = NoImage /\ loaded = NoImage

-----------------------------------------------------------------------------
(* ISO.exec up to its menu of images.                                      *)

\* After the BootConfig, and after the CustomConfigs.
AfterParse(x)  == IF Count[x] # 0 THEN "mount" ELSE "menu"
AfterCustom(s) == IF s = {} THEN "idle" ELSE "menu"

Exec ==
    /\ pc = "idle"
    /\ \E x \in Isos :
          /\ iso' = x
          /\ pc' = IF x \in Parsed THEN "parse"
                   ELSE IF Count[x] # 0 THEN "mount" ELSE "idle"
    /\ images' = {} /\ image' = NoImage
    /\ UNCHANGED <<command, load, loaded>>

\* ParseConfigFromISO mounts, parses, and unmounts as best it can.  The
\* parser returns the images its files name; none is not an error.
ParseConfigFromISO ==
    /\ pc = "parse"
    /\ \/ pc' = "idle" /\ UNCHANGED images
       \/ /\ \E k, f \in Paths : images' = {Image(0, <<iso, k>>, <<iso, f>>)}
          /\ pc' = AfterParse(iso)
       \/ /\ images' = {}
          /\ pc' = IF Count[iso] # 0 THEN "mount" ELSE "idle"
    /\ UNCHANGED <<command, iso, load, image, loaded>>

-----------------------------------------------------------------------------
(* LoadCustomConfigs.                                                      *)

\* Mutant: the map of copies outlives the call.
MountKeepingCopies ==
    /\ pc = "mount"
    /\ mounted' = iso /\ open' = {} /\ num' = 1 /\ failed' = FALSE
    /\ pc' = "kernel"
    /\ UNCHANGED <<command, iso, copied, images, image, loaded>>

\* TempDir, loop.New and Mount; their errors return before the deferred
\* clean-up is set up.
Mount ==
    /\ pc = "mount"
    /\ \/ /\ mounted' = iso /\ open' = {} /\ copied' = NoCopies
          /\ num' = 1 /\ failed' = FALSE /\ pc' = "kernel"
       \/ pc' = "idle" /\ UNCHANGED load
    /\ UNCHANGED <<command, iso, images, image, loaded>>

\* Mutant: an error returns as it does before the clean-up is deferred.
CopyWithoutCleanUp(p, next) ==
    \/ /\ copied[p] = NoFile
       /\ copied' = [copied EXCEPT ![p] = <<mounted, p>>]
       /\ open' = open \cup {p}
       /\ pc' = next /\ UNCHANGED failed
    \/ /\ copied[p] # NoFile
       /\ pc' = next /\ UNCHANGED <<open, copied, failed>>
    \/ /\ copied[p] = NoFile
       /\ pc' = "idle" /\ failed' = TRUE /\ UNCHANGED <<open, copied>>

\* Open, TempFile, Copy and Seek, unless there is a copy of this path; an
\* error returns, with or without the file being open.
Copy(p, next) ==
    \/ /\ copied[p] = NoFile
       /\ copied' = [copied EXCEPT ![p] = <<mounted, p>>]
       /\ open' = open \cup {p}
       /\ pc' = next /\ UNCHANGED failed
    \/ /\ copied[p] # NoFile
       /\ pc' = next /\ UNCHANGED <<open, copied, failed>>
    \/ /\ copied[p] = NoFile
       /\ open' \in {open, open \cup {p}}
       /\ pc' = "close" /\ failed' = TRUE /\ UNCHANGED copied

CopyKernel ==
    /\ pc = "kernel"
    /\ Copy(Kernel[iso][num], "initrd")
    /\ UNCHANGED <<command, iso, mounted, num, images, image, loaded>>

Last == num = Count[iso]

\* Mutant: the image is made of what was copied before.
CopyInitrdLate ==
    /\ pc = "initrd"
    /\ Copy(Initrd[iso][num], IF Last THEN "close" ELSE "kernel")
    /\ \/ failed' /\ UNCHANGED <<images, num>>
       \/ /\ ~failed'
          /\ images' = images \cup {Image(num, copied[Kernel[iso][num]],
                                               copied[Initrd[iso][num]])}
          /\ num' = num + 1
    /\ UNCHANGED <<command, iso, mounted, image, loaded>>

\* The initrd, and the image made of both.
CopyInitrd ==
    /\ pc = "initrd"
    /\ Copy(Initrd[iso][num], IF Last THEN "close" ELSE "kernel")
    /\ \/ failed' /\ UNCHANGED <<images, num>>
       \/ /\ ~failed'
          /\ images' = images \cup {Image(num, copied'[Kernel[iso][num]],
                                               copied'[Initrd[iso][num]])}
          /\ num' = num + 1
    /\ UNCHANGED <<command, iso, mounted, image, loaded>>

\* Deferred: close the files of the ISO (the copies stay open),
CloseFiles ==
    /\ pc = "close"
    /\ open' = {} /\ pc' = "unmount"
    /\ UNCHANGED <<command, iso, mounted, copied, num, failed, images, image, loaded>>

\* then unmount it and remove the directory, with log.Fatal for each error.
Unmount ==
    /\ pc = "unmount"
    /\ \/ /\ open = {} /\ mounted' = NoIso
          /\ pc' = IF failed THEN "idle" ELSE AfterCustom(images)
       \/ pc' = "fatal" /\ mounted' \in {mounted, NoIso}
    /\ UNCHANGED <<command, iso, open, copied, num, failed, images, image, loaded>>

-----------------------------------------------------------------------------
(* The menu of images, and BootCachedISO.                                  *)

ChooseConfig ==
    /\ pc = "menu"
    /\ \/ image' \in images /\ pc' = "stat"
       \/ pc' = "idle" /\ UNCHANGED image     \* back, or a template error
    /\ UNCHANGED <<command, iso, load, images, loaded>>

\* os.Stat of /sbin/kexec; an error (no such file) takes the command.
Stat ==
    /\ pc = "stat"
    /\ pc' = IF command THEN "load" ELSE "command"
    /\ UNCHANGED <<command, iso, load, images, image, loaded>>

\* cmdKexecLoad copies kernel and initrd and runs /sbin/kexec.  There is
\* none, so that nothing behind its error return is reached.
CmdKexecLoad ==
    /\ pc = "command"
    /\ pc' = "idle"
    /\ UNCHANGED <<command, iso, load, images, image, loaded>>

\* Mutant: the error of Load is not returned.
LoadIgnoringError ==
    /\ pc = "load"
    /\ pc' = "reboot" /\ loaded' \in {image, loaded}
    /\ UNCHANGED <<command, iso, load, images, image>>

\* LinuxImage.Load: kexec_file_load, which replaces what is loaded.
Load ==
    /\ pc = "load"
    /\ \/ pc' = "reboot" /\ loaded' = image
       \/ pc' = "idle" /\ UNCHANGED loaded
    /\ UNCHANGED <<command, iso, load, images, image>>

\* kexec.Reboot jumps into what is loaded, or fails; then it stays loaded.
Reboot ==
    /\ pc = "reboot"
    /\ pc' \in {"jumped", "idle"}
    /\ UNCHANGED <<command, iso, load, images, image, loaded>>

-----------------------------------------------------------------------------
Next == \/ Exec \/ ParseConfigFromISO \/ Mount \/ CopyKernel \/ CopyInitrd
        \/ CloseFiles \/ Unmount \/ ChooseConfig \/ Stat \/ CmdKexecLoad
        \/ Load \/ Reboot

Spec == Init /\ [][Next]_vars

-----------------------------------------------------------------------------
(* Properties.                                                             *)

OfItsFiles ==
    \A m \in images :
        /\ m.kernel[1] = iso /\ m.initrd[1] = iso
        /\ m.label # 0 =>
              /\ m.label \in Numbers(iso)
              /\ m = Image(m.label, <<iso, Kernel[iso][m.label]>>,
                                   <<iso, Initrd[iso][m.label]>>)

Made(i) == \E m \in images : m.label = i

\* Every image is made of files of the ISO being executed, and a custom one
\* of the files its own config names, although copies are shared between
\* configs and one ISO follows another; and the menu offers one for each
\* config, although every copy may fail.
OwnFiles == OfItsFiles /\ (pc = "menu" => \A i \in Numbers(iso) : Made(i))

\* The jump is into the image chosen last: one that stayed loaded from an
\* earlier attempt is never booted in its place.
JumpsIntoChosen == pc = "jumped" => loaded = image /\ image \in images

\* LoadCustomConfigs leaves nothing mounted on any way out, and has closed
\* what it opened below the mount point before it unmounts: else the unmount
\* fails, and with it the program.
NothingMounted ==
    /\ pc = "unmount" => open = {}
    /\ pc \in {"idle", "parse", "mount", "menu", "stat", "command", "load", "reboot",
               "jumped"} => mounted = NoIso

(* A comment the code does not keep.                                       *)

\* "We prefer to use the kexec command for now, if possible".
PrefersCommand == pc = "load" => ~command
=============================================================================
