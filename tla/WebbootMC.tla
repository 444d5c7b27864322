----------------------------- MODULE WebbootMC -----------------------------
(***************************************************************************)
(* A small installation for TLC: a distro with a checksum and two mirrors, *)
(* one without a checksum whose pattern also matches the first one's file  *)
(* (as CorePure64 does in distros.json), one file name nothing matches,    *)
(* and a cache of three directories inside a parent that is no cache.      *)
(***************************************************************************)
EXTENDS Webboot
CONSTANTS arch, core, a, b, up, images, sub, dl, tmp

MCDistros == {arch, core}
MCNames   == {a, b}
MCMirrors == [d \in MCDistros |-> IF d = arch THEN {a, b} ELSE {a}]
MCMatches == {<<arch, a>>, <<core, a>>}
MCDirs    == {up, images, sub, dl}
MCInside  == {images, sub, dl}
MCParent  == [d \in MCDirs |-> IF d \in {sub, dl} THEN images ELSE up]
MCConfs   == {[cacheDir |-> images, stick |-> TRUE,  network |-> TRUE,  dryRun |-> FALSE],
              [cacheDir |-> images, stick |-> FALSE, network |-> FALSE, dryRun |-> TRUE],
              [cacheDir |-> NoDir,  stick |-> FALSE, network |-> TRUE,  dryRun |-> FALSE]}
\* -dryrun only takes ways away, and nothing but Locatable asks for the stick:
\* what the second one does, the first one does too.
BootConfs  == {c \in MCConfs : ~c.dryRun}
StickConfs == {c \in MCConfs : c.stick}
MCStored  == {<<sub, b>>}
MCSpecial == {f \in (MCDirs \cup {Tmp}) \X MCNames : f[1] = sub \/ f[2] = b}
=============================================================================
