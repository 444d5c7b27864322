-------------------------- MODULE DownloadContract --------------------------
(***************************************************************************)
(* What one call download(URL, fPath, uiEvents) of cmds/webboot/utils.go   *)
(* promises, all of its steps left out: when it returns it has removed     *)
(* what it made outside fPath, or tried to; the file is the new one if it  *)
(* returns no error and the response told its length, as it was if it was  *)
(* canceled, and never the new one if it failed.                           *)
(*                                                                         *)
(* A loss of power cuts the call, or what follows it, short.  The call     *)
(* does not sync: a file it has begun may then be short even if the call   *)
(* had returned, and one it has not begun is as it was.                    *)
(***************************************************************************)
VARIABLES sized,   \* the response tells the length of its body
          file,    \* fPath: absent, the previous file, part of the new, the new,
                   \* or a new one cut short that was taken for whole
          litter,  \* what is outside fPath: nothing, a named file, memory held
                   \* without a name, a file that could not be removed
          outcome  \* "none" until the call returns; "cut" by a loss of power

contractVars == <<sized, file, litter, outcome>>

Files    == {"absent", "previous", "part", "new", "short"}
Outcomes == {"none", "ok", "failed", "canceled", "cut"}

Untouched == file \in {"absent", "previous"}

\* What may stand for the new file once it is written.
Complete == IF sized THEN {"new"} ELSE {"new", "short"}

ContractInit == sized \in BOOLEAN /\ Untouched /\ litter = "none" /\ outcome = "none"

\* A temporary file is made, or removed.
Litter ==
    /\ outcome = "none"
    /\ \/ litter = "none" /\ litter' = "named"
       \/ litter = "named" /\ litter' \in {"held", "stuck"}
    /\ UNCHANGED <<sized, file, outcome>>

\* Memory without a name is given back, before the return or later.
Free == litter = "held" /\ litter' = "none" /\ UNCHANGED <<sized, file, outcome>>

\* os.Create truncates whatever was there.
Begin ==
    /\ outcome = "none" /\ Untouched
    /\ file' = "part" /\ UNCHANGED <<sized, litter, outcome>>

\* All of the new file is written, or a part is removed.
Finish ==
    /\ outcome = "none" /\ file = "part"
    /\ file' \in Complete \cup {"absent"} /\ UNCHANGED <<sized, litter, outcome>>

Return ==
    /\ outcome = "none" /\ litter # "named"
    /\ \/ outcome' = "ok" /\ file \in Complete
       \/ outcome' = "canceled" /\ Untouched
       \/ outcome' = "failed" /\ file \notin Complete
    /\ UNCHANGED <<sized, file, litter>>

\* Memory is lost, and what the disk has not yet of the file.
Cut ==
    /\ outcome # "cut" /\ outcome' = "cut" /\ litter' = "none"
    /\ file' \in (IF Untouched THEN {file} ELSE {file, "absent", "part"})
    /\ UNCHANGED sized

ContractNext == Litter \/ Free \/ Begin \/ Finish \/ Return \/ Cut

ContractSpec == ContractInit /\ [][ContractNext]_contractVars

-----------------------------------------------------------------------------
\* A caller that sees no error finds the whole file if its length was known,
\* one that sees context.Canceled what was there before; neither finds a
\* temporary file whose removal was not tried.
Kept ==
    /\ outcome = "ok" => file = "new" \/ (file = "short" /\ ~sized)
    /\ outcome = "canceled" => Untouched
    /\ outcome # "none" => litter # "named"
=============================================================================
