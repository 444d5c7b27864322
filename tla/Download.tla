------------------------------ MODULE Download ------------------------------
(***************************************************************************)
(* download() and listenForCancel() of cmds/webboot/utils.go, with the     *)
(* prompt the caller shows next on the same key channel (the confirmation  *)
(* of displayChecksumPrompt).                                              *)
(*                                                                         *)
(* Three goroutines take part: the caller, the listener it starts, and     *)
(* ui.PollEvents' sender, which offers keys on an unbuffered channel.  The *)
(* channel is modelled as Go's is: a send goes to the receiver that has    *)
(* been parked longest; with none parked it waits, and the next receiver   *)
(* takes it.  A select with several ready cases takes any of them.         *)
(***************************************************************************)
EXTENDS Naturals, Sequences

CONSTANTS Size,   \* number of blocks in the body of the response
          Keys,   \* keys other than <Escape>
          Esc,    \* <Escape>
          NoKey

VARIABLES
    pc,        \* where the caller's goroutine is
    sized,     \* the response tells the length of its body
    sent,      \* blocks of the body that have arrived
    received,  \* blocks io.Copy has read
    temp,      \* the temporary file: its contents, or what is left of it
    file,      \* fPath
    outcome,   \* the error value, once determined
    ctx,       \* "live" or "done"
    listener,  \* "none", "run" (about to select), "parked", "end"
    parked,    \* receivers parked on uiEvents, oldest first
    offered    \* the key PollEvents' sender is blocked on

vars == <<pc, sized, sent, received, temp, file, outcome, ctx, listener, parked, offered>>

\* Ask: the prompt is about to read; Wait: it is parked; Key: it has a key.
InCall == {"Do", "Temp", "Copy", "Create", "Write", "Remove", "Cancel"}
After  == {"Return", "Ask", "Wait", "Key"}

\* The temporary file under its name: being filled, taken for the whole body
\* and that, taken for it and cut short.
Named == {"part", "whole", "short"}

\* The contract speaks of what the caller is told and finds outside fPath: the
\* error value counts from the return on, a dead machine returns nothing.
C == INSTANCE DownloadContract WITH
        litter  <- IF temp \in Named THEN "named" ELSE temp,
        outcome <- IF pc = "Dead" THEN "cut" ELSE IF pc \in After THEN outcome ELSE "none"

TypeOK ==
    /\ pc \in InCall \cup After \cup {"Dead"}
    /\ sized \in BOOLEAN /\ sent \in 0..Size /\ received \in 0..Size
    /\ temp \in Named \cup {"none", "held", "stuck"}
    /\ file \in C!Files /\ outcome \in {"none", "ok", "failed", "canceled"}
    /\ ctx \in {"live", "done"}
    /\ listener \in {"none", "run", "parked", "end"}
    /\ parked \in {<<>>, <<"listener">>, <<"prompt">>,
                  <<"listener", "prompt">>, <<"prompt", "listener">>}
    /\ offered \in Keys \cup {Esc, NoKey}

Init ==
    /\ pc = "Do" /\ sized \in BOOLEAN /\ sent = 0 /\ received = 0
    /\ temp = "none" /\ file \in {"absent", "previous"} /\ outcome = "none"
    /\ ctx = "live" /\ listener = "none" /\ parked = <<>> /\ offered = NoKey

net  == <<sized, sent, received>>
keys == <<listener, parked, offered>>

-----------------------------------------------------------------------------
(* The caller.                                                             *)

\* http.DefaultClient.Do: a response, or an error, or a status other than 200.
Do ==
    /\ pc = "Do"
    /\ \/ pc' = "Temp" /\ UNCHANGED outcome
       \/ pc' = "Cancel" /\ outcome' = "failed"
    /\ UNCHANGED <<net, temp, file, ctx, keys>>

\* ioutil.TempFile, then go listenForCancel.
TempFile ==
    /\ pc = "Temp"
    /\ \/ /\ pc' = "Copy" /\ temp' = "part" /\ listener' = "run"
          /\ UNCHANGED outcome
       \/ /\ pc' = "Cancel" /\ outcome' = "failed"
          /\ UNCHANGED <<temp, listener>>
    /\ UNCHANGED <<net, file, ctx, parked, offered>>

\* Mutant: the read does not wait for data.
CopyBlockEager ==
    /\ pc = "Copy"
    /\ received' = received + 1
    /\ UNCHANGED <<pc, sized, sent, temp, file, outcome, ctx, keys>>

\* io.Copy moves a block that has arrived; data already here is read even
\* after the context is done.
CopyBlock ==
    /\ pc = "Copy" /\ received < sent
    /\ received' = received + 1
    /\ UNCHANGED <<pc, sized, sent, temp, file, outcome, ctx, keys>>

\* io.Copy takes any EOF for the end of the body.  net/http tells an early one
\* by the length, and without one, not at all.
CopyEnd ==
    /\ pc = "Copy"
    /\ \/ received = Size /\ temp' = "whole"
       \/ received = sent /\ sent < Size /\ ~sized /\ temp' = "short"
    /\ pc' = "Create"
    /\ UNCHANGED <<net, file, outcome, ctx, keys>>

\* The read fails because of the context.
CopyCanceled ==
    /\ pc = "Copy" /\ ctx = "done"
    /\ pc' = "Remove" /\ outcome' = "canceled"
    /\ UNCHANGED <<net, temp, file, ctx, keys>>

\* The connection breaks, or the temporary file system is full.
CopyFailed ==
    /\ pc = "Copy"
    /\ pc' = "Remove" /\ outcome' = "failed"
    /\ UNCHANGED <<net, temp, file, ctx, keys>>

\* Seek and os.Create.
Create ==
    /\ pc = "Create"
    /\ \/ pc' = "Write" /\ file' = "part" /\ UNCHANGED outcome
       \/ pc' = "Remove" /\ outcome' = "failed" /\ UNCHANGED file
    /\ UNCHANGED <<net, temp, ctx, keys>>

\* Mutant: the error of the copy to fPath is dropped.
WriteUnchecked ==
    /\ pc = "Write"
    /\ pc' = "Remove"
    /\ file' \in {"absent", "part", IF temp = "whole" THEN "new" ELSE "short"}
    /\ outcome' = "ok"
    /\ UNCHANGED <<net, temp, ctx, keys>>

\* The copy to fPath; on an error os.RemoveAll, which may fail unseen.
Write ==
    /\ pc = "Write"
    /\ pc' = "Remove"
    /\ \/ file' = (IF temp = "whole" THEN "new" ELSE "short") /\ outcome' = "ok"
       \/ file' \in {"absent", "part"} /\ outcome' = "failed"
    /\ UNCHANGED <<net, temp, ctx, keys>>

\* Deferred: os.Remove(tempFile.Name()), whose error is not looked at.  The
\* file is not closed, and without a name its memory is still held.
Remove ==
    /\ pc = "Remove"
    /\ pc' = "Cancel" /\ temp' \in {"held", "stuck"}
    /\ UNCHANGED <<net, file, outcome, ctx, keys>>

\* The garbage collector closes what nobody refers to, some day.
Collect ==
    /\ temp = "held"
    /\ temp' = "none"
    /\ UNCHANGED <<pc, net, file, outcome, ctx, keys>>

\* The queue without receiver r, which is in it (and at most one other is).
Without(r) == IF Head(parked) = r THEN Tail(parked) ELSE <<Head(parked)>>

\* Closing the context ends a parked listener: its select has taken Done.
Cancelled ==
    /\ ctx' = "done"
    /\ \/ listener = "parked" /\ listener' = "end" /\ parked' = Without("listener")
       \/ listener # "parked" /\ UNCHANGED <<listener, parked>>

\* Mutant: without the deferred cancel().
CancelMissing ==
    /\ pc = "Cancel"
    /\ pc' = "Return"
    /\ UNCHANGED <<net, temp, file, outcome, ctx, keys>>

\* Deferred last: cancel().  download() returns.
Cancel ==
    /\ pc = "Cancel"
    /\ pc' = "Return" /\ Cancelled
    /\ UNCHANGED <<net, temp, file, outcome, offered>>

\* The caller shows the confirmation; it reads keys from the same channel.
Prompt ==
    /\ pc = "Return" /\ outcome = "ok"
    /\ pc' = "Ask"
    /\ UNCHANGED <<net, temp, file, outcome, ctx, keys>>

\* readKey: take the key a sender is blocked on, or park.
ReadKey ==
    /\ pc = "Ask"
    /\ \/ /\ offered # NoKey
          /\ pc' = "Key" /\ offered' = NoKey /\ UNCHANGED parked
       \/ /\ offered = NoKey
          /\ pc' = "Wait" /\ parked' = Append(parked, "prompt") /\ UNCHANGED offered
    /\ UNCHANGED <<net, temp, file, outcome, ctx, listener>>

\* The prompt handles the key and goes on reading.
NextKey ==
    /\ pc = "Key"
    /\ pc' = "Ask"
    /\ UNCHANGED <<net, temp, file, outcome, ctx, keys>>

-----------------------------------------------------------------------------
(* The listener.                                                           *)

\* Mutant: <Escape> ends the listener but does not cancel.
HeardOnly(k) ==
    IF k = Esc THEN listener' = "end" /\ UNCHANGED ctx
               ELSE listener' = "run" /\ UNCHANGED ctx

\* What the listener does with a key: <Escape> cancels and ends it.
Heard(k) ==
    IF k = Esc THEN listener' = "end" /\ ctx' = "done"
               ELSE listener' = "run" /\ UNCHANGED ctx

TakeKey ==
    /\ listener = "run" /\ offered # NoKey
    /\ Heard(offered) /\ offered' = NoKey
    /\ UNCHANGED <<pc, net, temp, file, outcome, parked>>

TakeDone ==
    /\ listener = "run" /\ ctx = "done"
    /\ listener' = "end"
    /\ UNCHANGED <<pc, net, temp, file, outcome, ctx, parked, offered>>

Park ==
    /\ listener = "run" /\ offered = NoKey /\ ctx = "live"
    /\ listener' = "parked" /\ parked' = Append(parked, "listener")
    /\ UNCHANGED <<pc, net, temp, file, outcome, ctx, offered>>

-----------------------------------------------------------------------------
(* The user, the network, the power.                                       *)

\* A key reaches PollEvents, which sends it on the channel.
Press(k) ==
    /\ pc # "Dead" /\ offered = NoKey
    /\ \/ /\ parked = <<>>
          /\ offered' = k
          /\ UNCHANGED <<pc, ctx, listener, parked>>
       \/ /\ parked # <<>> /\ Head(parked) = "listener"
          /\ parked' = Tail(parked) /\ Heard(k)
          /\ UNCHANGED <<pc, offered>>
       \/ /\ parked # <<>> /\ Head(parked) = "prompt"
          /\ parked' = Tail(parked) /\ pc' = "Key"
          /\ UNCHANGED <<ctx, listener, offered>>
    /\ UNCHANGED <<net, temp, file, outcome>>

Arrive ==
    /\ pc = "Copy" /\ sent < Size
    /\ sent' = sent + 1
    /\ UNCHANGED <<pc, sized, received, temp, file, outcome, ctx, keys>>

\* Memory and /tmp are lost, and what has not reached the disk of a file that
\* was closed without Sync (os.Create's truncation is taken to reach it).
PowerLoss ==
    /\ pc # "Dead"
    /\ pc' = "Dead" /\ listener' = "end" /\ parked' = <<>> /\ offered' = NoKey
    /\ temp' = "none"
    /\ file' \in (IF C!Untouched THEN {file} ELSE {file, "absent", "part"})
    /\ UNCHANGED <<net, outcome, ctx>>

-----------------------------------------------------------------------------
Caller == \/ TempFile \/ CopyBlock \/ CopyEnd \/ CopyCanceled
          \/ Create \/ Write \/ Remove \/ Cancel \/ Prompt \/ ReadKey \/ NextKey

Listener == TakeKey \/ TakeDone \/ Park

Outside == \/ Do \/ CopyFailed \/ Arrive \/ Collect \/ PowerLoss
           \/ \E k \in Keys \cup {Esc} : Press(k)

Next == Caller \/ Listener \/ Outside

Spec == Init /\ [][Next]_vars

-----------------------------------------------------------------------------
(* Properties.                                                             *)

\* Seen from fPath, the temporary file and the returned error, the call is the
\* abstract one: an <Escape> at any moment, a broken connection or a full disk
\* never yields a touched file with Canceled, a temporary file that nobody
\* tried to remove, or success with part of a file -- but for a body cut short
\* that told no length.  A power loss harms no file that was not begun.
Contract == C!ContractSpec

\* /tmp is in memory: no way out of download() leaves the temporary file there,
\* unless its removal was tried and failed.
TempGone == pc \in After => temp \notin Named

\* The listener never competes with the confirmation that follows on the same
\* channel: a key typed while the prompt waits is the prompt's.
NoRival == pc = "Wait" => parked = <<"prompt">>
=============================================================================
