---------------------------- MODULE Downloading ----------------------------
(***************************************************************************)
(* A download as the user sees it: download() of cmds/webboot/utils.go     *)
(* with its listener (Download), and the boxes it and main() draw meanwhile*)
(* (Progress), one after the other: the test of the network, the counter   *)
(* that io.Copy updates, and the animated box of the copy into the cache.  *)
(* The caller is one goroutine, so that a step of the download waits until *)
(* the box before it is closed.                                            *)
(***************************************************************************)
EXTENDS Naturals, Sequences

CONSTANTS Size, Keys, Esc, NoKey,      \* of Download
          Testing, Counting, Saving,   \* the texts of the three boxes
          NoText

ASSUME DownloadingAssumption ==
    /\ Size \in Nat
    /\ Esc \notin Keys /\ NoKey \notin Keys \cup {Esc}
    /\ NoText \notin {Testing, Counting, Saving}

VARIABLES pc, sized, sent, received, temp, file, outcome, ctx, listener, parked, offered,
          caller, animated, text, dots, anim, pText, counter, screen

D == INSTANCE Download
P == INSTANCE Progress WITH Texts <- {Testing, Counting, Saving}

call == <<pc, sized, sent, received, temp, file, outcome, ctx, listener, parked, offered>>
box  == <<caller, animated, text, dots, anim, pText, counter, screen>>
vars == <<call, box>>

Init == D!Init /\ P!Init

-----------------------------------------------------------------------------
(* The caller.                                                             *)

\* main(): NewProgress, connected() and Close; menus before and after.
TestNetwork ==
    /\ pc = "Do"
    /\ \/ P!NewProgress(Testing, TRUE)
       \/ P!Close
       \/ P!DrawOther
    /\ UNCHANGED call

\* The request is sent with no box on the screen.
Request ==
    /\ caller = "draw"
    /\ D!Do /\ UNCHANGED box

\* NewWriteCounter follows the listener.
StartCopy ==
    /\ D!TempFile
    /\ \/ pc' = "Copy" /\ P!NewProgress(Counting, FALSE)
       \/ pc' # "Copy" /\ UNCHANGED box

\* io.TeeReader: every block goes through WriteCounter.Write.
Block == D!CopyBlock /\ P!Update(Counting)

\* counter.Close() on both ways out of io.Copy.
CopyOver == (D!CopyEnd \/ D!CopyCanceled) /\ P!Close
CopyBreaks == D!CopyFailed /\ P!Close

CopyProgress ==
    /\ pc = "Create"
    /\ P!NewProgress(Saving, TRUE)
    /\ UNCHANGED call

IntoCache ==
    /\ caller = "work"
    /\ D!Create \/ D!Write
    /\ UNCHANGED box

\* Deferred: copyProgress.Close(), when there is such a box.
CloseProgress ==
    /\ pc = "Remove"
    /\ P!Close
    /\ UNCHANGED call

\* Deferred, after the box is closed: the temporary file, then the context.
Deferred ==
    /\ caller = "draw"
    /\ D!Remove \/ D!Cancel
    /\ UNCHANGED box

\* The confirmation is drawn, reads keys, and is drawn again.
Confirm ==
    \/ (D!Prompt \/ D!NextKey) /\ P!DrawOther
    \/ D!ReadKey /\ UNCHANGED box

EndClose == pc # "Dead" /\ P!Clear /\ UNCHANGED call

Caller == \/ StartCopy \/ Block \/ CopyOver \/ CopyProgress \/ IntoCache
          \/ CloseProgress \/ Deferred \/ Confirm \/ EndClose

-----------------------------------------------------------------------------
(* The other goroutines and the rest of the world.                         *)

Listener == D!Listener /\ UNCHANGED box
Animate  == pc # "Dead" /\ P!Animate /\ UNCHANGED call

World ==
    /\ D!Arrive \/ D!Collect \/ D!PowerLoss \/ (\E k \in Keys \cup {Esc} : D!Press(k))
    /\ UNCHANGED box

Next == TestNetwork \/ Request \/ Caller \/ CopyBreaks \/ Listener \/ Animate \/ World

Spec == Init /\ [][Next]_vars

(* The goroutines run on; the server, the user and the power owe nothing   *)
(* (net/http waits for the server as long as it takes).  select chooses    *)
(* among ready cases at random, so Done is not passed over for ever.       *)
FairSpec ==
    /\ Spec
    /\ WF_vars(Caller) /\ WF_vars(Listener) /\ WF_vars(Animate)
    /\ SF_vars(D!TakeDone /\ UNCHANGED box)

-----------------------------------------------------------------------------
(* Properties: those of the parts, of the whole, and two that need both.   *)

\* The types of both parts.
TypeOK == D!TypeOK /\ P!TypeOK

\* Download's: whatever the boxes do, the call is the abstract one.
Contract == D!Contract

\* Download's: the listener takes no key from the confirmation.
NoRival == D!NoRival

\* Progress's: no box of the download comes over a menu or the confirmation.
ScreenOwned == P!ScreenOwned

\* Progress's: no dots are left in a text.
DotsTakenBack == P!DotsTakenBack

\* "Press <Esc> to cancel.": <Escape> while the body is read has download()
\* return, even if the server has stalled, and the box that may be up by then
\* is closed: neither the deferred Close nor its goroutine waits for ever.
EscEndsCall ==
    pc = "Copy" /\ (offered = Esc \/ ctx = "done") ~> pc \in D!After \cup {"Dead"}

\* The listener does not outlive the download for ever, on any way out.
ListenerEnds == pc \in D!After ~> listener \in {"none", "end"}
=============================================================================
