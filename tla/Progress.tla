------------------------------ MODULE Progress ------------------------------
(***************************************************************************)
(* menu.Progress (pkg/menu/menu.go): a box "Operation Running" that a      *)
(* goroutine of its own redraws once a second while the caller works, and  *)
(* the rendezvous by which Close stops it.                                 *)
(*                                                                         *)
(* The caller is used as cmds/webboot uses it: NewProgress, work, Close,   *)
(* then something else is drawn, again and again.  Both channels are       *)
(* unbuffered, so a send is over when the other side has received.  A box  *)
(* that is not animated has no goroutine, and its caller updates the text. *)
(***************************************************************************)
EXTENDS Naturals

CONSTANTS Texts,   \* texts the callers give
          NoText

VARIABLES
    caller,    \* "draw", "work", "sigTerm", "ackTerm", "clear"
    animated,  \* Progress.animated
    text,      \* paragraph.Text, without the dots animate() puts behind
    dots,      \* the dots in paragraph.Text
    anim,      \* the goroutine: "none", "select", "sleep", "restore", "ack"
    pText,     \* its local copy of the text: <<text, dots>>
    counter,   \* its counter, modulo 4
    screen     \* what was rendered last: "other", "box" or "clear"

vars == <<caller, animated, text, dots, anim, pText, counter, screen>>

TypeOK ==
    /\ caller \in {"draw", "work", "sigTerm", "ackTerm", "clear"}
    /\ animated \in BOOLEAN
    /\ text \in Texts \cup {NoText} /\ dots \in 0..3
    /\ anim \in {"none", "select", "sleep", "restore", "ack"}
    /\ pText \in (Texts \cup {NoText}) \X (0..3)
    /\ counter \in 0..3
    /\ screen \in {"other", "box", "clear"}

Init ==
    /\ caller = "draw" /\ animated = FALSE /\ text = NoText /\ dots = 0
    /\ anim = "none" /\ pText = <<NoText, 0>> /\ counter = 0
    /\ screen = "other"

-----------------------------------------------------------------------------
(* The caller.                                                             *)

\* A prompt or a result is drawn between two operations.
DrawOther ==
    /\ caller = "draw"
    /\ screen' = "other"
    /\ UNCHANGED <<caller, animated, text, dots, anim, pText, counter>>

\* NewProgress renders the box, and starts animate() if asked to.
NewProgress(t, a) ==
    /\ caller = "draw"
    /\ caller' = "work" /\ animated' = a
    /\ text' = t /\ dots' = 0 /\ screen' = "box"
    /\ anim' = IF a THEN "select" ELSE "none"
    /\ counter' = 0 /\ pText' = <<NoText, 0>>

\* Progress.Update: WriteCounter.Write, on boxes that are not animated.
Update(t) ==
    /\ caller = "work" /\ ~animated
    /\ text' = t /\ dots' = 0 /\ screen' = "box"
    /\ UNCHANGED <<caller, animated, anim, pText, counter>>

\* Mutant: Close only clears the screen, as for a box that is not animated.
CloseUnsignalled ==
    /\ caller = "work"
    /\ caller' = "clear"
    /\ UNCHANGED <<animated, text, dots, anim, pText, counter, screen>>

\* Close: an animated box sends sigTerm and waits for ackTerm first.
Close ==
    /\ caller = "work"
    /\ caller' = IF animated THEN "sigTerm" ELSE "clear"
    /\ UNCHANGED <<animated, text, dots, anim, pText, counter, screen>>

Clear ==
    /\ caller = "clear"
    /\ caller' = "draw" /\ screen' = "clear"
    /\ UNCHANGED <<animated, text, dots, anim, pText, counter>>

-----------------------------------------------------------------------------
(* animate().                                                              *)

\* select: the caller's send is received if it is there.
ReceiveSigTerm ==
    /\ anim = "select" /\ caller = "sigTerm"
    /\ anim' = "ack" /\ caller' = "ackTerm"
    /\ UNCHANGED <<animated, text, dots, pText, counter, screen>>

SendAckTerm ==
    /\ anim = "ack" /\ caller = "ackTerm"
    /\ anim' = "none" /\ caller' = "clear"
    /\ UNCHANGED <<animated, text, dots, pText, counter, screen>>

\* select: default, with no send to receive.
Sleep ==
    /\ anim = "select" /\ caller # "sigTerm"
    /\ anim' = "sleep"
    /\ UNCHANGED <<caller, animated, text, dots, pText, counter, screen>>

\* A second later: keep the text, put the dots behind it and render.
Redraw ==
    /\ anim = "sleep"
    /\ anim' = "restore"
    /\ pText' = <<text, dots>>
    /\ dots' = (dots + counter) % 4
    /\ screen' = "box"
    /\ UNCHANGED <<caller, animated, text, counter>>

\* Mutant: the dots stay in the text.
RestoreMissing ==
    /\ anim = "restore"
    /\ anim' = "select"
    /\ counter' = (counter + 1) % 4
    /\ UNCHANGED <<caller, animated, text, dots, pText, screen>>

\* Take the dots away again.
Restore ==
    /\ anim = "restore"
    /\ anim' = "select"
    /\ text' = pText[1] /\ dots' = pText[2]
    /\ counter' = (counter + 1) % 4
    /\ UNCHANGED <<caller, animated, pText, screen>>

-----------------------------------------------------------------------------
Animate == ReceiveSigTerm \/ SendAckTerm \/ Sleep \/ Redraw \/ Restore

Next == \/ \E t \in Texts, a \in BOOLEAN : NewProgress(t, a)
        \/ \E t \in Texts : Update(t)
        \/ DrawOther \/ Close \/ Clear \/ Animate

Spec == Init /\ [][Next]_vars

-----------------------------------------------------------------------------
(* Properties.                                                             *)

\* After Close has returned the screen is the caller's: no redraw of the box
\* comes over a prompt, and no goroutine of an earlier box is left.
ScreenOwned ==
    /\ caller = "draw" => screen # "box"
    /\ caller \in {"draw", "clear"} => anim = "none"

\* The dots are taken back after each redraw, so they cannot pile up in the
\* text, and stopping never leaves them behind.
DotsTakenBack ==
    /\ anim # "restore" => dots = 0
    /\ anim = "restore" => pText = <<text, 0>>
=============================================================================
