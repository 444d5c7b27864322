------------------------------ MODULE Prompts ------------------------------
(***************************************************************************)
(* The prompts of pkg/menu besides the menu: PromptTextInput with          *)
(* processInput, DisplayResult and PromptConfirmation, shown one after the *)
(* other as cmds/webboot does.                                             *)
(*                                                                         *)
(* Of the keys, processInput cares about "alphabets and digits" (Chars),   *)
(* each one byte long; any other key is a special one, and so is "<", the  *)
(* character all special keys begin with.                                  *)
(***************************************************************************)
EXTENDS Integers, Sequences, SequencesExt

CONSTANTS Chars,     \* characters, "<Space>" among them
          Checks,    \* of isValid: the lines each accepts
          Width,     \* characters the input box shows (wid-3, 77)
          MaxTyped,  \* bound on the length of a line
          Lengths,   \* numbers of lines of a message, after wrapping
          Height     \* resultHeight (20)

VARIABLES
    prompt,   \* the prompt on the screen
    answer,   \* what the last prompt returned
    accepts,  \* the lines isValid accepts
    full,     \* fullText
    shown,    \* input.Text
    typed,    \* history: what was typed since the box was empty
    n,        \* msgLength
    first,    \* the message is shown from first to last-1
    last,
    entry,    \* entry.Text of a confirmation
    pressed   \* history: the key that decided entry

line  == <<accepts, full, shown, typed>>
page  == <<n, first, last>>
reply == <<entry, pressed>>
vars  == <<prompt, answer, line, page, reply>>

Answers == {"none", "back", "exit", "yes", "no", "ok", "line"}

TypeOK ==
    /\ prompt \in {"none", "text", "result", "confirm"} /\ answer \in Answers
    /\ accepts \in Checks
    /\ full \in Seq(Chars) /\ shown \in Seq(Chars) /\ typed \in Seq(Chars)
    /\ n \in Lengths /\ first \in Nat /\ last \in Nat
    /\ entry \in {"", "0", "1"} /\ pressed \in {"", "0", "1"}

Init ==
    /\ prompt = "none" /\ answer = "none"
    /\ accepts \in Checks /\ full = <<>> /\ shown = <<>> /\ typed = <<>>
    /\ n \in Lengths /\ first = 0 /\ last = 0
    /\ entry = "" /\ pressed = ""

Lesser(i, j)  == IF i < j THEN i ELSE j
Greater(i, j) == IF i > j THEN i ELSE j

\* <Escape> and <Ctrl+d>, in every prompt.
Leave ==
    /\ prompt # "none" /\ prompt' = "none"
    /\ answer' \in {"back", "exit"}
    /\ UNCHANGED <<line, page, reply>>

-----------------------------------------------------------------------------
(* PromptTextInput.                                                        *)

\* The part of a text that fits into the box.
Fits(s) == SubSeq(s, Greater(0, Len(s) - Width) + 1, Len(s))

OpenText ==
    /\ prompt = "none" /\ prompt' = "text" /\ answer' = "none"
    /\ accepts' \in Checks
    /\ full' = <<>> /\ shown' = <<>> /\ typed' = <<>>
    /\ UNCHANGED <<page, reply>>

Type(c) ==
    /\ prompt = "text" /\ Len(full) < MaxTyped
    /\ full' = Append(full, c) /\ shown' = Fits(full') /\ typed' = Append(typed, c)
    /\ UNCHANGED <<prompt, answer, accepts, page, reply>>

\* Mutant: the box is cut by a character, and not filled from the left.
BackspaceShown ==
    /\ prompt = "text" /\ shown # <<>>
    /\ full' = Front(full) /\ shown' = Front(shown)
    /\ typed' = IF typed = <<>> THEN <<>> ELSE Front(typed)
    /\ UNCHANGED <<prompt, answer, accepts, page, reply>>

\* The guard looks at the box; it is the text that is cut.
Backspace ==
    /\ prompt = "text" /\ shown # <<>>
    /\ full' = SubSeq(full, 1, Len(full) - 1) /\ shown' = Fits(full')
    /\ typed' = IF typed = <<>> THEN <<>> ELSE Front(typed)
    /\ UNCHANGED <<prompt, answer, accepts, page, reply>>

Accept ==
    /\ prompt = "text" /\ full \in accepts
    /\ prompt' = "none" /\ answer' = "line"
    /\ UNCHANGED <<line, page, reply>>

\* Mutant: only the box is emptied.
RefuseShown ==
    /\ prompt = "text" /\ full \notin accepts
    /\ shown' = <<>> /\ typed' = <<>>
    /\ UNCHANGED <<prompt, answer, accepts, full, page, reply>>

Refuse ==
    /\ prompt = "text" /\ full \notin accepts
    /\ full' = <<>> /\ shown' = <<>> /\ typed' = <<>>
    /\ UNCHANGED <<prompt, answer, accepts, page, reply>>

-----------------------------------------------------------------------------
(* DisplayResult.                                                          *)

OpenResult ==
    /\ prompt = "none" /\ prompt' = "result" /\ answer' = "none"
    /\ n' \in Lengths
    /\ first' = 0 /\ last' = Lesser(Height, n')
    /\ UNCHANGED <<line, reply>>

\* A key that scrolls, from a new beginning or a new end.
From(f) ==
    /\ prompt = "result"
    /\ first' = f /\ last' = Lesser(f + Height, n)
    /\ UNCHANGED <<prompt, answer, n, line, reply>>

To(l) ==
    /\ prompt = "result"
    /\ last' = l /\ first' = Greater(0, l - Height)
    /\ UNCHANGED <<prompt, answer, n, line, reply>>

\* Mutant: as in the menu, the next page begins where this one ends.
PageDownAhead == last < n /\ From(last)

\* Mutant: a page further, and not a line.
DownSkipping == To(Lesser(last + Height + 1, n))

Up       == From(Greater(0, first - 1))
Down     == To(Lesser(last + 1, n))
PageUp   == From(Greater(0, first - Height))
PageDown == To(Lesser(last + Height, n))

\* Any other key.
Continue ==
    /\ prompt = "result" /\ prompt' = "none" /\ answer' = "ok"
    /\ UNCHANGED <<line, page, reply>>

-----------------------------------------------------------------------------
(* PromptConfirmation.                                                     *)

OpenConfirm ==
    /\ prompt = "none" /\ prompt' = "confirm" /\ answer' = "none"
    /\ entry' = "" /\ pressed' = ""
    /\ UNCHANGED <<line, page>>

Press(k) ==
    /\ prompt = "confirm"
    /\ entry' = k /\ pressed' = k
    /\ UNCHANGED <<prompt, answer, line, page>>

\* "0", "1" and, for "", <Backspace>.
Choose == \E k \in {"0", "1", ""} : Press(k)

\* <Enter>; with nothing entered it does nothing.
Confirm ==
    /\ prompt = "confirm" /\ entry # ""
    /\ prompt' = "none" /\ answer' = IF entry = "0" THEN "yes" ELSE "no"
    /\ UNCHANGED <<line, page, reply>>

-----------------------------------------------------------------------------
Text   == OpenText \/ (\E c \in Chars : Type(c)) \/ Backspace \/ Accept \/ Refuse
Scroll == Up \/ Down \/ PageUp \/ PageDown
Result == OpenResult \/ Scroll \/ Continue
YesNo  == OpenConfirm \/ Choose \/ Confirm

Key  == Text \/ Result \/ YesNo \/ Leave

\* Their variables are local: nothing of them is left in a later menu.
Forget ==
    /\ prompt = "none" /\ answer' = "none"
    /\ full' = <<>> /\ shown' = <<>> /\ typed' = <<>>
    /\ first' = 0 /\ last' = 0 /\ entry' = "" /\ pressed' = ""
    /\ UNCHANGED <<prompt, accepts, n>>

Next == Key \/ Forget

Spec == Init /\ [][Next]_vars

-----------------------------------------------------------------------------
(* Properties.                                                             *)

\* The box shows the end of the text that <Enter> would return, as much of it
\* as fits; so that it is empty only when the text is, and <Backspace> never
\* cuts an empty one.
BoxShowsText == prompt = "text" => shown = Fits(full)

\* What is returned is an accepted line, made of the keys typed since the box
\* was last empty: nothing of a refused line, of an earlier prompt, or beyond
\* the edge of the box is in it.
AnswerIsTyped ==
    /\ prompt = "text" => full = typed
    /\ answer = "line" => full = typed /\ full \in accepts

\* text[first:last] is never out of range, and the page is always full.
PageFull ==
    prompt = "result" =>
        0 <= first /\ first < n /\ last - first = Lesser(Height, n) /\ last <= n

\* No key of a message scrolls past a line.
NoLineSkipped == [][Scroll => first' <= last /\ first <= last']_vars

\* A confirmation is answered by a key pressed for it, and the last one.
AnswerIsPressed ==
    /\ answer = "yes" => pressed = "0"
    /\ answer = "no"  => pressed = "1"
=============================================================================
