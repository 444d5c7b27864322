------------------------------- MODULE Menus -------------------------------
(***************************************************************************)
(* The prompts of pkg/menu as cmds/webboot shows them: a menu (MenuPager), *)
(* then another menu or a text input, a message or a confirmation          *)
(* (Prompts), one at a time, each until it returns.                        *)
(***************************************************************************)
EXTENDS Integers, Sequences

CONSTANTS Entries, Page, Warnings, Digits, MaxInput, Other, NoChoice,  \* of MenuPager
          Chars, Checks, Width, MaxTyped, Lengths, Height              \* of Prompts

ASSUME MenusAssumption ==
    /\ Entries \subseteq Nat \ {0} /\ Page \in Nat \ {0}
    /\ Digits \subseteq 0..9 /\ Warnings \subseteq Nat
    /\ NoChoice \notin Nat
    /\ \A c \in Checks : c \subseteq Seq(Chars)
    /\ Width \in Nat \ {0} /\ MaxTyped \in Nat /\ Height \in Nat \ {0}
    /\ Lengths \subseteq Nat \ {0}

VARIABLES labels, from, to, input, choice, result,   \* of MenuPager
          prompt, answer, accepts, full, shown, typed, n, first, last, entry, pressed

M == INSTANCE MenuPager WITH n <- labels, first <- from, last <- to
P == INSTANCE Prompts

menu   == <<labels, from, to, input, choice, result>>
others == <<prompt, answer, accepts, full, shown, typed, n, first, last, entry, pressed>>
vars   == <<menu, others>>

\* The main menu comes first.
Init == M!Init /\ P!Init

OpenMenu == prompt = "none" /\ M!Open /\ P!Forget

OpenPrompt ==
    /\ result # "open"
    /\ P!OpenText \/ P!OpenResult \/ P!OpenConfirm
    /\ M!Forget

KeyInMenu   == M!Key /\ UNCHANGED others
KeyInPrompt == prompt # "none" /\ P!Key /\ UNCHANGED menu

Next == OpenMenu \/ OpenPrompt \/ KeyInMenu \/ KeyInPrompt

Spec == Init /\ [][Next]_vars

-----------------------------------------------------------------------------
(* Properties: those of the parts.                                         *)

\* The types of both, and one prompt at a time.
TypeOK == M!TypeOK /\ P!TypeOK /\ (result = "open" => prompt = "none")

\* No index of a menu is out of range: its window is a page of its entries,
\* and what it returns is one of them.
Window == M!Window /\ M!ChoiceInMenu

\* No scrolling key of a menu jumps over an entry, and <Up> and <Down> move
\* by one.
NoEntrySkipped == M!NoEntrySkipped /\ M!OneLine

\* The input box shows the end of the text <Enter> would return.
BoxShowsText == P!BoxShowsText

\* Whatever was shown before, a text prompt returns an accepted line made of
\* the keys typed for it, and a confirmation the key pressed last for it.
AnswerIsTyped == P!AnswerIsTyped /\ P!AnswerIsPressed

\* The page of a message is full and inside the message.
PageFull == P!PageFull

\* No scrolling key of a message jumps over a line.
NoLineSkipped == P!NoLineSkipped
=============================================================================
