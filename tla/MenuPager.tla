----------------------------- MODULE MenuPager -----------------------------
(***************************************************************************)
(* parsingMenuOption of pkg/menu/menu.go: a menu of n numbered entries     *)
(* shown ten at a time, scrolled by keys, and an input line in which the   *)
(* number of an entry is typed and confirmed with <Enter>.                 *)
(*                                                                         *)
(* The window is labels[first:last].  The input line is the sequence of    *)
(* characters typed: digits, and Other for a character (the space is one)  *)
(* that makes strconv.Atoi fail.  Signs are left out.                      *)
(***************************************************************************)
EXTENDS Integers, Sequences, SequencesExt

CONSTANTS Entries,   \* numbers of entries a menu may have
          Page,      \* entries on a page (10)
          Warnings,  \* indices with a customWarning
          Digits,    \* the digits typed
          MaxInput,  \* bound on the characters in the input line
          Other, NoChoice

VARIABLES n,            \* len(labels)
          first, last,  \* the window
          input,        \* input.Text
          choice,       \* the index returned
          result        \* "open" until parsingMenuOption returns, then how
                        \* it returned, until another prompt is shown

vars == <<n, first, last, input, choice, result>>

Lesser(x, y)  == IF x < y THEN x ELSE y
Greater(x, y) == IF x > y THEN x ELSE y

TypeOK ==
    /\ n \in Entries /\ first \in Nat /\ last \in Nat
    /\ input \in Seq(Digits \cup {Other})
    /\ choice \in Nat \cup {NoChoice}
    /\ result \in {"open", "chosen", "back", "exit", "gone"}

\* (A menu without entries is an error before anything is shown.)
Init ==
    /\ n \in Entries
    /\ first = 0 /\ last = Lesser(Page, n)
    /\ input = <<>> /\ choice = NoChoice /\ result = "open"

-----------------------------------------------------------------------------
(* Keys that move the window.                                              *)

Move(f, l) ==
    /\ result = "open"
    /\ first' = f /\ last' = l
    /\ UNCHANGED <<n, input, choice, result>>

\* Mutant: no comparison with the first entry.
LeftUnclamped == Move(first - Page, Lesser(first, n))

Left == LET f == Greater(0, first - Page) IN Move(f, Lesser(f + Page, n))

\* Mutant: no test for the last page.
RightUnchecked == Move(first + Page, Lesser(first + 2 * Page, n))

Right ==
    /\ first + Page < n
    /\ Move(first + Page, Lesser(first + 2 * Page, n))

Up == LET f == Greater(0, first - 1) IN Move(f, Lesser(f + Page, n))

\* Mutant: as <Right>, a page and not a line.
DownSkipping == LET l == Lesser(last + Page + 1, n) IN Move(Greater(0, l - Page), l)

Down == LET l == Lesser(last + 1, n) IN Move(Greater(0, l - Page), l)

Home == Move(0, Lesser(Page, n))

End == Move(Greater(0, n - Page), n)

-----------------------------------------------------------------------------
(* Keys that edit or end the input.                                        *)

Type(c) ==
    /\ result = "open" /\ Len(input) < MaxInput
    /\ input' = Append(input, c)
    /\ UNCHANGED <<n, first, last, choice, result>>

Backspace ==
    /\ result = "open" /\ input # <<>>
    /\ input' = Front(input)
    /\ UNCHANGED <<n, first, last, choice, result>>

\* strconv.Atoi on a line of digits.
Value(s) == FoldLeft(LAMBDA v, d : 10 * v + d, 0, s)

\* The numbers <Enter> accepts.
Accepts(s) ==
    /\ s # <<>> /\ \A i \in DOMAIN s : s[i] # Other
    /\ Value(s) \in 0..(n - 1) \ Warnings

\* Mutant: the bound is one too high.
EnterOffByOne ==
    /\ result = "open" /\ input' = <<>>
    /\ \/ /\ input # <<>> /\ \A i \in DOMAIN input : input[i] # Other
          /\ Value(input) \in 0..n \ Warnings
          /\ choice' = Value(input) /\ result' = "chosen"
       \/ ~Accepts(input) /\ UNCHANGED <<choice, result>>
    /\ UNCHANGED <<n, first, last>>

\* The line is emptied; a number that is refused leaves the menu open.
Enter ==
    /\ result = "open" /\ input' = <<>>
    /\ \/ /\ Accepts(input)
          /\ choice' = Value(input) /\ result' = "chosen"
       \/ ~Accepts(input) /\ UNCHANGED <<choice, result>>
    /\ UNCHANGED <<n, first, last>>

Leave ==
    /\ result = "open"
    /\ result' \in {"back", "exit"}
    /\ UNCHANGED <<n, first, last, input, choice>>

Scroll == Left \/ Right \/ Up \/ Down

Key == \/ Scroll \/ Home \/ End
       \/ \E c \in Digits \cup {Other} : Type(c)
       \/ Backspace \/ Enter \/ Leave

-----------------------------------------------------------------------------
(* One menu after another.                                                 *)

\* PromptMenuEntry is called again.
Open ==
    /\ result # "open" /\ result' = "open"
    /\ n' \in Entries /\ first' = 0 /\ last' = Lesser(Page, n')
    /\ input' = <<>> /\ choice' = NoChoice

\* Its variables are local: nothing of a menu is left in a later prompt.
Forget ==
    /\ result # "open" /\ result' = "gone"
    /\ first' = 0 /\ last' = Lesser(Page, n)
    /\ input' = <<>> /\ choice' = NoChoice
    /\ UNCHANGED n

Next == Key \/ Open \/ Forget

Spec == Init /\ [][Next]_vars

-----------------------------------------------------------------------------
(* Properties.                                                             *)

\* labels[first:last] is never out of range and never empty, and it is as
\* long a page as starts at first: "first, last always point to the first and
\* last entry in current menu page".
Window == 0 <= first /\ first < n /\ last = Lesser(first + Page, n)

\* entries[chooseIndex] exists, and it is no entry with a customWarning.
ChoiceInMenu == result = "chosen" => choice \in 0..(n - 1) \ Warnings

\* Scrolling skips no entry: the new window touches the old one.
NoEntrySkipped == [][Scroll => first' <= last /\ first <= last']_vars

\* "move one line up", "move one line down": neither end of the window moves
\* by more than a line.  From a short last page <Down> is an exception: it
\* keeps the end and fills the page, which moves the beginning up.
OneLine ==
    [][/\ Up => first' \in {first, first - 1} /\ last' \in {last, last - 1}
       /\ Down /\ last - first = Lesser(Page, n) =>
              first' \in {first, first + 1} /\ last' \in {last, last + 1}]_vars
=============================================================================
