---------------------------- MODULE Menus_proofs ----------------------------
(***************************************************************************)
(* The prompts of pkg/menu, for menus, pages, boxes and messages of any    *)
(* size, any characters and any isValid.                                   *)
(*                                                                         *)
(* MenuInv is inductive for a menu, PromptInv for the other prompts.       *)
(***************************************************************************)
EXTENDS Menus, TLAPS

-----------------------------------------------------------------------------
(* Menus.                                                                  *)

\* Inductive as it stands: a window is a page, so the next one is.
MenuInv == M!TypeOK /\ M!Window /\ M!ChoiceInMenu

\* The first page is a page.
LEMMA MenuInit == M!Init => MenuInv
  BY MenusAssumption DEF M!Init, MenuInv, M!TypeOK, M!Window, M!ChoiceInMenu, M!Lesser

\* A step moves the window by one of six keys, or leaves it alone.
LEMMA MenuStep == MenuInv /\ [M!Next]_(M!vars) => MenuInv'
  <1> SUFFICES ASSUME MenuInv, [M!Next]_(M!vars) PROVE MenuInv'
    OBVIOUS
  <1> USE DEF M!TypeOK
  <1>0. labels \in Nat \ {0} /\ Page \in Nat \ {0}
    BY MenusAssumption DEF MenuInv, M!TypeOK
  <1>1. ASSUME NEW f \in Nat, f < labels, M!Move(f, M!Lesser(f + Page, labels))
        PROVE  MenuInv'
    BY <1>0, <1>1 DEF M!Move, MenuInv, M!Window, M!ChoiceInMenu, M!Lesser
  <1>2. CASE M!Left
    BY <1>0, <1>1, <1>2 DEF M!Left, M!Greater, MenuInv, M!Window
  <1>3. CASE M!Right
    <2>1. M!Lesser(from + 2 * Page, labels) = M!Lesser((from + Page) + Page, labels)
      BY <1>0 DEF MenuInv
    <2>2. QED
      BY <1>0, <1>1, <1>3, <2>1 DEF M!Right, MenuInv
  <1>4. CASE M!Up
    BY <1>0, <1>1, <1>4 DEF M!Up, M!Greater, MenuInv, M!Window
  <1>5. CASE M!Down
    <2> DEFINE l == M!Lesser(to + 1, labels)
               f == M!Greater(0, l - Page)
    <2>1. l \in Nat /\ 0 < l /\ l <= labels
      BY <1>0 DEF M!Lesser, MenuInv, M!Window
    <2>2. f \in Nat /\ f < labels
      BY <1>0, <2>1 DEF M!Greater
    <2>3. l = M!Lesser(f + Page, labels)
      BY <1>0 DEF M!Lesser, M!Greater, MenuInv, M!Window
    <2>4. QED
      BY <1>1, <1>5, <2>2, <2>3 DEF M!Down
  <1>6. CASE M!Home
    BY <1>0, <1>1, <1>6 DEF M!Home
  <1>7. CASE M!End
    <2>1. M!Greater(0, labels - Page) \in Nat /\ M!Greater(0, labels - Page) < labels
      BY <1>0 DEF M!Greater
    <2>2. labels = M!Lesser(M!Greater(0, labels - Page) + Page, labels)
      BY <1>0 DEF M!Greater, M!Lesser
    <2>3. QED
      BY <1>1, <1>7, <2>1, <2>2 DEF M!End
  <1>8. CASE M!Enter
    BY <1>0, <1>8 DEF M!Enter, M!Accepts, MenuInv, M!Window, M!ChoiceInMenu
  <1>9. CASE M!Backspace \/ M!Leave \/ \E c \in Digits \cup {Other} : M!Type(c)
    <2>1. UNCHANGED <<labels, from, to, choice>> /\ result' # "chosen"
      BY <1>9 DEF M!Backspace, M!Leave, M!Type
    <2>2. result' \in {"open", "back", "exit"}
      BY <1>9 DEF M!Backspace, M!Leave, M!Type
    <2>3. input' \in Seq(Digits \cup {Other})
      <3>1. CASE M!Backspace
        BY <3>1 DEF M!Backspace, M!Front, MenuInv
      <3>2. CASE M!Leave
        BY <3>2 DEF M!Leave, MenuInv
      <3>3. ASSUME NEW c \in Digits \cup {Other}, M!Type(c)
            PROVE  input' \in Seq(Digits \cup {Other})
        BY <3>3 DEF M!Type, MenuInv
      <3>4. QED
        BY <1>9, <3>1, <3>2, <3>3
    <2>4. QED
      BY <2>1, <2>2, <2>3 DEF MenuInv, M!Window, M!ChoiceInMenu
  <1>10. CASE UNCHANGED M!vars
    BY <1>10 DEF M!vars, MenuInv, M!Window, M!ChoiceInMenu
  <1>11. CASE M!Open
    <2>1. labels' \in Nat \ {0} /\ from' = 0 /\ to' = M!Lesser(Page, labels')
      BY <1>11, MenusAssumption DEF M!Open
    <2>2. from' < labels' /\ to' \in Nat /\ to' = M!Lesser(from' + Page, labels')
      BY <1>0, <2>1 DEF M!Lesser
    <2>3. M!Window'
      BY <2>1, <2>2 DEF M!Window, M!Lesser
    <2>4. QED
      BY <1>11, <2>1, <2>2, <2>3 DEF M!Open, MenuInv, M!ChoiceInMenu
  <1>12. CASE M!Forget
    BY <1>0, <1>12 DEF M!Forget, MenuInv, M!Window, M!ChoiceInMenu, M!Lesser
  <1>13. QED
    BY <1>2, <1>3, <1>4, <1>5, <1>6, <1>7, <1>8, <1>9, <1>10, <1>11, <1>12
    DEF M!Next, M!Key, M!Scroll

\* A scrolling key moves the window of a menu to where it touches the old one.
LEMMA MenuScrolls == MenuInv /\ M!Scroll => from' <= to /\ from <= to'
  <1> SUFFICES ASSUME MenuInv, M!Scroll PROVE from' <= to /\ from <= to'
    OBVIOUS
  <1> USE MenusAssumption DEF MenuInv, M!TypeOK, M!Window, M!Move, M!Lesser, M!Greater
  <1>1. CASE M!Left
    BY <1>1 DEF M!Left
  <1>2. CASE M!Right
    BY <1>2 DEF M!Right
  <1>3. CASE M!Up
    BY <1>3 DEF M!Up
  <1>4. CASE M!Down
    BY <1>4 DEF M!Down
  <1>5. QED
    BY <1>1, <1>2, <1>3, <1>4 DEF M!Scroll

\* <Up> and <Down> move it by a line, the latter from every full page.
LEMMA MenuLines ==
    MenuInv => /\ M!Up => from' \in {from, from - 1} /\ to' \in {to, to - 1}
               /\ M!Down /\ to - from = M!Lesser(Page, labels) =>
                      from' \in {from, from + 1} /\ to' \in {to, to + 1}
  <1> DEFINE Step == /\ M!Up => from' \in {from, from - 1} /\ to' \in {to, to - 1}
                     /\ M!Down /\ to - from = M!Lesser(Page, labels) =>
                            from' \in {from, from + 1} /\ to' \in {to, to + 1}
  <1> SUFFICES ASSUME MenuInv PROVE Step
    OBVIOUS
  <1> USE MenusAssumption DEF MenuInv, M!TypeOK, M!Window, M!Move, M!Lesser, M!Greater
  <1>1. M!Up => from' \in {from, from - 1} /\ to' \in {to, to - 1}
    BY DEF M!Up
  <1>2. M!Down /\ to - from = M!Lesser(Page, labels) =>
            from' \in {from, from + 1} /\ to' \in {to, to + 1}
    BY DEF M!Down
  <1>3. QED
    BY <1>1, <1>2

-----------------------------------------------------------------------------
(* The other prompts.                                                      *)

\* The box is a function of the text, in whatever prompt.
Box == shown = P!Fits(full) /\ full = typed

\* The page, while a message is shown.
Shown == P!PageFull /\ n \in Nat

\* The keys that were pressed are the entry, and an answer is one of them.
Pressed ==
    /\ prompt = "confirm" => entry = pressed
    /\ P!AnswerIsPressed

\* A prompt that is open has not answered.
Fresh == prompt # "none" => answer = "none"

PromptInv == P!TypeOK /\ Box /\ Shown /\ P!AnswerIsTyped /\ Pressed /\ Fresh

\* The sizes, apart from what isValid accepts.
LEMMA Sizes ==
    Width \in Nat /\ Height \in Nat /\ Height # 0 /\ Lengths \subseteq Nat \ {0}
  BY MenusAssumption

\* An empty line.
LEMMA NoLine == <<>> \in Seq(Chars)
  OBVIOUS

\* The box shows a text, an empty one only for an empty text.
LEMMA FitsShape ==
    ASSUME NEW s \in Seq(Chars)
    PROVE  P!Fits(s) \in Seq(Chars) /\ (s = <<>> => P!Fits(s) = <<>>)
<1>1. Width \in Nat /\ Len(s) \in Nat
  BY Sizes
<1>2. P!Greater(0, Len(s) - Width) + 1 \in 1..Len(s) + 1
  BY <1>1 DEF P!Greater
<1>3. P!Fits(s) \in Seq(Chars)
  BY <1>1, <1>2 DEF P!Fits
<1>4. ASSUME s = <<>> PROVE P!Fits(s) = <<>>
  <2>1. Len(s) = 0 /\ P!Greater(0, Len(s) - Width) = 0
    BY <1>1, <1>4 DEF P!Greater
  <2> QED
    BY <1>4, <2>1 DEF P!Fits
<1> QED
  BY <1>3, <1>4

\* Before the first prompt nothing was typed, pressed or answered.
LEMMA PromptInit == P!Init => PromptInv
<1> SUFFICES ASSUME P!Init PROVE PromptInv
  OBVIOUS
<1>1. full = <<>> /\ shown = <<>> /\ typed = <<>> /\ <<>> \in Seq(Chars)
  BY NoLine DEF P!Init
<1>2. Box
  BY <1>1, FitsShape DEF Box
<1>3. P!TypeOK /\ Shown /\ P!AnswerIsTyped /\ Pressed /\ Fresh
  BY <1>1, MenusAssumption
  DEF P!Init, P!TypeOK, P!Answers, Shown, P!PageFull, P!AnswerIsTyped,
      Pressed, P!AnswerIsPressed, Fresh
<1> QED
  BY <1>2, <1>3 DEF PromptInv

\* The steps of a text prompt.
LEMMA TextKeeps == PromptInv /\ P!Text => PromptInv'
<1> SUFFICES ASSUME PromptInv, P!Text PROVE PromptInv'
  OBVIOUS
<1>1. /\ UNCHANGED <<P!page, P!reply>>
      /\ \/ prompt' = "text" /\ answer' = "none"
         \/ prompt' = "none" /\ answer' = "line" /\ full' \in accepts'
  BY DEF P!Text, P!OpenText, P!Type, P!Backspace, P!Accept, P!Refuse, P!line,
         PromptInv, Fresh
<1>2. Shown' /\ Pressed' /\ Fresh'
  BY <1>1 DEF PromptInv, Shown, P!PageFull, Pressed, P!AnswerIsPressed, Fresh,
              P!page, P!reply
<1>3. /\ full' \in Seq(Chars) /\ shown' \in Seq(Chars) /\ typed' \in Seq(Chars)
      /\ Box' /\ accepts' \in Checks
  <2>1. CASE P!OpenText \/ P!Refuse
    <3>1. full' = <<>> /\ shown' = <<>> /\ typed' = <<>> /\ <<>> \in Seq(Chars)
          /\ accepts' \in Checks
      BY <2>1, NoLine DEF P!OpenText, P!Refuse, PromptInv, P!TypeOK
    <3> QED
      BY <3>1, FitsShape DEF Box
  <2>2. CASE \E c \in Chars : P!Type(c)
    <3>1. PICK c \in Chars : P!Type(c)
      BY <2>2
    <3>2. full' = Append(full, c) /\ typed' = Append(typed, c) /\ shown' = P!Fits(full')
          /\ accepts' = accepts
      BY <3>1 DEF P!Type
    <3>3. full' \in Seq(Chars) /\ typed' = full'
      <4>1. full \in Seq(Chars) /\ full = typed
        BY DEF PromptInv, P!TypeOK, Box
      <4> QED
        BY <3>1, <3>2, <4>1
    <3> QED
      BY <3>2, <3>3, FitsShape DEF Box, PromptInv, P!TypeOK
  <2>3. CASE P!Backspace
    <3>1. full # <<>> /\ full = typed /\ full \in Seq(Chars)
      BY <2>3, FitsShape DEF P!Backspace, PromptInv, P!TypeOK, Box
    <3>2. full' = SubSeq(full, 1, Len(full) - 1) /\ typed' = full'
          /\ shown' = P!Fits(full') /\ accepts' = accepts
      BY <2>3, <3>1 DEF P!Backspace, P!Front
    <3>3. full' \in Seq(Chars)
      BY <3>1, <3>2
    <3> QED
      BY <3>2, <3>3, FitsShape DEF Box, PromptInv, P!TypeOK
  <2>4. CASE P!Accept
    BY <2>4 DEF P!Accept, P!line, PromptInv, P!TypeOK, Box
  <2> QED
    BY <2>1, <2>2, <2>3, <2>4 DEF P!Text
<1>4. P!TypeOK'
  BY <1>1, <1>3 DEF PromptInv, P!TypeOK, P!Answers, P!page, P!reply
<1>5. P!AnswerIsTyped'
  BY <1>1, <1>3 DEF P!AnswerIsTyped, Box
<1> QED
  BY <1>2, <1>3, <1>4, <1>5 DEF PromptInv

\* What a scrolling key does to the page.
LEMMA ScrollShape ==
    ASSUME PromptInv, P!Scroll
    PROVE  /\ prompt = "result" /\ UNCHANGED <<prompt, answer, n, P!line, P!reply>>
           /\ first' \in Nat /\ last' \in Nat /\ P!PageFull'
           /\ first' <= last /\ first <= last'
<1>1. /\ prompt = "result" /\ UNCHANGED <<prompt, answer, n, P!line, P!reply>>
  BY DEF P!Scroll, P!Up, P!Down, P!PageUp, P!PageDown, P!From, P!To
<1>2. /\ n \in Nat /\ first \in Nat /\ last \in Nat /\ Height \in Nat \ {0}
      /\ first < n /\ last - first = P!Lesser(Height, n) /\ last <= n
  BY <1>1, Sizes DEF PromptInv, P!TypeOK, Shown, P!PageFull
<1> DEFINE Shape == /\ first' \in Nat /\ last' \in Nat /\ first' < n
                    /\ last' - first' = P!Lesser(Height, n) /\ last' <= n
                    /\ first' <= last /\ first <= last'
<1>3. ASSUME P!Up PROVE Shape
  BY <1>2, <1>3 DEF P!Up, P!From, P!Lesser, P!Greater
<1>4. ASSUME P!Down PROVE Shape
  BY <1>2, <1>4 DEF P!Down, P!To, P!Lesser, P!Greater
<1>5. ASSUME P!PageUp PROVE Shape
  BY <1>2, <1>5 DEF P!PageUp, P!From, P!Lesser, P!Greater
<1>6. ASSUME P!PageDown PROVE Shape
  BY <1>2, <1>6 DEF P!PageDown, P!To, P!Lesser, P!Greater
<1>7. Shape
  BY <1>3, <1>4, <1>5, <1>6 DEF P!Scroll
<1> QED
  BY <1>1, <1>7 DEF P!PageFull

\* The steps of a message, and leaving any prompt.
LEMMA ResultKeeps == PromptInv /\ (P!Result \/ P!Leave) => PromptInv'
<1> SUFFICES ASSUME PromptInv, P!Result \/ P!Leave PROVE PromptInv'
  OBVIOUS
<1>1. UNCHANGED <<P!line, P!reply>>
  BY DEF P!Result, P!OpenResult, P!Scroll, P!Up, P!Down, P!PageUp, P!PageDown,
         P!From, P!To, P!Continue, P!Leave
<1>2. CASE P!OpenResult
  <2>1. n' \in Nat /\ n' # 0 /\ n' \in Lengths
        /\ first' = 0 /\ last' = P!Lesser(Height, n')
        /\ prompt' = "result" /\ answer' = "none"
    BY <1>2, Sizes DEF P!OpenResult
  <2>2. last' \in Nat /\ last' - first' = P!Lesser(Height, n') /\ last' <= n'
    <3>1. Height \in Nat
      BY Sizes
    <3>2. P!Lesser(Height, n') \in Nat /\ P!Lesser(Height, n') <= n'
      BY <2>1, <3>1 DEF P!Lesser
    <3> QED
      BY <2>1, <3>2
  <2>3. P!TypeOK'
    BY <1>1, <2>1, <2>2 DEF PromptInv, P!TypeOK, P!Answers, P!line, P!reply
  <2> QED
    BY <1>1, <2>1, <2>2, <2>3
    DEF PromptInv, Box, Shown, P!PageFull, P!AnswerIsTyped, Pressed, P!AnswerIsPressed,
        Fresh, P!line
<1>3. CASE P!Scroll
  <2>1. /\ prompt = "result" /\ UNCHANGED <<prompt, answer, n>>
        /\ first' \in Nat /\ last' \in Nat /\ P!PageFull'
    BY <1>3, ScrollShape
  <2>2. P!TypeOK'
    BY <1>1, <2>1 DEF PromptInv, P!TypeOK, P!line, P!reply
  <2> QED
    BY <1>1, <2>1, <2>2
    DEF PromptInv, Box, Shown, P!AnswerIsTyped, Pressed, P!AnswerIsPressed,
        Fresh, P!line, P!reply
<1>4. CASE P!Continue \/ P!Leave
  <2>1. prompt' = "none" /\ answer' \in {"ok", "back", "exit"} /\ UNCHANGED P!page
    BY <1>4 DEF P!Continue, P!Leave
  <2>2. P!TypeOK'
    BY <1>1, <2>1 DEF PromptInv, P!TypeOK, P!Answers, P!line, P!page, P!reply
  <2> QED
    BY <1>1, <2>1, <2>2
    DEF PromptInv, Box, Shown, P!PageFull, P!AnswerIsTyped, Pressed, P!AnswerIsPressed,
        Fresh, P!line, P!page
<1> QED
  BY <1>2, <1>3, <1>4 DEF P!Result

\* The steps of a confirmation.
LEMMA YesNoKeeps == PromptInv /\ P!YesNo => PromptInv'
<1> SUFFICES ASSUME PromptInv, P!YesNo PROVE PromptInv'
  OBVIOUS
<1>1. /\ UNCHANGED <<P!line, P!page>>
      /\ entry' \in {"", "0", "1"} /\ pressed' = entry'
      /\ \/ prompt' = "confirm" /\ answer' = "none"
         \/ prompt' = "none" /\ answer' = "yes" /\ entry' = "0"
         \/ prompt' = "none" /\ answer' = "no" /\ entry' = "1"
  BY DEF P!YesNo, P!OpenConfirm, P!Choose, P!Press, P!Confirm, P!reply,
         PromptInv, P!TypeOK, Pressed, Fresh
<1>2. P!TypeOK'
  BY <1>1 DEF PromptInv, P!TypeOK, P!Answers, P!line, P!page
<1> QED
  BY <1>1, <1>2
  DEF PromptInv, Box, Shown, P!PageFull, P!AnswerIsTyped, Pressed, P!AnswerIsPressed,
        Fresh, P!line, P!page

\* Forgetting the last prompt.
LEMMA ForgetKeeps == PromptInv /\ P!Forget => PromptInv'
<1> SUFFICES ASSUME PromptInv, P!Forget PROVE PromptInv'
  OBVIOUS
<1>1. full' = <<>> /\ shown' = <<>> /\ typed' = <<>> /\ <<>> \in Seq(Chars)
  BY NoLine DEF P!Forget
<1>2. Box'
  BY <1>1, FitsShape DEF Box
<1>3. P!TypeOK' /\ Shown' /\ P!AnswerIsTyped' /\ Pressed' /\ Fresh'
  BY <1>1
  DEF PromptInv, P!Forget, P!TypeOK, P!Answers, Shown, P!PageFull, P!AnswerIsTyped,
      Pressed, P!AnswerIsPressed, Fresh
<1> QED
  BY <1>2, <1>3 DEF PromptInv

\* Every step keeps PromptInv.
LEMMA PromptStep == PromptInv /\ [P!Next]_(P!vars) => PromptInv'
<1>1. PromptInv /\ UNCHANGED P!vars => PromptInv'
  BY DEF PromptInv, P!TypeOK, Box, Shown, P!PageFull, P!AnswerIsTyped, Pressed,
         P!AnswerIsPressed, Fresh, P!vars, P!line, P!page, P!reply
<1> QED
  BY TextKeeps, ResultKeeps, YesNoKeeps, ForgetKeeps, <1>1 DEF P!Next, P!Key

-----------------------------------------------------------------------------
(* One at a time.                                                          *)

OnePrompt == result = "open" => prompt = "none"

Inv == MenuInv /\ PromptInv /\ OnePrompt

\* A step of the whole is one of a menu, or none, and one of another prompt,
\* or none; a prompt is opened when the one before has returned.
LEMMA Steps ==
    ASSUME [Next]_vars, OnePrompt
    PROVE  [M!Next]_(M!vars) /\ [P!Next]_(P!vars) /\ OnePrompt'
  <1> USE DEF M!Next, P!Next, OnePrompt
  <1>1. CASE OpenMenu
    BY <1>1 DEF OpenMenu, P!Forget
  <1>2. CASE OpenPrompt
    BY <1>2 DEF OpenPrompt, M!Forget, P!Key, P!Text, P!Result, P!YesNo
  <1>3. CASE KeyInMenu
    <2>1. prompt' = prompt /\ UNCHANGED P!vars
      BY <1>3 DEF KeyInMenu, others, P!vars, P!line, P!page, P!reply
    <2>2. result = "open"
      BY <1>3 DEF KeyInMenu, M!Key, M!Scroll, M!Left, M!Right, M!Up, M!Down, M!Home,
                  M!End, M!Move, M!Type, M!Backspace, M!Enter, M!Leave
    <2>3. QED
      BY <1>3, <2>1, <2>2 DEF KeyInMenu
  <1>4. CASE KeyInPrompt
    BY <1>4 DEF KeyInPrompt, menu, M!vars
  <1>5. CASE UNCHANGED vars
    BY <1>5 DEF vars, menu, others, M!vars, P!vars, P!line, P!page, P!reply
  <1>6. QED
    BY <1>1, <1>2, <1>3, <1>4, <1>5 DEF Next

\* Inv holds whatever prompts follow each other.
LEMMA Invariance == Spec => []Inv
  <1>1. Init => Inv
    BY MenuInit, PromptInit DEF Init, Inv, OnePrompt, P!Init
  <1>2. Inv /\ [Next]_vars => Inv'
    BY Steps, MenuStep, PromptStep DEF Inv
  <1>3. QED
    BY <1>1, <1>2, PTL DEF Spec

\* Every variable keeps its type, and no two prompts are on the screen.
THEOREM TypeCorrect == Spec => []TypeOK
  <1>1. Inv => TypeOK
    BY DEF Inv, MenuInv, PromptInv, OnePrompt, TypeOK
  <1>2. QED
    BY Invariance, <1>1, PTL

\* Neither slicing labels[first:last] nor indexing entries with the result
\* panics, and a page is full if it can be.
THEOREM WindowAlwaysValid == Spec => []Window
  <1>1. Inv => Window
    BY DEF Inv, MenuInv, Window
  <1>2. QED
    BY Invariance, <1>1, PTL

\* The box shows the end of the text processInput will return.
THEOREM BoxIsText == Spec => []BoxShowsText
  <1>1. Inv => BoxShowsText
    BY DEF Inv, PromptInv, Box, BoxShowsText, P!BoxShowsText
  <1>2. QED
    BY Invariance, <1>1, PTL

\* What a prompt returns was typed, or pressed, for it.
THEOREM AnswerWasTyped == Spec => []AnswerIsTyped
  <1>1. Inv => AnswerIsTyped
    BY DEF Inv, PromptInv, Pressed, AnswerIsTyped
  <1>2. QED
    BY Invariance, <1>1, PTL

\* Slicing text[first:last] never panics, and DisplayResult's page is full.
THEOREM PageAlwaysFull == Spec => []PageFull
  <1>1. Inv => PageFull
    BY DEF Inv, PromptInv, Shown, PageFull
  <1>2. QED
    BY Invariance, <1>1, PTL

\* No scrolling key jumps over an entry, and <Up> and <Down> over a line.
THEOREM NoneSkipped == Spec => NoEntrySkipped
  <1> DEFINE Touch == M!Scroll => from' <= to /\ from <= to'
             Step == /\ M!Up => from' \in {from, from - 1} /\ to' \in {to, to - 1}
                     /\ M!Down /\ to - from = M!Lesser(Page, labels) =>
                            from' \in {from, from + 1} /\ to' \in {to, to + 1}
  <1>1. Inv => [Touch]_(M!vars)
    BY MenuScrolls DEF Inv
  <1>2. Inv => [Step]_(M!vars)
    BY MenuLines DEF Inv
  <1>3. QED
    BY Invariance, <1>1, <1>2, PTL DEF NoEntrySkipped, M!NoEntrySkipped, M!OneLine

\* No key of DisplayResult scrolls past a line.
THEOREM EveryLineSeen == Spec => NoLineSkipped
  <1> DEFINE Touch == P!Scroll => first' <= last /\ first <= last'
  <1>1. Inv => [Touch]_(P!vars)
    BY ScrollShape DEF Inv
  <1>2. QED
    BY Invariance, <1>1, PTL DEF NoLineSkipped, P!NoLineSkipped
=============================================================================
