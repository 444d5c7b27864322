------------------------- MODULE Downloading_proofs -------------------------
(***************************************************************************)
(* For bodies of any length: download() with its boxes implements          *)
(* DownloadContract, has tried to remove the temporary file and ended the  *)
(* listener before the next prompt, and draws no box over what follows.    *)
(*                                                                         *)
(* CallInv is inductive for the download, BoxInv for the boxes, and a step *)
(* of the whole is a step of each or leaves it alone.                      *)
(***************************************************************************)
EXTENDS Downloading, TLAPS

-----------------------------------------------------------------------------
(* The download.                                                           *)

\* What the error value says of the file, from its last change on.
Told ==
    /\ outcome = "ok" => file = "new" \/ (file = "short" /\ ~sized)
    /\ outcome = "canceled" => file \in {"absent", "previous"}
    /\ outcome = "failed" => file \notin {"new", "short"}

\* Where the caller is says what has become of the two files.
Phases ==
    /\ pc \in {"Do", "Temp", "Copy", "Create"} =>
           outcome = "none" /\ file \in {"absent", "previous"}
    /\ pc = "Write" => outcome = "none" /\ file = "part"
    /\ pc \in {"Create", "Write"} => temp = "whole" \/ (temp = "short" /\ ~sized)
    /\ pc \in {"Do", "Temp", "Dead"} => temp = "none"
    /\ pc = "Copy" => temp = "part"
    /\ pc = "Remove" => temp \in D!Named
    /\ pc = "Cancel" => temp \notin D!Named
    /\ pc \in {"Remove", "Cancel"} \cup D!After => outcome # "none" /\ Told

\* Who is parked on the key channel, and until when.
Queue ==
    /\ parked \in {<<>>, <<"listener">>, <<"prompt">>}
    /\ listener = "parked" <=> parked = <<"listener">>
    /\ pc = "Wait" <=> parked = <<"prompt">>
    /\ listener = "parked" => ctx = "live"
    /\ pc \in {"Do", "Temp"} => listener = "none"
    /\ pc \in D!After => ctx = "done"

CallInv == D!TypeOK /\ Phases /\ Queue /\ D!TempGone

\* A call starts with no listener and nothing parked.
LEMMA CallInit == D!Init => CallInv
  BY DownloadingAssumption
  DEF D!Init, CallInv, D!TypeOK, Phases, Told, Queue, D!TempGone, D!After,
      D!InCall, D!C!Files, D!Named

\* The two one-element queues, and the queue without its element.
LEMMA QueueFacts ==
    /\ Append(<<>>, "listener") = <<"listener">> /\ Append(<<>>, "prompt") = <<"prompt">>
    /\ Head(<<"listener">>) = "listener" /\ Tail(<<"listener">>) = <<>>
    /\ Head(<<"prompt">>) = "prompt" /\ Tail(<<"prompt">>) = <<>>
    /\ <<"listener">> # <<>> /\ <<"prompt">> # <<>> /\ <<"listener">> # <<"prompt">>
  OBVIOUS

\* Every step of the caller, the listener and the keyboard keeps CallInv.
LEMMA CallStep == CallInv /\ [D!Next]_(D!vars) => CallInv'
  <1> SUFFICES ASSUME CallInv, [D!Next]_(D!vars) PROVE CallInv'
    OBVIOUS
  <1> USE DownloadingAssumption
      DEF CallInv, D!TypeOK, Phases, Told, Queue, D!TempGone, D!After, D!InCall,
          D!C!Files, D!Named, D!net, D!keys
  <1>1. CASE D!Do
    BY <1>1 DEF D!Do
  <1>2. CASE D!TempFile
    BY <1>2 DEF D!TempFile
  <1>3. CASE D!CopyBlock
    BY <1>3 DEF D!CopyBlock
  <1>4. CASE D!CopyEnd
    BY <1>4 DEF D!CopyEnd
  <1>5. CASE D!CopyCanceled
    BY <1>5 DEF D!CopyCanceled
  <1>6. CASE D!CopyFailed
    BY <1>6 DEF D!CopyFailed
  <1>7. CASE D!Create
    BY <1>7 DEF D!Create
  <1>8. CASE D!Write
    BY <1>8 DEF D!Write
  <1>9. CASE D!Remove
    BY <1>9 DEF D!Remove
  <1>10. CASE D!Cancel
    <2>1. CASE listener = "parked"
      <3>1. parked = <<"listener">> /\ parked' = <<>> /\ listener' = "end"
        BY <1>10, <2>1, QueueFacts DEF D!Cancel, D!Cancelled, D!Without
      <3>2. QED
        BY <1>10, <2>1, <3>1, QueueFacts DEF D!Cancel, D!Cancelled
    <2>2. CASE listener # "parked"
      BY <1>10, <2>2, QueueFacts DEF D!Cancel, D!Cancelled
    <2>3. QED
      BY <2>1, <2>2
  <1>11. CASE D!Prompt
    BY <1>11 DEF D!Prompt
  <1>12. CASE D!ReadKey
    BY <1>12, QueueFacts DEF D!ReadKey
  <1>13. CASE D!NextKey
    BY <1>13 DEF D!NextKey
  <1>14. CASE D!TakeKey
    BY <1>14 DEF D!TakeKey, D!Heard
  <1>15. CASE D!TakeDone
    BY <1>15 DEF D!TakeDone
  <1>16. CASE D!Park
    BY <1>16, QueueFacts DEF D!Park
  <1>17. ASSUME NEW k \in Keys \cup {Esc}, D!Press(k) PROVE CallInv'
    BY <1>17, QueueFacts DEF D!Press, D!Heard
  <1>18. CASE D!Arrive
    BY <1>18 DEF D!Arrive
  <1>19. CASE D!PowerLoss
    BY <1>19, QueueFacts DEF D!PowerLoss, D!C!Untouched
  <1>20. CASE D!Collect
    BY <1>20 DEF D!Collect
  <1>21. CASE UNCHANGED D!vars
    BY <1>21 DEF D!vars
  <1>22. QED
    BY <1>1, <1>2, <1>3, <1>4, <1>5, <1>6, <1>7, <1>8, <1>9, <1>10, <1>11, <1>12, <1>13,
       <1>14, <1>15, <1>16, <1>17, <1>18, <1>19, <1>20, <1>21
    DEF D!Next, D!Caller, D!Listener, D!Outside

-----------------------------------------------------------------------------
(* The boxes.                                                              *)

\* The goroutine lives exactly while an animated box is open, and who waits
\* in which half of the rendezvous fits the other side.
Handshake ==
    /\ caller = "work" => (anim # "none" <=> animated)
    /\ caller = "sigTerm" => anim \in {"select", "sleep", "restore"}
    /\ caller = "ackTerm" <=> anim = "ack"
    /\ caller \in {"draw", "clear"} => anim = "none"

BoxInv == P!TypeOK /\ Handshake /\ P!ScreenOwned /\ P!DotsTakenBack

\* At first no box is animated.
LEMMA BoxInit == P!Init => BoxInv
  <1> SUFFICES ASSUME P!Init PROVE BoxInv
    OBVIOUS
  <1>1. animated \in BOOLEAN
    BY Zenon DEF P!Init
  <1>2. pText \in ({Testing, Counting, Saving} \cup {NoText}) \X (0..3)
    BY DEF P!Init
  <1>3. Handshake /\ P!ScreenOwned /\ P!DotsTakenBack
    BY DEF P!Init, Handshake, P!ScreenOwned, P!DotsTakenBack
  <1>4. QED
    BY <1>1, <1>2, <1>3 DEF P!Init, BoxInv, P!TypeOK

\* Every step of the caller and of animate() keeps BoxInv.
LEMMA BoxStep == BoxInv /\ [P!Next]_(P!vars) => BoxInv'
  <1> SUFFICES ASSUME BoxInv, [P!Next]_(P!vars) PROVE BoxInv'
    OBVIOUS
  <1> USE DEF BoxInv, P!TypeOK, Handshake, P!ScreenOwned, P!DotsTakenBack
  <1>1. CASE P!DrawOther
    BY <1>1 DEF P!DrawOther
  <1>2. ASSUME NEW t \in {Testing, Counting, Saving}, NEW a \in BOOLEAN, P!NewProgress(t, a)
        PROVE  BoxInv'
    BY <1>2 DEF P!NewProgress
  <1>3. ASSUME NEW t \in {Testing, Counting, Saving}, P!Update(t) PROVE BoxInv'
    BY <1>3 DEF P!Update
  <1>4. CASE P!Close
    BY <1>4 DEF P!Close
  <1>5. CASE P!Clear
    BY <1>5 DEF P!Clear
  <1>6. CASE P!ReceiveSigTerm
    BY <1>6 DEF P!ReceiveSigTerm
  <1>7. CASE P!SendAckTerm
    BY <1>7 DEF P!SendAckTerm
  <1>8. CASE P!Sleep
    BY <1>8 DEF P!Sleep
  <1>9. CASE P!Redraw
    BY <1>9 DEF P!Redraw
  <1>10. CASE P!Restore
    BY <1>10 DEF P!Restore
  <1>11. CASE UNCHANGED P!vars
    BY <1>11 DEF P!vars
  <1>12. QED
    BY <1>1, <1>2, <1>3, <1>4, <1>5, <1>6, <1>7, <1>8, <1>9, <1>10, <1>11
    DEF P!Next, P!Animate

-----------------------------------------------------------------------------
(* The whole.                                                              *)

\* No goroutine does to the call what download() and its listener do not.
LEMMA CallSteps == [Next]_vars => [D!Next]_(D!vars)
  <1> SUFFICES ASSUME [Next]_vars PROVE [D!Next]_(D!vars)
    OBVIOUS
  <1> USE DEF D!Next, D!Caller, D!Listener, D!Outside
  <1>1. CASE TestNetwork \/ CopyProgress \/ CloseProgress \/ EndClose \/ Animate
    BY <1>1 DEF TestNetwork, CopyProgress, CloseProgress, EndClose, Animate, call, D!vars
  <1>2. CASE Request
    BY <1>2 DEF Request
  <1>3. CASE StartCopy \/ Block \/ CopyOver \/ CopyBreaks
    BY <1>3 DEF StartCopy, Block, CopyOver, CopyBreaks
  <1>4. CASE IntoCache \/ Deferred
    BY <1>4 DEF IntoCache, Deferred
  <1>5. CASE Confirm
    BY <1>5 DEF Confirm
  <1>6. CASE Listener
    BY <1>6 DEF Listener
  <1>7. CASE World
    BY <1>7 DEF World
  <1>8. CASE UNCHANGED vars
    BY <1>8 DEF vars, call, D!vars
  <1>9. QED
    BY <1>1, <1>2, <1>3, <1>4, <1>5, <1>6, <1>7, <1>8 DEF Next, Caller

\* download() uses a box only as menu.Progress is meant to be used.
LEMMA BoxSteps == [Next]_vars => [P!Next]_(P!vars)
  <1> SUFFICES ASSUME [Next]_vars PROVE [P!Next]_(P!vars)
    OBVIOUS
  <1> USE DEF P!Next
  <1>1. CASE TestNetwork \/ CopyProgress
    BY <1>1 DEF TestNetwork, CopyProgress
  <1>2. CASE Request \/ IntoCache \/ Deferred \/ Listener \/ World
    BY <1>2 DEF Request, IntoCache, Deferred, Listener, World, box, P!vars
  <1>3. CASE StartCopy
    BY <1>3 DEF StartCopy, box, P!vars
  <1>4. CASE Block \/ CopyOver \/ CopyBreaks \/ CloseProgress \/ EndClose
    BY <1>4 DEF Block, CopyOver, CopyBreaks, CloseProgress, EndClose
  <1>5. CASE Confirm
    BY <1>5 DEF Confirm, box, P!vars
  <1>6. CASE Animate
    BY <1>6 DEF Animate
  <1>7. CASE UNCHANGED vars
    BY <1>7 DEF vars, box, P!vars
  <1>8. QED
    BY <1>1, <1>2, <1>3, <1>4, <1>5, <1>6, <1>7 DEF Next, Caller

\* Both invariants hold in every reachable state.
LEMMA Invariance == Spec => [](CallInv /\ BoxInv)
  <1>1. Init => CallInv /\ BoxInv
    BY CallInit, BoxInit DEF Init
  <1>2. (CallInv /\ BoxInv) /\ [Next]_vars => (CallInv /\ BoxInv)'
    BY CallSteps, BoxSteps, CallStep, BoxStep
  <1>3. QED
    BY <1>1, <1>2, PTL DEF Spec

\* The variables stay in their types: io.Copy never reads a block that has
\* not arrived, at most the listener and the prompt wait for a key, and a box
\* has at most three dots.
THEOREM TypeCorrect == Spec => []TypeOK
  <1>1. CallInv /\ BoxInv => TypeOK
    BY DEF CallInv, BoxInv, TypeOK
  <1>2. QED
    BY Invariance, <1>1, PTL

\* Whatever ends download(), the temporary file's removal has been tried: it
\* has no name any more, or os.Remove failed.
THEOREM TempFileRemoved == Spec => []D!TempGone
  <1>1. CallInv => D!TempGone
    BY DEF CallInv
  <1>2. QED
    BY Invariance, <1>1, PTL

\* While the confirmation waits for a key, it is the only one that does.
THEOREM PromptHasNoRival == Spec => []NoRival
  <1>1. CallInv => NoRival
    BY DEF CallInv, Queue, NoRival, D!NoRival
  <1>2. QED
    BY Invariance, <1>1, PTL

\* A closed box is never drawn again, and its goroutine is gone.
THEOREM ScreenIsCallers == Spec => []ScreenOwned
  <1>1. BoxInv => ScreenOwned
    BY DEF BoxInv, ScreenOwned
  <1>2. QED
    BY Invariance, <1>1, PTL

\* The dots of one redraw are not there at the next.
THEOREM NoDotsLeft == Spec => []DotsTakenBack
  <1>1. BoxInv => DotsTakenBack
    BY DEF BoxInv, DotsTakenBack
  <1>2. QED
    BY Invariance, <1>1, PTL

-----------------------------------------------------------------------------
(* Refinement.                                                             *)

\* A step that neither returns nor touches a file changes nothing the contract
\* speaks of.
LEMMA Stutter ==
    ASSUME UNCHANGED <<sized, file, temp, outcome>>,
           \/ pc' = pc
           \/ pc \in D!InCall /\ pc' \in D!InCall
           \/ pc \in D!After /\ pc' \in D!After
    PROVE  UNCHANGED D!C!contractVars
  BY DEF D!C!contractVars, D!InCall, D!After

\* So does a step inside the call that only settles the error value.
LEMMA Inside ==
    ASSUME UNCHANGED <<sized, file, temp>>, pc \in D!InCall, pc' \in D!InCall
    PROVE  UNCHANGED D!C!contractVars
  BY DEF D!C!contractVars, D!InCall, D!After

\* A step of any goroutine is a step of the abstract call, or none.
LEMMA StepRefines == CallInv /\ [D!Next]_(D!vars) => [D!C!ContractNext]_(D!C!contractVars)
  <1> SUFFICES ASSUME CallInv, [D!Next]_(D!vars) PROVE [D!C!ContractNext]_(D!C!contractVars)
    OBVIOUS
  <1>1. CASE D!Do \/ D!CopyBlock \/ D!CopyCanceled \/ D!CopyFailed
    BY <1>1, Inside DEF D!Do, D!CopyBlock, D!CopyCanceled, D!CopyFailed, D!InCall, D!net
  <1>2. CASE D!TempFile
    <2>1. CASE temp' = temp
      BY <1>2, <2>1, Inside DEF D!TempFile, D!InCall, D!net
    <2>2. CASE temp' # temp
      BY <1>2, <2>2
      DEF D!TempFile, CallInv, Phases, D!InCall, D!After, D!Named, D!net, D!C!Litter,
          D!C!ContractNext
    <2>3. QED
      BY <2>1, <2>2
  <1>3. CASE D!CopyEnd
    BY <1>3 DEF D!CopyEnd, CallInv, D!TypeOK, Phases, D!C!contractVars, D!InCall, D!After,
                D!Named, D!net
  <1>4. CASE D!Create
    <2>1. CASE file' = file
      BY <1>4, <2>1, Inside DEF D!Create, D!InCall, D!net
    <2>2. CASE file' # file
      BY <1>4, <2>2
      DEF D!Create, CallInv, Phases, D!InCall, D!After, D!net,
          D!C!Begin, D!C!Untouched, D!C!ContractNext
    <2>3. QED
      BY <2>1, <2>2
  <1>5. CASE D!Write
    <2>1. CASE file' = file
      BY <1>5, <2>1, Inside DEF D!Write, D!InCall, D!net
    <2>2. CASE file' # file
      BY <1>5, <2>2
      DEF D!Write, CallInv, Phases, D!InCall, D!After, D!net, D!C!Finish, D!C!Complete,
          D!C!ContractNext
    <2>3. QED
      BY <2>1, <2>2
  <1>6. CASE D!Remove
    BY <1>6 DEF D!Remove, CallInv, Phases, D!InCall, D!After, D!Named, D!net, D!C!Litter,
                D!C!ContractNext
  <1>7. CASE D!Cancel
    BY <1>7 DEF D!Cancel, CallInv, D!TypeOK, Phases, Told, D!InCall, D!After,
                D!Named, D!net, D!C!Return, D!C!Complete, D!C!Untouched, D!C!ContractNext
  <1>8. CASE D!Prompt \/ D!ReadKey \/ D!NextKey
    BY <1>8, Stutter DEF D!Prompt, D!ReadKey, D!NextKey, D!After, D!net
  <1>9. CASE D!TakeKey \/ D!TakeDone \/ D!Park \/ D!Arrive
    BY <1>9, Stutter DEF D!TakeKey, D!TakeDone, D!Park, D!Arrive, D!net
  <1>10. ASSUME NEW k \in Keys \cup {Esc}, D!Press(k) PROVE UNCHANGED D!C!contractVars
    <2>1. pc' = pc \/ (pc \in D!After /\ pc' \in D!After)
      BY <1>10, QueueFacts DEF D!Press, CallInv, Queue, D!After
    <2>2. QED
      BY <1>10, <2>1, Stutter DEF D!Press, D!net
  <1>11. CASE D!PowerLoss
    BY <1>11 DEF D!PowerLoss, CallInv, D!TypeOK, D!InCall, D!After, D!Named, D!net,
                 D!C!Cut, D!C!Untouched, D!C!ContractNext
  <1>12. CASE D!Collect
    BY <1>12 DEF D!Collect, D!Named, D!net, D!C!Free, D!C!ContractNext
  <1>13. CASE UNCHANGED D!vars
    BY <1>13, Stutter DEF D!vars
  <1>14. QED
    BY <1>1, <1>2, <1>3, <1>4, <1>5, <1>6, <1>7, <1>8, <1>9, <1>10, <1>11, <1>12, <1>13
    DEF D!Next, D!Caller, D!Listener, D!Outside

\* download(), with its listener and its boxes, implements its contract.
THEOREM Implements == Spec => Contract
  <1>1. Init => D!C!ContractInit
    BY DEF Init, D!Init, D!C!ContractInit, D!C!Untouched, D!After, D!Named
  <1>2. CallInv /\ [Next]_vars => [D!C!ContractNext]_(D!C!contractVars)
    BY CallSteps, StepRefines
  <1>3. QED
    BY Invariance, <1>1, <1>2, PTL DEF Spec, Contract, D!Contract, D!C!ContractSpec

\* Who is told "ok" has the whole file if the response told its length, who is
\* told "canceled" what was there before, and the temporary file's removal has
\* been tried for both.
THEOREM PromiseKept == Spec => []D!C!Kept
  <1>1. CallInv => D!C!Kept
    BY DEF CallInv, D!TypeOK, Phases, Told, D!TempGone, D!InCall, D!After,
           D!Named, D!C!Kept, D!C!Untouched
  <1>2. QED
    BY Invariance, <1>1, PTL
=============================================================================
