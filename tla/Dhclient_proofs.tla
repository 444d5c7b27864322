--------------------------- MODULE Dhclient_proofs ---------------------------
(* Proofs about Dhclient, for any interfaces and protocols.                *)
EXTENDS Dhclient, TLAPS

\* Before the loop nothing is taken; in it, nothing has been said to end it;
\* and nothing is said of a request whose result is not in.
Looping ==
    /\ pc = "request" => asked = {} /\ taken = {} /\ said = <<>>
    /\ \A k \in Positions : said[k].about # None => said[k].about \in taken
    /\ pc \in {"request", "loop"} => \A k \in Positions : said[k] \notin Endings

Inv == TypeOK /\ ReportsAddUp /\ Looping

LEMMA Fields == \A w, q : Message(w, q).what = w /\ Message(w, q).about = q
BY DEF Message

LEMMA MessageTypes ==
    /\ \A q \in Requests : /\ Message("configured", q) \in Messages \ Endings
                           /\ Message("failed", q) \in Messages \ Endings
    /\ \A w \in {"no list", "no match", "done", "all"} :
          Message(w, None) \in Messages /\ Message(w, None) \in Endings
    /\ Success \in Messages \ Endings
    /\ Success.what = "successful"
<1>1. \A m \in Endings : m.what \in {"no list", "no match", "done", "all"}
  <2> SUFFICES ASSUME NEW m \in Endings
               PROVE  m.what \in {"no list", "no match", "done", "all"}
    OBVIOUS
  <2>1. PICK w \in {"no list", "no match", "done", "all"} : m = Message(w, None)
    BY DEF Endings
  <2> QED
    BY <2>1, Fields
<1>2. \A q \in Requests : /\ Message("configured", q) \in Reports
                         /\ Message("failed", q) \in Reports
  BY DEF Reports
<1>3. Success.what = "successful"
  BY Fields DEF Success
<1>4. \A w \in {"no list", "no match", "done", "all"} : Message(w, None) \in Endings
  BY DEF Endings
<1>5. Success \notin Endings /\ \A q : /\ Message("configured", q) \notin Endings
                                     /\ Message("failed", q) \notin Endings
  <2>1. \A q : /\ Message("configured", q).what = "configured"
               /\ Message("failed", q).what = "failed"
    BY Fields
  <2> HIDE DEF Message, Success
  <2> QED
    BY <1>1, <1>3, <2>1
<1> QED
  BY <1>2, <1>3, <1>4, <1>5 DEF Messages

\* Only the messages that end the reports say that all are configured.
LEMMA AllIsEnding == \A m \in Messages : m.what = "all" => m \in Endings
<1>1. \A m \in Reports : m.what # "all"
  BY Fields DEF Reports
<1> QED
  BY <1>1, MessageTypes DEF Messages

\* What saying one message, and one with its "Successful", adds.
LEMMA SayOne ==
    ASSUME said \in Seq(Messages), NEW m \in Messages, said' = Append(said, m)
    PROVE  /\ said' \in Seq(Messages) /\ Len(said') = Len(said) + 1
           /\ \A k \in 1..Len(said) : said'[k] = said[k]
           /\ said'[Len(said) + 1] = m
OBVIOUS

LEMMA SayTwo ==
    ASSUME said \in Seq(Messages), NEW m \in Messages, NEW n \in Messages,
           said' = said \o <<m, n>>
    PROVE  /\ said' \in Seq(Messages) /\ Len(said') = Len(said) + 2
           /\ \A k \in 1..Len(said) : said'[k] = said[k]
           /\ said'[Len(said) + 1] = m /\ said'[Len(said) + 2] = n
<1> DEFINE two == <<m, n>>
<1>1. two \in Seq(Messages) /\ Len(two) = 2 /\ two[1] = m /\ two[2] = n
  OBVIOUS
<1> HIDE DEF two
<1> QED
  BY <1>1

LEMMA InitInv == Init => Inv
<1> SUFFICES ASSUME Init PROVE Inv
  OBVIOUS
<1>1. said = <<>> /\ Len(said) = 0 /\ said \in Seq(Messages)
  BY DEF Init
<1>2. TypeOK
  <2>1. heard \in 0..Len(said)
    BY <1>1 DEF Init
  <2>2. /\ asked = {} /\ answered = {} /\ leased = {} /\ taken = {} /\ configured = {}
        /\ pc = "request" /\ beside \in BOOLEAN /\ listening \in BOOLEAN
        /\ expired \in BOOLEAN
    BY DEF Init
  <2> QED
    BY <1>1, <2>1, <2>2 DEF TypeOK
<1>3. ReportsAddUp /\ Looping
  BY <1>1 DEF Init, ReportsAddUp, ReportsMatch, EndsOnce, Looping, Positions
<1> QED
  BY <1>2, <1>3 DEF Inv

\* A message that ends the reports keeps the invariant, from where it may be
\* sent.
LEMMA EndKeeps ==
    ASSUME Inv, NEW m \in Messages, m \in Endings, said' = Append(said, m),
           m.what # "configured", m.about = None, m.what = "all" => taken = asked,
           pc \in {"request", "loop"}, pc' \in {"refused", "leaving"},
           UNCHANGED <<caller, expired, results, heard>>
    PROVE  Inv'
<1>1. /\ said' \in Seq(Messages) /\ Len(said') = Len(said) + 1 /\ Len(said) \in Nat
      /\ \A k \in 1..Len(said) : said'[k] = said[k]
      /\ said'[Len(said')] = m
  <2>1. said \in Seq(Messages) /\ Len(said) \in Nat
    BY DEF Inv, TypeOK
  <2> QED
    BY <2>1, SayOne
<1>2. TypeOK'
  BY <1>1 DEF Inv, TypeOK, caller, results
<1>3. \A k \in Positions' : k = Len(said') \/ (k \in Positions /\ k + 1 \in Positions')
  BY <1>1 DEF Positions
<1>4. \A k \in Positions : said'[k] = said[k] /\ k \in Positions'
  BY <1>1 DEF Positions
<1>5. Looping'
  BY <1>1, <1>3, <1>4 DEF Inv, Looping, results
<1>6. ReportsMatch'
  <2>1. ASSUME NEW k \in Positions', said'[k].what = "configured"
        PROVE  /\ said'[k].about \in configured
               /\ k + 1 \in Positions' /\ said'[k + 1] = Success
    BY <2>1, <1>1, <1>3, <1>4 DEF Inv, ReportsAddUp, ReportsMatch
  <2>2. \A q \in taken : \E k \in Positions' : said'[k].about = q
    BY <1>4 DEF Inv, ReportsAddUp, ReportsMatch
  <2>3. \A q \in configured : \E k \in Positions' : said'[k] = Message("configured", q)
    BY <1>4 DEF Inv, ReportsAddUp, ReportsMatch
  <2>4. ASSUME NEW j \in Positions', NEW k \in Positions',
               said'[j].about # None, said'[j].about = said'[k].about
        PROVE  j = k
    <3>1. j \in Positions /\ k \in Positions
      BY <1>1, <1>3, <2>4
    <3>2. said[j].about # None /\ said[j].about = said[k].about
      BY <1>4, <2>4, <3>1
    <3> QED
      BY <3>1, <3>2 DEF Inv, ReportsAddUp, ReportsMatch
  <2> QED
    BY <2>1, <2>2, <2>3, <2>4 DEF ReportsMatch, results
<1>7. EndsOnce'
  <2>1. \A k \in Positions' : said'[k] \in Endings => k = Len(said')
    BY <1>3, <1>4 DEF Inv, Looping
  <2>2. Positions' # {} /\ said'[Len(said')] \in Endings
    BY <1>1 DEF Positions
  <2> QED
    BY <2>1, <2>2 DEF EndsOnce
<1>8. \A k \in Positions' : said'[k].what = "all" => taken = asked
  BY <1>1, <1>3, <1>4 DEF Inv, ReportsAddUp
<1> QED
  BY <1>2, <1>5, <1>6, <1>7, <1>8 DEF Inv, ReportsAddUp, results

\* The messages that end the reports are such.
LEMMA EndSays ==
    ASSUME Inv, NEW w \in {"no list", "no match", "done", "all"}, Say(Message(w, None)),
           pc \in {"request", "loop"}, pc' \in {"refused", "leaving"},
           w = "all" => taken = asked, UNCHANGED <<caller, expired, results, heard>>
    PROVE  Inv'
<1> DEFINE m == Message(w, None)
<1>1. /\ m \in Messages /\ m \in Endings /\ m.what = w /\ m.about = None
      /\ said' = Append(said, m)
  BY MessageTypes, Fields DEF Say
<1> HIDE DEF m
<1> QED
  BY <1>1, EndKeeps

\* So does the report of a result.
LEMMA TakeKeeps ==
    ASSUME Inv, NEW q \in answered \ taken, Take(q), pc = "loop", pc' = "loop",
           UNCHANGED <<caller, expired, asked, answered, leased, heard>>
    PROVE  Inv'
<1>1. q \in Requests /\ q # None
  <2>1. q \in Requests
    BY DEF Inv, TypeOK
  <2>2. \A r \in Requests : r # <<>>
    BY DEF Requests
  <2> QED
    BY <2>1, <2>2 DEF None
<1>2. Len(said) \in Nat /\ said \in Seq(Messages)
  BY DEF Inv, TypeOK
<1> DEFINE failed == Message("failed", q)
           succeeded == Message("configured", q)
<1>3. /\ said' \in Seq(Messages) /\ Len(said') \in Nat /\ Len(said) <= Len(said')
      /\ \A k \in Positions : said'[k] = said[k] /\ k \in Positions'
      /\ \/ /\ Len(said') = Len(said) + 1 /\ said'[Len(said) + 1] = failed
            /\ configured' = configured
         \/ /\ Len(said') = Len(said) + 2 /\ said'[Len(said) + 1] = succeeded
            /\ said'[Len(said) + 2] = Success
            /\ configured' = configured \cup {q} /\ q \in leased
  <2>1. CASE Say(failed) /\ UNCHANGED configured
    <3>1. failed \in Messages
      BY <1>1, MessageTypes
    <3> QED
      BY <1>2, <2>1, <3>1, SayOne DEF Say, Positions
  <2>2. CASE q \in leased /\ said' = said \o <<succeeded, Success>>
             /\ configured' = configured \cup {q}
    <3>1. succeeded \in Messages /\ Success \in Messages
      BY <1>1, MessageTypes
    <3> QED
      BY <1>2, <2>2, <3>1, SayTwo DEF Positions
  <2> QED
    BY <2>1, <2>2 DEF Take
<1>4. taken' = taken \cup {q} /\ configured \subseteq configured'
  BY <1>3 DEF Take
<1>5. TypeOK'
  BY <1>3, <1>4 DEF Inv, TypeOK, caller
<1>6. ASSUME NEW k \in Positions'
      PROVE  \/ k \in Positions
             \/ said'[k] = failed
             \/ /\ said'[k] = succeeded /\ q \in configured'
                /\ k + 1 \in Positions' /\ said'[k + 1] = Success
             \/ said'[k] = Success
  BY <1>2, <1>3, <1>6 DEF Positions
<1>7. /\ failed \notin Endings /\ succeeded \notin Endings /\ Success \notin Endings
      /\ failed.what = "failed" /\ failed.about = q
      /\ succeeded.what = "configured" /\ succeeded.about = q
      /\ Success.what = "successful"
  BY <1>1, MessageTypes, Fields
<1>8. \A k \in Positions' : said'[k] \notin Endings
  BY <1>3, <1>6, <1>7 DEF Inv, Looping
<1>9. \A k \in Positions : said[k].what # "all"
  <2>1. ASSUME NEW k \in Positions, said[k].what = "all" PROVE FALSE
    <3>1. said[k] \in Messages
      BY <1>2 DEF Positions
    <3>2. said[k] \in Endings
      BY <2>1, <3>1, AllIsEnding
    <3> QED
      BY <3>2 DEF Inv, Looping
  <2> QED
    BY <2>1
<1>10. ReportsMatch'
  <2>1. ASSUME NEW k \in Positions', said'[k].what = "configured"
        PROVE  /\ said'[k].about \in configured'
               /\ k + 1 \in Positions' /\ said'[k + 1] = Success
    <3>1. CASE k \in Positions
      <4>1. said[k].what = "configured"
        BY <1>3, <2>1, <3>1
      <4>2. said[k].about \in configured /\ k + 1 \in Positions /\ said[k + 1] = Success
        BY <3>1, <4>1 DEF Inv, ReportsAddUp, ReportsMatch
      <4> QED
        BY <1>3, <1>4, <3>1, <4>2
    <3> QED
      BY <1>6, <1>7, <2>1, <3>1
  <2>2. ASSUME NEW p \in taken' PROVE \E k \in Positions' : said'[k].about = p
    <3>1. CASE p = q
      BY <1>2, <1>3, <1>7, <3>1 DEF Positions
    <3>2. CASE p \in taken
      BY <1>3, <3>2 DEF Inv, ReportsAddUp, ReportsMatch
    <3> QED
      BY <1>4, <2>2, <3>1, <3>2
  <2>3. ASSUME NEW p \in configured'
        PROVE  \E k \in Positions' : said'[k] = Message("configured", p)
    <3>1. CASE p \in configured
      BY <1>3, <3>1 DEF Inv, ReportsAddUp, ReportsMatch
    <3>2. CASE p = q /\ p \notin configured
      BY <1>2, <1>3, <2>3, <3>2 DEF Positions
    <3> QED
      BY <1>3, <2>3, <3>1, <3>2
  <2>4. ASSUME NEW j \in Positions', NEW k \in Positions',
               said'[j].about # None, said'[j].about = said'[k].about
        PROVE  j = k
    <3>1. \A i \in Positions : said'[i].about # None => said'[i].about \in taken
      BY <1>3 DEF Inv, Looping
    <3>2. \A i \in Positions' :
              \/ i \in Positions
              \/ i = Len(said) + 1 /\ said'[i].about = q
              \/ said'[i].about = None
      <4>1. \A i \in Positions' : i \in Positions \/ i = Len(said) + 1 \/ i = Len(said) + 2
        BY <1>2, <1>3 DEF Positions
      <4>2. Success.about = None
        BY Fields DEF Success
      <4>3. Len(said) + 2 \in Positions' => said'[Len(said) + 2] = Success
        BY <1>2, <1>3 DEF Positions
      <4>4. said'[Len(said) + 1].about = q
        BY <1>3, <1>7
      <4> TAKE i \in Positions'
      <4>5. CASE i = Len(said) + 2
        <5>1. said'[i].about = None
          BY <4>2, <4>3, <4>5
        <5> QED
          BY <5>1
      <4>6. CASE i = Len(said) + 1
        BY <4>4, <4>6
      <4> QED
        BY <4>1, <4>5, <4>6
    <3>3. CASE j \in Positions /\ k \in Positions
      BY <1>3, <2>4, <3>3 DEF Inv, ReportsAddUp, ReportsMatch
    <3> QED
      BY <2>4, <3>1, <3>2, <3>3
  <2> QED
    BY <2>1, <2>2, <2>3, <2>4 DEF ReportsMatch
<1>11. \A k \in Positions' : said'[k].what # "all"
  BY <1>3, <1>6, <1>7, <1>9
<1>12. EndsOnce'
  <2>1. Positions' = {} \/ Len(said') \in Positions'
    BY <1>3 DEF Positions
  <2> QED
    BY <1>8, <2>1 DEF EndsOnce
<1>13. Looping'
  <2>1. ASSUME NEW k \in Positions', said'[k].about # None PROVE said'[k].about \in taken'
    <3>1. CASE k \in Positions
      BY <1>3, <1>4, <2>1, <3>1 DEF Inv, Looping
    <3> QED
      BY <1>4, <1>6, <1>7, <2>1, <3>1, Fields DEF Success
  <2> QED
    BY <1>8, <2>1 DEF Looping
<1> QED
  BY <1>5, <1>10, <1>11, <1>12, <1>13 DEF Inv, ReportsAddUp

\* A step that says nothing and takes nothing.
LEMMA QuietKeeps ==
    ASSUME ReportsAddUp, Looping, UNCHANGED <<asked, taken, configured, said>>,
           pc' # "request" \/ pc' = pc, pc' = "loop" => pc = "loop",
           pc' \in {"refused", "leaving", "ended"} <=> pc \in {"refused", "leaving", "ended"},
           pc' = "ended" => Idle'
    PROVE  ReportsAddUp' /\ Looping'
<1>1. Positions' = Positions
  BY DEF Positions
<1>2. ReportsMatch'
  BY <1>1 DEF ReportsAddUp, ReportsMatch
<1>3. EndsOnce'
  BY <1>1 DEF ReportsAddUp, EndsOnce
<1> QED
  BY <1>1, <1>2, <1>3 DEF ReportsAddUp, Looping

LEMMA StepInv == Inv /\ [Next]_vars => Inv'
<1> SUFFICES ASSUME Inv, [Next]_vars PROVE Inv'
  OBVIOUS
<1>1. CASE Request
  <2>1. CASE pc' = "loop" /\ said' = said
             /\ \E ls \in (SUBSET Links) \ {{}}, ps \in SUBSET Protocols : asked' = ls \X ps
    <3>1. asked' \subseteq Requests
      BY <2>1 DEF Requests
    <3>2. asked = {} /\ taken = {} /\ said = <<>>
      BY <1>1 DEF Inv, Looping, Request
    <3>3. TypeOK'
      BY <1>1, <2>1, <3>1, <3>2 DEF Inv, TypeOK, Request, caller
    <3>4. ReportsAddUp' /\ Looping'
      BY <1>1, <2>1, <3>2 DEF Inv, TypeOK, ReportsAddUp, ReportsMatch, EndsOnce, Looping, Positions, Request
    <3> QED
      BY <3>3, <3>4 DEF Inv
  <2>2. CASE \E w \in {"no list", "no match"} : /\ Say(Message(w, None))
                                                /\ pc' = "refused" /\ asked' = asked
    BY <1>1, <2>2, EndSays DEF Request, results
  <2> QED
    BY <1>1, <2>1, <2>2 DEF Request
<1>2. CASE Answer
  <2>1. TypeOK'
    BY <1>2 DEF Inv, TypeOK, Answer, caller
  <2>2. ReportsAddUp' /\ Looping'
    <3>1. UNCHANGED <<pc, asked, taken, configured, said, heard>>
      BY <1>2 DEF Answer
    <3>2. pc = "ended" => Idle'
      BY <3>1 DEF Inv, ReportsAddUp, EndsOnce, Idle
    <3> QED
      BY <3>1, <3>2, QuietKeeps DEF Inv
  <2> QED
    BY <2>1, <2>2 DEF Inv
<1>3. CASE Done
  BY <1>3, EndSays DEF Done
<1>4. CASE AllAnswered
  BY <1>4, EndSays DEF AllAnswered
<1>5. CASE Result
  BY <1>5, TakeKeeps DEF Result
<1>6. CASE Expire \/ Close \/ StopReceiving
  <2>1. TypeOK'
    BY <1>6 DEF Inv, TypeOK, Expire, Close, StopReceiving, caller, results
  <2>2. ReportsAddUp' /\ Looping'
    <3>1. UNCHANGED <<results, said, heard>>
      BY <1>6 DEF Expire, Close, StopReceiving
    <3>2. \/ pc' = pc
          \/ pc' = "ended" /\ pc \in {"refused", "leaving"} /\ Idle
      BY <1>6 DEF Expire, Close, StopReceiving
    <3>3. pc' = "ended" => Idle'
      BY <3>1, <3>2 DEF Inv, ReportsAddUp, EndsOnce, Idle
    <3> QED
      BY <3>1, <3>2, <3>3, QuietKeeps DEF Inv, results
  <2> QED
    BY <2>1, <2>2 DEF Inv
<1>7. CASE Receive
  <2>1. heard' \in 0..Len(said)
    BY <1>7 DEF Inv, TypeOK, Receive, Idle
  <2>2. TypeOK'
    BY <1>7, <2>1 DEF Inv, TypeOK, Receive, caller, results
  <2>3. ReportsAddUp' /\ Looping'
    <3>1. UNCHANGED <<pc, results, said>> /\ pc # "ended"
      BY <1>7 DEF Receive, Inv, ReportsAddUp, EndsOnce
    <3> QED
      BY <3>1, QuietKeeps DEF Inv, results
  <2> QED
    BY <2>2, <2>3 DEF Inv
<1>8. CASE UNCHANGED vars
  <2>1. TypeOK'
    BY <1>8 DEF vars, Inv, TypeOK, caller, results
  <2>2. ReportsAddUp' /\ Looping'
    <3>1. pc = "ended" => Idle'
      BY <1>8 DEF vars, Inv, ReportsAddUp, EndsOnce, Idle
    <3> QED
      BY <1>8, <3>1, QuietKeeps DEF Inv, vars, results
  <2> QED
    BY <2>1, <2>2 DEF Inv
<1> QED
  BY <1>1, <1>2, <1>3, <1>4, <1>5, <1>6, <1>7, <1>8 DEF Next, ConfigureAll

\* Only a lease that came without an error is configured, and each result is
\* taken once (configureAll).
THEOREM TypeCorrect == Spec => []TypeOK
<1>1. Inv => TypeOK
  BY DEF Inv
<1> QED
  BY InitInv, StepInv, <1>1, PTL DEF Spec

\* For any interfaces and protocols the messages on cl add up: one report for
\* each result, "Successful" after each lease that was configured, one last
\* message, received before cl is closed, and "Configured all interfaces" only
\* when every request has its report (Request, configureAll).
THEOREM ReportsAlwaysAddUp == Spec => []ReportsAddUp
<1>1. Inv => ReportsAddUp
  BY DEF Inv
<1> QED
  BY InitInv, StepInv, <1>1, PTL DEF Spec
=============================================================================
