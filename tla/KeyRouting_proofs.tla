-------------------------- MODULE KeyRouting_proofs --------------------------
(***************************************************************************)
(* For any number of bytes typed, wherever escape sequences stand among    *)
(* them, and of calls of ui.PollEvents(): the reader's buffer has one      *)
(* holder, and one poller alone delivers every key whole, once and in      *)
(* order.                                                                  *)
(***************************************************************************)
EXTENDS KeyRouting, TLAPS

\* A poller that has extracted an event has its one byte or two.
InHand == \A p \in Pollers : at[p] \in {"shift", "pop", "cut", "send"} => N(p) \in 1..2

Typed == TypeOK /\ InHand

\* One more cell of the array behind inbuf holds a byte that was typed.
LEMMA WrittenType ==
    ASSUME TypeOK
    PROVE  /\ Written(len) \in Seq(Bytes)
           /\ Len(Written(len)) >= Len(cells)
           /\ Len(Written(len)) >= len + (high - low + 1)
           /\ len + (high - low + 1) \in Nat
           /\ \A i \in 1..Len(Written(len)) :
                 Written(len)[i] = IF i > len /\ i <= len + (high - low + 1)
                                   THEN low + (i - len - 1) ELSE cells[i]
  <1> DEFINE end == len + (high - low + 1)
             n == IF end > Len(cells) THEN end ELSE Len(cells)
             f == [i \in 1..n |-> IF i > len /\ i <= end THEN low + (i - len - 1) ELSE cells[i]]
  <1>1. /\ len \in Nat /\ high \in Nat /\ low \in Nat /\ low >= 1 /\ low <= high + 1
        /\ high <= MaxBytes /\ Len(cells) \in Nat /\ len <= Len(cells) /\ MaxBytes \in Nat
    BY KeyRoutingAssumption DEF TypeOK
  <1>2. end \in Nat /\ n \in Nat /\ n >= end /\ n >= Len(cells)
    BY <1>1
  <1>3. ASSUME NEW i \in 1..n
        PROVE  (IF i > len /\ i <= end THEN low + (i - len - 1) ELSE cells[i]) \in Bytes
    <2>1. CASE i > len /\ i <= end
      BY <1>1, <1>2, <2>1 DEF Bytes
    <2>2. CASE ~(i > len /\ i <= end)
      <3>1. i \in 1..Len(cells)
        BY <1>1, <1>2, <2>2
      <3>2. cells[i] \in Bytes
        BY <3>1 DEF TypeOK
      <3>3. QED
        BY <2>2, <3>2
    <2>3. QED
      BY <2>1, <2>2
  <1>4. f \in Seq(Bytes) /\ Len(f) = n
    <2>1. f \in [1..n -> Bytes]
      BY <1>3
    <2>2. QED
      BY <1>2, <2>1
  <1>5. Written(len) = f
    BY DEF Written
  <1>6. \A i \in 1..n : f[i] = IF i > len /\ i <= end THEN low + (i - len - 1) ELSE cells[i]
    OBVIOUS
  <1>7. QED
    BY <1>2, <1>4, <1>5, <1>6

\* What is found at the front of inbuf is a byte of it or two.
LEMMA EventType ==
    ASSUME TypeOK, len > 0
    PROVE  /\ Event \in Seq(Bytes) /\ Len(Event) \in 1..2
           /\ \/ Event = <<cells[1]>>
              \/ /\ len > 1 /\ Event = <<cells[1], cells[2]>>
                 /\ cells[1] \in Heads /\ cells[2] \in Tails
           /\ \A j \in 1..Len(Event) : Event[j] = cells[j] /\ j <= len
  <1>1. /\ cells \in Seq(Bytes) /\ len \in Nat /\ Len(cells) \in Nat
        /\ len <= Len(cells) /\ cells[1] \in Bytes /\ (len > 1 => cells[2] \in Bytes)
    BY DEF TypeOK
  <1>2. CASE len > 1 /\ cells[1] \in Heads /\ cells[2] \in Tails
    <2>1. Event = <<cells[1], cells[2]>>
      BY <1>2 DEF Event
    <2>2. QED
      BY <1>1, <1>2, <2>1
  <1>3. CASE ~(len > 1 /\ cells[1] \in Heads /\ cells[2] \in Tails)
    <2>1. Event = <<cells[1]>>
      BY <1>3 DEF Event
    <2>2. QED
      BY <1>1, <2>1
  <1>4. QED
    BY <1>2, <1>3

\* The queue of input_comm after a receiver has come or gone.
LEMMA QueueType ==
    ASSUME TypeOK
    PROVE  /\ \A r \in Pollers \cup {Reader} : Append(waiting, r) \in Seq(Pollers \cup {Reader})
           /\ waiting # <<>> => /\ Head(waiting) \in Pollers \cup {Reader}
                                /\ Tail(waiting) \in Seq(Pollers \cup {Reader})
  BY DEF TypeOK

\* At first nothing is typed and the buffer is empty.
LEMMA TypeInit == Init => Typed
  <1> SUFFICES ASSUME Init PROVE Typed
    OBVIOUS
  <1>1. MaxBytes \in Nat /\ 1 \in Pollers
    BY KeyRoutingAssumption DEF Pollers
  <1>2. crashed \in BOOLEAN
    BY Zenon DEF Init
  <1>3. /\ waiting \in Seq(Pollers \cup {Reader}) /\ delivered \in Seq(Seq(Bytes))
        /\ cells \in Seq(Bytes) /\ Len(cells) = 0
    BY DEF Init
  <1>4. at \in [Pollers -> Places]
    BY DEF Init, Places
  <1>5. /\ key \in [Pollers -> Seq(Bytes)] /\ mark \in [Pollers -> 0..Len(cells)]
    BY <1>3 DEF Init
  <1>6. TypeOK
    BY <1>1, <1>2, <1>3, <1>4, <1>5 DEF Init, TypeOK
  <1>7. InHand
    BY DEF Init, InHand
  <1>8. QED
    BY <1>6, <1>7 DEF Typed

\* Every step keeps the types.
LEMMA TypeStep == Typed /\ [Next]_vars => TypeOK'
  <1> SUFFICES ASSUME TypeOK, InHand, [Next]_vars PROVE TypeOK'
    BY DEF Typed
  <1>n. MaxBytes \in Nat /\ MaxPollers \in Nat /\ 1 \in Pollers
    BY KeyRoutingAssumption DEF Pollers
  <1>1. ASSUME Read \/ Send \/ Recv PROVE TypeOK'
    <2>1. CASE Read
      BY <1>n, <2>1 DEF TypeOK, Read, inbuf, prog
    <2>2. CASE Send
      <3>1. at' \in [Pollers -> Places]
        BY <2>2 DEF TypeOK, Send, Goto, Places
      <3>2. waiting' \in Seq(Pollers \cup {Reader})
        BY <2>2, QueueType DEF Send
      <3>3. QED
        BY <2>2, <3>1, <3>2 DEF TypeOK, Send, tty, inbuf, prog
    <2>3. CASE Recv
      <3>1. waiting' \in Seq(Pollers \cup {Reader})
        BY <2>3, QueueType DEF Recv
      <3>2. QED
        BY <2>3, <3>1 DEF TypeOK, Recv, tty, inbuf, prog
    <2>4. QED
      BY <1>1, <2>1, <2>2, <2>3
  <1>2. ASSUME NEW p \in Pollers, Extract(p) PROVE TypeOK'
    <2>1. len > 0 => Event \in Seq(Bytes)
      BY EventType
    <2>2. QED
      BY <1>2, <2>1 DEF TypeOK, Extract, Goto, Places, tty, inbuf, prog
  <1>3. ASSUME NEW p \in Pollers, OutOfRange(p) PROVE TypeOK'
    BY <1>3 DEF TypeOK, OutOfRange, tty, inbuf, prog
  <1>4. ASSUME NEW p \in Pollers, Shift(p) PROVE TypeOK'
    <2>1. cells' \in Seq(Bytes) /\ Len(cells') = Len(cells)
      <3>1. DOMAIN cells = 1..Len(cells) /\ Len(cells) \in Nat
        BY DEF TypeOK
      <3>2. len \in 0..Len(cells) /\ N(p) \in 1..2 /\ at[p] = "shift"
        BY <1>4 DEF TypeOK, InHand, Shift, Goto
      <3>3. \A i \in 1..Len(cells) :
               (IF i <= len - N(p) THEN cells[i + N(p)] ELSE cells[i]) \in Bytes
        BY <3>1, <3>2 DEF TypeOK
      <3>4. cells' = [i \in 1..Len(cells) |-> IF i <= len - N(p) THEN cells[i + N(p)] ELSE cells[i]]
        BY <1>4, <3>1 DEF Shift
      <3>5. QED
        BY <3>1, <3>3, <3>4
    <2>2. QED
      BY <1>4, <2>1 DEF TypeOK, Shift, Goto, Places, tty, prog
  <1>5. ASSUME NEW p \in Pollers, Pop(p) PROVE TypeOK'
    <2>1. N(p) \in 1..2 /\ len \in 0..Len(cells) /\ Len(cells) \in Nat /\ len >= N(p)
      BY <1>5 DEF TypeOK, InHand, Pop, Goto
    <2>2. len - N(p) \in 0..Len(cells)
      BY <2>1
    <2>3. QED
      BY <1>5, <2>2 DEF TypeOK, Pop, Goto, Places, tty, inbuf, prog
  <1>6. ASSUME NEW p \in Pollers, Cut(p) PROVE TypeOK'
    BY <1>6 DEF TypeOK, Cut, Goto, Places, tty, prog
  <1>7. ASSUME NEW p \in Pollers, Select(p) PROVE TypeOK'
    BY <1>7, QueueType DEF TypeOK, Select, Goto, Places, tty, inbuf, prog
  <1>8. ASSUME NEW p \in Pollers, Copy(p) PROVE TypeOK'
    <2>1. cells' \in Seq(Bytes) /\ Len(cells') >= Len(cells) /\ Len(cells') \in Nat
      BY <1>8, WrittenType DEF Copy
    <2>2. len + (high - low + 1) \in 0..Len(cells')
      BY <1>8, <2>1, WrittenType DEF Copy
    <2>3. mark' \in [Pollers -> 0..Len(cells')]
      <3>1. mark' = [mark EXCEPT ![p] = len + (high - low + 1)]
        BY <1>8 DEF Copy
      <3>2. \A q \in Pollers : mark[q] \in 0..Len(cells')
        BY <2>1 DEF TypeOK
      <3>3. mark \in [Pollers -> 0..Len(cells')]
        BY <3>2 DEF TypeOK
      <3>4. QED
        BY <2>2, <3>1, <3>3
    <2>4. at' \in [Pollers -> Places]
      BY <1>8 DEF TypeOK, Copy, Goto, Places
    <2>5. len' = len /\ len' \in 0..Len(cells')
      BY <1>8, <2>1 DEF TypeOK, Copy
    <2>6. QED
      BY <1>8, <2>1, <2>3, <2>4, <2>5 DEF TypeOK, Copy, tty, prog
  <1>9. ASSUME NEW p \in Pollers, Grow(p) PROVE TypeOK'
    BY <1>9 DEF TypeOK, Grow, Goto, Places, tty, prog
  <1>10. ASSUME NEW p \in Pollers, Give(p) PROVE TypeOK'
    BY <1>10, QueueType DEF TypeOK, Give, Goto, Places, tty, inbuf, prog
  <1>11. ASSUME NEW p \in Pollers, Deliver(p) PROVE TypeOK'
    <2>1. key[p] \in Seq(Bytes) /\ <<>> \in Seq(Bytes) /\ delivered \in Seq(Seq(Bytes))
      BY DEF TypeOK
    <2>2. /\ Append(delivered, key[p]) \in Seq(Seq(Bytes))
          /\ [key EXCEPT ![p] = <<>>] \in [Pollers -> Seq(Bytes)]
      BY <2>1 DEF TypeOK
    <2>3. at' \in [Pollers -> Places]
      BY <1>11 DEF TypeOK, Deliver, Goto, Places
    <2>4. QED
      BY <1>11, <2>2, <2>3 DEF TypeOK, Deliver, tty, inbuf
  <1>12. ASSUME ReadKey \/ PollEvents PROVE TypeOK'
    <2>1. CASE ReadKey
      BY <2>1 DEF TypeOK, ReadKey, tty, inbuf
    <2>2. CASE PollEvents
      <3>1. cur' \in Pollers
        BY <1>n, <2>2 DEF TypeOK, PollEvents, Pollers
      <3>2. at' \in [Pollers -> Places]
        BY <2>2 DEF TypeOK, PollEvents, Places
      <3>3. QED
        BY <2>2, <3>1, <3>2 DEF TypeOK, PollEvents, tty, inbuf
    <2>3. QED
      BY <1>12, <2>1, <2>2
  <1>13. ASSUME Type PROVE TypeOK'
    <2>1. typed' \in 0..MaxBytes /\ typed' >= typed /\ typed' \in Nat
      BY <1>13, <1>n, KeyRoutingAssumption DEF TypeOK, Type
    <2>2. high \in 0..typed'
      BY <2>1, <1>n DEF TypeOK
    <2>3. QED
      BY <1>13, <2>1, <2>2 DEF TypeOK, Type, inbuf, prog
  <1>14. ASSUME UNCHANGED vars PROVE TypeOK'
    BY <1>14 DEF TypeOK, vars
  <1>15. QED
    BY <1>1, <1>2, <1>3, <1>4, <1>5, <1>6, <1>7, <1>8, <1>9, <1>10, <1>11, <1>12, <1>13, <1>14
    DEF Next, ReadInput, PollEvent, Program, User

\* Every step keeps the key with its poller.
LEMMA InHandStep == Typed /\ [Next]_vars => InHand'
  <1> SUFFICES ASSUME TypeOK, InHand, [Next]_vars PROVE InHand'
    BY DEF Typed
  <1> USE DEF InHand, N
  <1>a. at \in [Pollers -> Places] /\ key \in [Pollers -> Seq(Bytes)]
    BY DEF TypeOK
  <1>1. ASSUME Read \/ Recv \/ ReadKey \/ Type \/ UNCHANGED vars PROVE InHand'
    BY <1>1 DEF Read, Recv, ReadKey, Type, vars
  <1>2. ASSUME Send \/ PollEvents PROVE InHand'
    BY <1>2, <1>a DEF Send, PollEvents, Goto
  <1>3. ASSUME NEW p \in Pollers, Extract(p) PROVE InHand'
    <2>1. len > 0 => Len(Event) \in 1..2
      BY EventType
    <2>2. QED
      BY <1>3, <1>a, <2>1 DEF Extract, Goto
  <1>4. ASSUME NEW p \in Pollers,
               OutOfRange(p) \/ Shift(p) \/ Pop(p) \/ Cut(p) \/ Deliver(p)
        PROVE  InHand'
    BY <1>4, <1>a DEF OutOfRange, Shift, Pop, Cut, Deliver, Goto
  <1>5. ASSUME NEW p \in Pollers, Select(p) \/ Copy(p) \/ Grow(p) \/ Give(p)
        PROVE  InHand'
    BY <1>5, <1>a DEF Select, Copy, Grow, Give, Goto
  <1>6. QED
    BY <1>1, <1>2, <1>3, <1>4, <1>5 DEF Next, ReadInput, PollEvent, Program, User

\* Types and events in hand, in every reachable state.
LEMMA TypeInvariance == Spec => []Typed
  <1>1. Typed /\ [Next]_vars => Typed'
    BY TypeStep, InHandStep DEF Typed
  <1>2. QED
    BY TypeInit, <1>1, PTL DEF Spec

\* The variables keep their types: no length of inbuf is stored that its
\* array does not have (tb.PollEvent), however its accesses race.
THEOREM TypeCorrect == Spec => []TypeOK
  <1>1. Typed => TypeOK
    BY DEF Typed
  <1>2. QED
    BY TypeInvariance, <1>1, PTL

-----------------------------------------------------------------------------
(* One holder of the buffer.                                               *)

\* Who is parked on input_comm: each receiver once, the reader only while it
\* waits for its buffer.
Queue ==
    /\ \A i \in 1..Len(waiting) :
          IF waiting[i] = Reader THEN reader = "parked" ELSE at[waiting[i]] = "parked"
    /\ \A i, j \in 1..Len(waiting) : waiting[i] = waiting[j] => i = j
    /\ \A p \in Pollers : at[p] = "none" <=> p > cur

Token == Typed /\ Queue /\ BufferOwned

\* At first one poller runs and nobody waits.
LEMMA TokenInit == Init => Queue /\ BufferOwned
  BY KeyRoutingAssumption DEF Init, Queue, BufferOwned, Owns, Pollers

\* What the head of the queue is, and what stays when it leaves.
LEMMA HeadFacts ==
    ASSUME TypeOK, Queue, waiting # <<>>
    PROVE  /\ Head(waiting) \in Pollers \cup {Reader}
           /\ Head(waiting) = Reader => reader = "parked"
           /\ Head(waiting) # Reader => at[Head(waiting)] = "parked"
           /\ Len(Tail(waiting)) = Len(waiting) - 1 /\ Len(waiting) \in Nat
           /\ \A i \in 1..Len(Tail(waiting)) :
                 Tail(waiting)[i] = waiting[i + 1] /\ waiting[i + 1] # Head(waiting)
  BY DEF TypeOK, Queue

\* A receiver that comes stands behind the others.
LEMMA AppendFacts ==
    ASSUME TypeOK, NEW r \in Pollers \cup {Reader}
    PROVE  /\ Len(Append(waiting, r)) = Len(waiting) + 1 /\ Len(waiting) \in Nat
           /\ Append(waiting, r)[Len(waiting) + 1] = r
           /\ \A i \in 1..Len(waiting) : Append(waiting, r)[i] = waiting[i]
  BY DEF TypeOK

\* Every step keeps the queue.
LEMMA QueueStep == TypeOK /\ Queue /\ [Next]_vars => Queue'
  <1> SUFFICES ASSUME TypeOK, Queue, [Next]_vars PROVE Queue'
    OBVIOUS
  <1> USE DEF prog
  <1>a. at \in [Pollers -> Places] /\ Reader \notin Pollers /\ 1 \in Pollers
        /\ cur \in Pollers /\ cur \in Nat /\ Pollers \subseteq Nat
    BY KeyRoutingAssumption DEF TypeOK, Pollers, Reader
  <1>b. \A i \in 1..Len(waiting) : waiting[i] \in Pollers \cup {Reader}
    BY DEF TypeOK
  <1>1. ASSUME Read \/ ReadKey \/ Type \/ UNCHANGED vars PROVE Queue'
    BY <1>1 DEF Queue, Read, ReadKey, Type, vars
  <1>2. CASE Send
    BY <1>2, <1>a, <1>b, HeadFacts DEF Queue, Send, Goto
  <1>3. CASE Recv
    BY <1>3, <1>a, <1>b, AppendFacts DEF Queue, Recv
  <1>4. ASSUME NEW p \in Pollers, Select(p) PROVE Queue'
    BY <1>4, <1>a, <1>b, AppendFacts DEF Queue, Select, Goto
  <1>5. ASSUME NEW p \in Pollers, Give(p) PROVE Queue'
    <2>1. CASE Head(waiting) = Reader
      BY <1>5, <1>a, <1>b, <2>1, HeadFacts DEF Queue, Give, Goto
    <2>2. CASE Head(waiting) # Reader
      <3>1. PICK h \in Pollers : h = Head(waiting)
        BY <1>5, <2>2, HeadFacts DEF Give
      <3>2. /\ at[p] = "give" /\ at[h] = "parked" /\ reader' = reader /\ cur' = cur
            /\ at' = [at EXCEPT ![p] = "extract", ![h] = "append"]
            /\ waiting' = Tail(waiting) /\ waiting # <<>>
        BY <1>5, <2>2, <3>1, HeadFacts DEF Give
      <3>3. \A q \in Pollers : q \notin {p, h} => at'[q] = at[q]
        BY <1>a, <3>2
      <3>4. \A q \in Pollers : at'[q] = "none" <=> q > cur
        BY <1>a, <3>2, <3>3 DEF Queue
      <3>5. \A i \in 1..Len(waiting') : waiting'[i] = waiting[i + 1] /\ waiting[i + 1] # h
                                        /\ i + 1 \in 1..Len(waiting)
        BY <3>1, <3>2, HeadFacts
      <3>6. \A i \in 1..Len(waiting') :
              IF waiting'[i] = Reader THEN reader' = "parked" ELSE at'[waiting'[i]] = "parked"
        <4> SUFFICES ASSUME NEW i \in 1..Len(waiting')
                     PROVE  IF waiting'[i] = Reader THEN reader' = "parked"
                            ELSE at'[waiting'[i]] = "parked"
          OBVIOUS
        <4>1. waiting'[i] = waiting[i + 1] /\ i + 1 \in 1..Len(waiting) /\ waiting'[i] # h
          BY <3>5
        <4>2. IF waiting'[i] = Reader THEN reader = "parked" ELSE at[waiting'[i]] = "parked"
          BY <4>1 DEF Queue
        <4>3. waiting'[i] # Reader => waiting'[i] \in Pollers \ {p, h}
          BY <1>b, <3>2, <4>1, <4>2
        <4>4. QED
          BY <3>2, <3>3, <4>2, <4>3
      <3>7. \A i, j \in 1..Len(waiting') : waiting'[i] = waiting'[j] => i = j
        BY <3>2, <3>5, HeadFacts DEF Queue
      <3>8. QED
        BY <3>2, <3>4, <3>6, <3>7 DEF Queue
    <2>3. QED
      BY <2>1, <2>2
  <1>6. ASSUME NEW p \in Pollers,
               \/ Extract(p) \/ OutOfRange(p) \/ Shift(p) \/ Pop(p) \/ Cut(p)
               \/ Copy(p) \/ Grow(p) \/ Deliver(p)
        PROVE  Queue'
    BY <1>6, <1>a, <1>b
    DEF Queue, Extract, OutOfRange, Shift, Pop, Cut, Copy, Grow, Deliver, Goto
  <1>7. CASE PollEvents
    <2>1. cur + 1 \in Pollers /\ at[cur + 1] = "none"
      BY <1>7, KeyRoutingAssumption DEF TypeOK, PollEvents, Pollers, Queue
    <2>2. QED
      BY <1>7, <1>a, <1>b, <2>1 DEF Queue, PollEvents
  <1>8. QED
    BY <1>1, <1>2, <1>3, <1>4, <1>5, <1>6, <1>7
    DEF Next, ReadInput, PollEvent, Program, User

\* Every step hands the buffer on or leaves it with its holder.
LEMMA OwnedStep == TypeOK /\ Queue /\ BufferOwned /\ [Next]_vars => BufferOwned'
  <1> SUFFICES ASSUME TypeOK, Queue, BufferOwned, [Next]_vars PROVE BufferOwned'
    OBVIOUS
  <1> USE DEF BufferOwned, Owns
  <1>a. at \in [Pollers -> Places] /\ Reader \notin Pollers
    BY KeyRoutingAssumption DEF TypeOK, Pollers, Reader
  <1>1. ASSUME Read \/ Recv \/ ReadKey \/ Type \/ UNCHANGED vars PROVE BufferOwned'
    BY <1>1 DEF Read, Recv, ReadKey, Type, vars
  <1>2. CASE Send
    BY <1>2, <1>a, HeadFacts DEF Send, Goto
  <1>3. CASE PollEvents
    <2>1. cur + 1 \in Pollers /\ at[cur + 1] = "none"
      BY <1>3, KeyRoutingAssumption DEF TypeOK, PollEvents, Pollers, Queue
    <2>2. \A p \in Pollers : at'[p] = at[p] \/ (at[p] = "none" /\ at'[p] = "extract")
      BY <1>3, <1>a, <2>1 DEF PollEvents
    <2>3. reader' = reader
      BY <1>3 DEF PollEvents
    <2>4. QED
      BY <2>2, <2>3
  <1>4. ASSUME NEW p \in Pollers, Give(p) PROVE BufferOwned'
    BY <1>4, <1>a, HeadFacts DEF Give, Goto
  <1>5. ASSUME NEW p \in Pollers,
               \/ Extract(p) \/ OutOfRange(p) \/ Shift(p) \/ Pop(p) \/ Cut(p)
               \/ Select(p) \/ Copy(p) \/ Grow(p) \/ Deliver(p)
        PROVE  BufferOwned'
    BY <1>5, <1>a
    DEF Extract, OutOfRange, Shift, Pop, Cut, Select, Copy, Grow, Deliver, Goto
  <1>6. QED
    BY <1>1, <1>2, <1>3, <1>4, <1>5 DEF Next, ReadInput, PollEvent, Program, User

\* The invariant of the buffer, in every reachable state.
LEMMA TokenInvariance == Spec => []Token
  <1>1. Init => Token
    BY TypeInit, TokenInit DEF Token
  <1>2. Token /\ [Next]_vars => Token'
    BY TypeStep, InHandStep, QueueStep, OwnedStep DEF Token, Typed
  <1>3. QED
    BY <1>1, <1>2, PTL DEF Spec

\* For any number of abandoned pollers the buffer has one holder at any time:
\* no two goroutines append at once, none reads what the terminal overwrites,
\* and the buffer is never lost.
THEOREM OneHolder == Spec => []BufferOwned
  <1>1. Token => BufferOwned
    BY DEF Token
  <1>2. QED
    BY TokenInvariance, <1>1, PTL

-----------------------------------------------------------------------------
(* What the race cannot do.                                                *)

\* A byte, or the first byte of an escape sequence and the last of one, all
\* of them among the first n.
MadeOf(k, n) ==
    \/ \E b \in Bytes : b <= n /\ k = <<b>>
    \/ \E h \in Heads, t \in Tails : h <= n /\ t <= n /\ k = <<h, t>>

\* What is in inbuf, in hand or delivered has been read from the terminal.
OnlyRead ==
    /\ \A i \in 1..Len(cells) : cells[i] <= high
    /\ \A p \in Pollers : at[p] \in {"shift", "pop", "cut", "send"} => MadeOf(key[p], high)
    /\ \A i \in 1..Len(delivered) : MadeOf(delivered[i], high)

\* Every step leaves only such keys.
LEMMA OnlyReadStep == Typed /\ OnlyRead /\ [Next]_vars => OnlyRead'
  <1> SUFFICES ASSUME TypeOK, InHand, OnlyRead, [Next]_vars PROVE OnlyRead'
    BY DEF Typed
  <1>a. /\ high \in Nat /\ typed \in Nat /\ high <= typed /\ low \in Nat /\ len \in Nat
        /\ Len(cells) \in Nat /\ Len(delivered) \in Nat /\ len <= Len(cells)
        /\ key \in [Pollers -> Seq(Bytes)] /\ at \in [Pollers -> Places]
        /\ Bytes \subseteq Nat /\ Heads \subseteq Nat /\ Tails \subseteq Nat
        /\ \A i \in 1..Len(cells) : cells[i] \in Bytes
    BY KeyRoutingAssumption DEF TypeOK, Bytes, Tails
  <1>1. CASE Read
    <2>1. high' = typed /\ UNCHANGED <<cells, key, at, delivered>>
      BY <1>1 DEF Read, inbuf, prog
    <2>2. \A x \in Nat : x <= high => x <= high'
      BY <1>a, <2>1
    <2>3. \A k : MadeOf(k, high) => MadeOf(k, high')
      BY <1>a, <2>2 DEF MadeOf
    <2>4. QED
      BY <1>a, <2>1, <2>2, <2>3 DEF OnlyRead
  <1>2. CASE Recv \/ ReadKey \/ Type \/ UNCHANGED vars
    BY <1>2 DEF OnlyRead, Recv, ReadKey, Type, vars, tty, inbuf, prog
  <1>3. CASE Send \/ PollEvents
    BY <1>3, <1>a DEF OnlyRead, Send, PollEvents, Goto, tty, inbuf, prog
  <1>4. ASSUME NEW p \in Pollers, Extract(p) PROVE OnlyRead'
    <2>1. len > 0 => MadeOf(Event, high)
      <3>1. SUFFICES ASSUME len > 0 PROVE MadeOf(Event, high)
        OBVIOUS
      <3>2. cells[1] \in Bytes /\ cells[1] <= high /\ (len > 1 => cells[2] <= high)
        BY <1>a, <3>1 DEF OnlyRead
      <3>3. QED
        BY <3>1, <3>2, EventType DEF MadeOf
    <2>2. UNCHANGED <<cells, high, delivered>>
      BY <1>4 DEF Extract, tty, inbuf, prog
    <2>3. \A q \in Pollers : at'[q] \in {"shift", "pop", "cut", "send"} => MadeOf(key'[q], high)
      BY <1>4, <1>a, <2>1 DEF OnlyRead, Extract, Goto
    <2>4. QED
      BY <2>2, <2>3 DEF OnlyRead
  <1>5. ASSUME NEW p \in Pollers, Shift(p) PROVE OnlyRead'
    <2>1. cells' = [i \in 1..Len(cells) |-> IF i <= len - N(p) THEN cells[i + N(p)] ELSE cells[i]]
      BY <1>5 DEF Shift, TypeOK
    <2>2. N(p) \in 1..2
      BY <1>5 DEF InHand, Shift, Goto
    <2>3. Len(cells') = Len(cells) /\ \A i \in 1..Len(cells) : cells'[i] <= high
      BY <1>a, <2>1, <2>2 DEF OnlyRead
    <2>4. UNCHANGED <<high, key, delivered>>
      BY <1>5 DEF Shift, tty, prog
    <2>5. \A q \in Pollers : at'[q] \in {"shift", "pop", "cut", "send"} => MadeOf(key[q], high)
      BY <1>5, <1>a DEF OnlyRead, Shift, Goto
    <2>6. QED
      BY <2>3, <2>4, <2>5 DEF OnlyRead
  <1>6. ASSUME NEW p \in Pollers, Copy(p) PROVE OnlyRead'
    <2>1. cells' = Written(len)
      BY <1>6 DEF Copy
    <2>2. \A i \in 1..Len(cells') : cells'[i] <= high
      <3> SUFFICES ASSUME NEW i \in 1..Len(Written(len)) PROVE Written(len)[i] <= high
        BY <2>1
      <3>1. Written(len)[i] = IF i > len /\ i <= len + (high - low + 1)
                              THEN low + (i - len - 1) ELSE cells[i]
        BY WrittenType
      <3>2. CASE i > len /\ i <= len + (high - low + 1)
        BY <1>a, <3>1, <3>2
      <3>3. CASE ~(i > len /\ i <= len + (high - low + 1))
        <4>1. i \in 1..Len(cells)
          <5>1. Len(Written(len)) = IF len + (high - low + 1) > Len(cells)
                                    THEN len + (high - low + 1) ELSE Len(cells)
            BY <1>a DEF Written
          <5>2. QED
            BY <1>a, <3>3, <5>1
        <4>2. QED
          BY <3>1, <3>3, <4>1 DEF OnlyRead
      <3>4. QED
        BY <3>2, <3>3
    <2>3. UNCHANGED <<high, key, delivered>>
      BY <1>6 DEF Copy, tty, prog
    <2>4. \A q \in Pollers : at'[q] \in {"shift", "pop", "cut", "send"} => MadeOf(key[q], high)
      BY <1>6, <1>a DEF OnlyRead, Copy, Goto
    <2>5. QED
      BY <2>2, <2>3, <2>4 DEF OnlyRead
  <1>7. ASSUME NEW p \in Pollers, Deliver(p) PROVE OnlyRead'
    <2>1. /\ delivered' = Append(delivered, key[p]) /\ UNCHANGED <<high, cells>>
          /\ MadeOf(key[p], high)
      BY <1>7 DEF OnlyRead, Deliver, Goto, tty, inbuf
    <2>2. /\ Len(delivered') = Len(delivered) + 1
          /\ delivered'[Len(delivered) + 1] = key[p]
          /\ \A i \in 1..Len(delivered) : delivered'[i] = delivered[i]
      <3>1. delivered \in Seq(Seq(Bytes))
        BY DEF TypeOK
      <3>2. QED
        BY <2>1, <3>1
    <2>3. \A i \in 1..Len(delivered') : MadeOf(delivered'[i], high)
      BY <1>a, <2>1, <2>2 DEF OnlyRead
    <2>4. \A q \in Pollers : at'[q] \in {"shift", "pop", "cut", "send"} => MadeOf(key'[q], high)
      BY <1>7, <1>a DEF OnlyRead, Deliver, Goto
    <2>5. QED
      BY <2>1, <2>3, <2>4 DEF OnlyRead
  <1>8. ASSUME NEW p \in Pollers,
               OutOfRange(p) \/ Pop(p) \/ Cut(p) \/ Select(p) \/ Grow(p) \/ Give(p)
        PROVE  OnlyRead'
    <2>1. UNCHANGED <<cells, high, key, delivered>>
      BY <1>8 DEF OutOfRange, Pop, Cut, Select, Grow, Give, tty, inbuf, prog
    <2>2. \A q \in Pollers : at'[q] \in {"shift", "pop", "cut", "send"}
                             => at[q] \in {"shift", "pop", "cut", "send"}
      BY <1>8, <1>a DEF OutOfRange, Pop, Cut, Select, Grow, Give, Goto
    <2>3. QED
      BY <2>1, <2>2 DEF OnlyRead
  <1>9. QED
    BY <1>1, <1>2, <1>3, <1>4, <1>5, <1>6, <1>7, <1>8
    DEF Next, ReadInput, PollEvent, Program, User

\* With several pollers a key may come to a prompt twice, late, never, in
\* two pieces, or of the first byte of one and the last of another.  That is
\* the worst of it: all that comes is a byte typed, or two that one escape
\* sequence begins and one ends with.
THEOREM PiecesOfKeys == Spec => [](\A i \in 1..Len(delivered) : MadeOf(delivered[i], typed))
  <1>1. Init => OnlyRead
    BY DEF Init, OnlyRead
  <1>2. Typed /\ OnlyRead => \A i \in 1..Len(delivered) : MadeOf(delivered[i], typed)
    <2> SUFFICES ASSUME TypeOK, OnlyRead, NEW i \in 1..Len(delivered)
                 PROVE  MadeOf(delivered[i], typed)
      BY DEF Typed
    <2>1. high \in Nat /\ typed \in Nat /\ high <= typed
      BY KeyRoutingAssumption DEF TypeOK
    <2>2. /\ \A b \in Bytes : b <= high => b <= typed
          /\ \A b \in Heads \cup Tails : b <= high => b <= typed
      BY <2>1, KeyRoutingAssumption DEF Bytes, Tails
    <2>3. QED
      BY <2>2 DEF OnlyRead, MadeOf
  <1>3. QED
    BY TypeInvariance, OnlyReadStep, <1>1, <1>2, PTL DEF Spec

-----------------------------------------------------------------------------
(* One poller alone.                                                       *)

\* Neither the user nor the reader has stopped within a key.
Boundaries == typed \notin Heads /\ high \notin Heads /\ low - 1 \notin Heads

\* The last byte of the last key delivered.
Gone == IF delivered = <<>> THEN 0
        ELSE delivered[Len(delivered)][Len(delivered[Len(delivered)])]

\* The first m bytes of inbuf are those after the n-th typed.
Follow(n, m) == \A i \in 1..m : cells[i] = n + i

\* While only the first poller runs: what it has delivered, has in hand,
\* finds in inbuf and in the reader's buffer are the keys typed, in order,
\* none of them in pieces.
Pipeline ==
    /\ Gone \in Nat \ Heads
    /\ at[1] \in {"extract", "shift", "give"} => Follow(Gone, len)
    /\ at[1] \in {"pop", "cut"} => Follow(Gone + N(1), len - N(1))
    /\ at[1] = "send" => Follow(Gone + N(1), len)
    /\ at[1] = "grow" => Follow(Gone, mark[1]) /\ mark[1] = high - low + 1
    /\ at[1] \in {"shift", "pop", "cut"} => len >= N(1)
    /\ at[1] \in {"select", "parked", "append", "grow"} => len = 0
    /\ at[1] \in {"shift", "pop", "cut", "send"} => Whole(key[1]) /\ key[1][1] = Gone + 1
    /\ at[1] = "cut" => mark[1] = len - N(1)

\* Where the reader's buffer stands among them.
Position ==
    LET d == Gone + (IF at[1] = "send" THEN N(1) ELSE 0)  IN
    /\ reader = "read" => high = d + len
    /\ reader = "send" => low = d + len + 1
    /\ reader \in {"recv", "parked"} => Owns(1)
    /\ at[1] \in {"append", "grow"} => low = d + 1
    /\ at[1] = "give" => high = d + len

Sole == Boundaries /\ (cur = 1 => Pipeline /\ Position /\ SoleInOrder)

\* A whole key ends where the next one begins.
LEMMA KeyFacts ==
    ASSUME NEW k, Whole(k)
    PROVE  /\ k \in Seq(Bytes) /\ Len(k) \in 1..2 /\ k[1] \in Bytes
           /\ k[Len(k)] = k[1] + Len(k) - 1 /\ k[Len(k)] \in Nat \ Heads
  <1>1. CASE k \in {<<b>> : b \in Bytes \ (Heads \cup Tails)}
    BY <1>1, KeyRoutingAssumption DEF Bytes
  <1>2. CASE k \in {<<h, h + 1>> : h \in Heads}
    <2>1. PICK h \in Heads : k = <<h, h + 1>>
      BY <1>2
    <2>2. h \in Bytes /\ h + 1 \in Bytes /\ h + 1 \notin Heads
      BY KeyRoutingAssumption DEF Bytes
    <2>3. QED
      BY <2>1, <2>2, KeyRoutingAssumption DEF Bytes
  <1>3. QED
    BY <1>1, <1>2 DEF Whole

\* What is extracted from whole keys is a whole key.
LEMMA EventWhole ==
    ASSUME TypeOK, len > 0, Gone \in Nat \ Heads, Follow(Gone, len), Gone + len \notin Heads
    PROVE  Whole(Event) /\ Event[1] = Gone + 1 /\ Len(Event) <= len
  <1>1. /\ len \in Nat /\ cells[1] = Gone + 1 /\ cells[1] \in Bytes
        /\ len > 1 => cells[2] = Gone + 2
    BY DEF TypeOK, Follow
  <1>2. Gone + 1 \notin Tails
    BY KeyRoutingAssumption DEF Tails
  <1>3. CASE Gone + 1 \in Heads
    <2>1. len > 1
      BY <1>1, <1>3
    <2>2. cells[2] = (Gone + 1) + 1 /\ cells[2] \in Tails
      BY <1>1, <1>3, <2>1 DEF Tails
    <2>3. Event = <<Gone + 1, (Gone + 1) + 1>>
      BY <1>1, <1>3, <2>1, <2>2 DEF Event
    <2>4. Whole(Event)
      BY <1>3, <2>3 DEF Whole
    <2>5. QED
      BY <1>1, <2>1, <2>3, <2>4
  <1>4. CASE Gone + 1 \notin Heads
    <2>1. Event = <<Gone + 1>>
      BY <1>1, <1>4 DEF Event
    <2>2. Whole(Event)
      BY <1>1, <1>2, <1>4, <2>1 DEF Whole
    <2>3. QED
      BY <1>1, <2>1, <2>2
  <1>5. QED
    BY <1>3, <1>4

\* At first no key is anywhere.
LEMMA SoleInit == Init => Sole
  BY KeyRoutingAssumption
  DEF Init, Sole, Boundaries, Pipeline, Position, SoleInOrder, Follow, Owns, Pollers, Gone

\* The reader and the user stop between keys.
LEMMA BoundariesStep == TypeOK /\ Boundaries /\ [Next]_vars => Boundaries'
  <1> SUFFICES ASSUME TypeOK, Boundaries, [Next]_vars PROVE Boundaries'
    OBVIOUS
  <1>a. typed \in Nat /\ high \in Nat /\ low \in Nat
    BY KeyRoutingAssumption DEF TypeOK
  <1>1. CASE Read
    BY <1>1, <1>a DEF Boundaries, Read
  <1>2. CASE Type
    <2>1. typed' \notin Heads
      BY <1>2, <1>a, KeyRoutingAssumption DEF Type
    <2>2. QED
      BY <1>2, <2>1 DEF Boundaries, Type
  <1>3. CASE Send \/ Recv \/ ReadKey \/ PollEvents \/ UNCHANGED vars
    BY <1>3 DEF Boundaries, Send, Recv, ReadKey, PollEvents, vars, tty
  <1>4. ASSUME NEW p \in Pollers, PollEvent(p) PROVE Boundaries'
    BY <1>4 DEF Boundaries, PollEvent, Extract, OutOfRange, Shift, Pop, Cut, Select, Copy,
                Grow, Give, Deliver, tty
  <1>5. QED
    BY <1>1, <1>2, <1>3, <1>4 DEF Next, ReadInput, Program, User

\* A step of termbox's goroutine.
LEMMA SoleReader ==
    ASSUME Token, Sole, cur = 1, Read \/ Send \/ Recv
    PROVE  Pipeline' /\ Position' /\ SoleInOrder'
  <1> USE DEF inbuf, prog, tty, N
  <1>a. /\ at \in [Pollers -> Places] /\ 1 \in Pollers /\ high \in Nat /\ low \in Nat
        /\ len \in Nat
    BY KeyRoutingAssumption DEF Token, Typed, TypeOK, Pollers
  <1>s. Pipeline /\ Position /\ SoleInOrder /\ Gone \in Nat
    BY DEF Sole, Pipeline
  <1>g. Gone' = Gone /\ UNCHANGED <<key, cells, len, mark, delivered, crashed, cur>>
    BY DEF Read, Send, Recv, Gone
  <1>o. SoleInOrder'
    BY <1>s, <1>g DEF SoleInOrder
  <1>1. CASE Read
    <2>1. ~Owns(1)
      BY <1>1, <1>a DEF Token, BufferOwned, Read
    <2>2. Pipeline'
      BY <1>1, <1>s, <1>g, <2>1 DEF Pipeline, Read, Follow, Owns
    <2>3. Position'
      BY <1>1, <1>a, <1>s, <1>g, <2>1 DEF Position, Read, Owns
    <2>4. QED
      BY <1>o, <2>2, <2>3
  <1>2. CASE Send
    <2>1. Head(waiting) = 1 /\ at[1] = "parked" /\ at' = [at EXCEPT ![1] = "append"]
      <3>1. Head(waiting) # Reader /\ Head(waiting) \in Pollers
        BY <1>2, HeadFacts DEF Token, Typed, Send
      <3>2. /\ at[Head(waiting)] = "parked"
            /\ at' = [at EXCEPT ![Head(waiting)] = "append"]
        BY <1>2 DEF Send, Goto
      <3>3. ~(Head(waiting) > cur)
        BY <3>1, <3>2 DEF Token, Queue
      <3>4. Head(waiting) = 1
        BY <3>1, <3>3 DEF Pollers
      <3>5. QED
        BY <3>2, <3>4
    <2>2. Pipeline'
      BY <1>2, <1>a, <1>s, <1>g, <2>1 DEF Pipeline, Send, Follow
    <2>3. Position'
      BY <1>2, <1>a, <1>s, <1>g, <2>1 DEF Pipeline, Position, Send, Owns
    <2>4. QED
      BY <1>o, <2>2, <2>3
  <1>3. CASE Recv
    BY <1>3, <1>s, <1>g, <1>o DEF Pipeline, Position, Recv, Follow, Owns
  <1>4. QED
    BY <1>1, <1>2, <1>3

\* A step of the poller that does not touch inbuf or the buffer.
LEMMA SolePoll ==
    ASSUME Token, Sole, cur = 1, Extract(1) \/ OutOfRange(1) \/ Select(1) \/ Give(1)
    PROVE  Pipeline' /\ Position' /\ SoleInOrder'
  <1> USE DEF inbuf, prog, tty, N
  <1>a. /\ at \in [Pollers -> Places] /\ 1 \in Pollers /\ high \in Nat /\ low \in Nat
        /\ len \in Nat /\ key \in [Pollers -> Seq(Bytes)] /\ TypeOK
    BY KeyRoutingAssumption DEF Token, Typed, TypeOK, Pollers
  <1>s. Pipeline /\ Position /\ SoleInOrder /\ Gone \in Nat \ Heads /\ Boundaries
    BY DEF Sole, Pipeline
  <1>1. CASE Extract(1)
    <2>1. Gone' = Gone /\ UNCHANGED <<cells, len, mark, delivered, crashed, cur, high, low, reader>>
      BY <1>1 DEF Extract, Gone
    <2>2. CASE len > 0 /\ at[1] = "extract" /\ at' = [at EXCEPT ![1] = "shift"]
               /\ key' = [key EXCEPT ![1] = Event]
      <3>1. Gone + len \notin Heads
        <4>1. reader \in {"read", "send"}
          BY <1>a, <1>s, <2>2 DEF Position, Owns, TypeOK
        <4>2. Gone + len = high \/ Gone + len = low - 1
          BY <1>a, <1>s, <2>2, <4>1 DEF Position
        <4>3. QED
          BY <1>s, <4>2 DEF Boundaries
      <3>2. Whole(Event) /\ Event[1] = Gone + 1 /\ Len(Event) <= len
        BY <1>a, <1>s, <2>2, <3>1, EventWhole DEF Pipeline
      <3>3. key'[1] = Event /\ at'[1] = "shift"
        BY <1>a, <2>2
      <3>4. Pipeline'
        BY <1>s, <2>1, <2>2, <3>2, <3>3 DEF Pipeline, Follow
      <3>5. Position' /\ SoleInOrder'
        BY <1>s, <2>1, <2>2, <3>3 DEF Position, SoleInOrder, Owns
      <3>6. QED
        BY <3>4, <3>5
    <2>3. CASE len = 0 /\ at[1] = "extract" /\ at' = [at EXCEPT ![1] = "select"] /\ key' = key
      BY <1>a, <1>s, <2>1, <2>3 DEF Pipeline, Position, SoleInOrder, Follow, Owns
    <2>4. QED
      BY <1>1, <2>2, <2>3 DEF Extract, Goto
  <1>2. CASE OutOfRange(1)
    BY <1>2, <1>a, <1>s DEF Pipeline, OutOfRange
  <1>3. CASE Select(1)
    BY <1>3, <1>a, <1>s DEF Pipeline, Position, SoleInOrder, Select, Goto, Follow, Owns, Gone
  <1>4. CASE Give(1)
    <2>1. Head(waiting) = Reader
      BY <1>4, <1>a, HeadFacts DEF Token, Typed, Queue, Give, Pollers, Reader
    <2>2. at' = [at EXCEPT ![1] = "extract"] /\ reader' = "read" /\ at[1] = "give"
      BY <1>4, <2>1 DEF Give, Goto
    <2>3. UNCHANGED <<cells, len, key, mark, cur, delivered, crashed, low, high>> /\ Gone' = Gone
      BY <1>4 DEF Give, Gone
    <2>4. Pipeline' /\ SoleInOrder'
      BY <1>a, <1>s, <2>2, <2>3 DEF Pipeline, SoleInOrder, Follow
    <2>5. Position'
      BY <1>a, <1>s, <2>2, <2>3 DEF Position, Owns
    <2>6. QED
      BY <2>4, <2>5
  <1>5. QED
    BY <1>1, <1>2, <1>3, <1>4

\* A step of the poller that takes a key out of inbuf.
LEMMA SoleTake ==
    ASSUME Token, Sole, cur = 1, Shift(1) \/ Pop(1) \/ Cut(1) \/ Deliver(1)
    PROVE  Pipeline' /\ Position' /\ SoleInOrder'
  <1> USE DEF inbuf, prog, tty
  <1>a. /\ at \in [Pollers -> Places] /\ 1 \in Pollers /\ high \in Nat /\ low \in Nat
        /\ len \in Nat /\ Len(delivered) \in Nat /\ key \in [Pollers -> Seq(Bytes)]
        /\ mark \in [Pollers -> 0..Len(cells)] /\ len <= Len(cells) /\ Len(cells) \in Nat
        /\ cells \in Seq(Bytes) /\ delivered \in Seq(Seq(Bytes)) /\ DOMAIN cells = 1..Len(cells)
    BY KeyRoutingAssumption DEF Token, Typed, TypeOK, Pollers
  <1>s. Pipeline /\ Position /\ SoleInOrder /\ Gone \in Nat \ Heads
    BY DEF Sole, Pipeline
  <1>k. N(1) \in 1..2 /\ Whole(key[1]) /\ key[1][1] = Gone + 1 /\ key[1][N(1)] = Gone + N(1)
        /\ Gone + N(1) \in Nat \ Heads
    <2>1. Whole(key[1]) /\ key[1][1] = Gone + 1
      BY <1>s DEF Pipeline, Shift, Pop, Cut, Deliver, Goto
    <2>2. QED
      BY <1>s, <2>1, KeyFacts DEF N
  <1>1. CASE Shift(1)
    <2>1. /\ at[1] = "shift" /\ at' = [at EXCEPT ![1] = "pop"] /\ len >= N(1)
          /\ UNCHANGED <<len, key, mark, delivered, cur, crashed, high, low, reader>>
          /\ Gone' = Gone /\ N(1)' = N(1)
      BY <1>1 DEF Shift, Goto, Gone, N
    <2>2. \A i \in 1..len - N(1) : cells'[i] = cells[i + N(1)]
      BY <1>1, <1>a, <1>k DEF Shift
    <2>3. Follow(Gone, len)
      BY <1>s, <2>1 DEF Pipeline
    <2>4. ASSUME NEW i \in 1..len - N(1) PROVE cells'[i] = Gone + N(1) + i
      <3>1. i + N(1) \in 1..len
        BY <1>a, <1>k
      <3>2. cells[i + N(1)] = Gone + (i + N(1))
        BY <2>3, <3>1 DEF Follow
      <3>3. QED
        BY <1>k, <1>s, <2>2, <3>2
    <2>5. Follow(Gone + N(1), len - N(1))'
      BY <2>1, <2>4 DEF Follow
    <2>6. Pipeline'
      BY <1>a, <1>s, <2>1, <2>5 DEF Pipeline
    <2>7. Position' /\ SoleInOrder'
      BY <1>a, <1>s, <2>1 DEF Position, SoleInOrder, Owns
    <2>8. QED
      BY <2>6, <2>7
  <1>2. CASE Pop(1)
    <2>1. /\ at[1] = "pop" /\ at' = [at EXCEPT ![1] = "cut"]
          /\ mark' = [mark EXCEPT ![1] = len - N(1)]
          /\ UNCHANGED <<cells, len, key, delivered, cur, crashed, high, low, reader>>
          /\ Gone' = Gone /\ N(1)' = N(1)
      BY <1>2 DEF Pop, Goto, Gone, N
    <2>2. QED
      BY <1>a, <1>s, <2>1 DEF Pipeline, Position, SoleInOrder, Follow, Owns
  <1>3. CASE Cut(1)
    <2>1. /\ at[1] = "cut" /\ at' = [at EXCEPT ![1] = "send"] /\ len' = len - N(1)
          /\ Follow(Gone + N(1), len - N(1))
          /\ UNCHANGED <<cells, key, delivered, high, low, reader, cur, crashed>>
          /\ Gone' = Gone /\ N(1)' = N(1)
      BY <1>3, <1>s DEF Pipeline, Cut, Goto, Gone, N
    <2>2. at'[1] = "send"
      BY <1>a, <2>1
    <2>3. Pipeline'
      BY <1>a, <1>s, <1>k, <2>1, <2>2 DEF Pipeline, Follow
    <2>4. Position'
      <3>1. /\ reader = "read" => high = Gone + len
            /\ reader = "send" => low = Gone + len + 1
            /\ reader \notin {"recv", "parked"}
        BY <1>s, <1>k, <2>1 DEF Position, Owns
      <3>2. /\ reader = "read" => high = (Gone + N(1)) + (len - N(1))
            /\ reader = "send" => low = (Gone + N(1)) + (len - N(1)) + 1
        <4>1. len \in Nat /\ Gone \in Nat /\ N(1) \in Nat
          BY <1>a, <1>k, <1>s
        <4>2. (Gone + N(1)) + (len - N(1)) = Gone + len
          BY <4>1
        <4>3. QED
          BY <3>1, <4>2
      <3>3. QED
        BY <2>1, <2>2, <3>1, <3>2 DEF Position, Owns
    <2>5. SoleInOrder'
      BY <1>s, <2>1 DEF SoleInOrder
    <2>6. QED
      BY <2>3, <2>4, <2>5
  <1>4. CASE Deliver(1)
    <2>1. /\ at[1] = "send" /\ at' = [at EXCEPT ![1] = "extract"] /\ at'[1] = "extract"
          /\ delivered' = Append(delivered, key[1])
          /\ UNCHANGED <<cells, len, mark, cur, crashed, high, low, reader>>
      BY <1>4, <1>a DEF Deliver, Goto
    <2>2. /\ Len(delivered') = Len(delivered) + 1 /\ DOMAIN delivered' = 1..Len(delivered')
          /\ DOMAIN delivered = 1..Len(delivered)
          /\ \A i \in 1..Len(delivered) : delivered'[i] = delivered[i]
          /\ delivered'[Len(delivered) + 1] = key[1] /\ delivered' # <<>>
      <3>1. delivered \in Seq(Seq(Bytes)) /\ key[1] \in Seq(Bytes)
        BY <1>a
      <3>2. QED
        BY <2>1, <3>1
    <2>3. Gone' = Gone + N(1)
      BY <1>k, <2>2 DEF Gone, N
    <2>4. Pipeline'
      <3>1. Follow(Gone + N(1), len)
        BY <1>s, <2>1 DEF Pipeline
      <3>2. Follow(Gone, len)'
        BY <2>1, <2>3, <3>1 DEF Follow
      <3>3. QED
        BY <1>k, <2>1, <2>3, <3>2 DEF Pipeline
    <2>5. Position'
      BY <1>a, <1>s, <1>k, <2>1, <2>3 DEF Position, Owns
    <2>6. SoleInOrder'
      <3>1. ~crashed'
        BY <1>s, <2>1, <1>4 DEF SoleInOrder, Deliver
      <3>2. ASSUME NEW i \in 1..Len(delivered')
            PROVE  /\ Whole(delivered'[i])
                   /\ delivered'[i][1] = IF i = 1 THEN 1
                                         ELSE delivered'[i - 1][Len(delivered'[i - 1])] + 1
        <4>1. CASE i \in 1..Len(delivered)
          <5>1. /\ delivered'[i] = delivered[i]
                /\ i # 1 => delivered'[i - 1] = delivered[i - 1]
            <6>1. i # 1 => i - 1 \in 1..Len(delivered)
              BY <1>a, <4>1
            <6>2. QED
              BY <2>2, <4>1, <6>1
          <5>2. /\ Whole(delivered[i])
                /\ delivered[i][1] = IF i = 1 THEN 1
                                     ELSE delivered[i - 1][Len(delivered[i - 1])] + 1
            BY <1>4, <1>s, <2>2, <4>1 DEF SoleInOrder, Deliver
          <5>3. QED
            BY <5>1, <5>2
        <4>2. CASE i = Len(delivered) + 1
          <5>1. delivered'[i] = key[1]
            BY <2>2, <4>2
          <5>2. CASE delivered = <<>>
            BY <1>a, <1>k, <4>2, <5>1, <5>2 DEF Gone
          <5>3. CASE delivered # <<>>
            <6>1. i # 1 /\ i - 1 \in 1..Len(delivered) /\ i - 1 = Len(delivered)
              BY <1>a, <4>2, <5>3
            <6>2. delivered'[i - 1] = delivered[Len(delivered)]
              BY <2>2, <6>1
            <6>3. QED
              BY <1>k, <5>1, <5>3, <6>1, <6>2 DEF Gone
          <5>4. QED
            BY <5>2, <5>3
        <4>3. QED
          BY <1>a, <2>2, <4>1, <4>2
      <3>3. QED
        BY <2>2, <3>1, <3>2 DEF SoleInOrder
    <2>7. QED
      BY <2>4, <2>5, <2>6
  <1>5. QED
    BY <1>1, <1>2, <1>3, <1>4

\* A step of the poller that appends the buffer to inbuf.
LEMMA SoleAppend ==
    ASSUME Token, Sole, cur = 1, Copy(1) \/ Grow(1)
    PROVE  Pipeline' /\ Position' /\ SoleInOrder'
  <1> USE DEF inbuf, prog, tty
  <1>a. /\ at \in [Pollers -> Places] /\ 1 \in Pollers /\ high \in Nat /\ low \in Nat
        /\ len \in Nat /\ low <= high + 1
        /\ mark \in [Pollers -> 0..Len(cells)] /\ TypeOK
    BY KeyRoutingAssumption DEF Token, Typed, TypeOK, Pollers
  <1>s. Pipeline /\ Position /\ SoleInOrder /\ Gone \in Nat
    BY DEF Sole, Pipeline
  <1>g. Gone' = Gone /\ N(1)' = N(1) /\ UNCHANGED <<key, delivered, crashed, cur>>
    BY DEF Copy, Grow, Gone, N
  <1>o. SoleInOrder'
    BY <1>s, <1>g DEF SoleInOrder
  <1>1. CASE Copy(1)
    <2>1. /\ at[1] = "append" /\ at' = [at EXCEPT ![1] = "grow"]
          /\ len = 0 /\ len' = 0 /\ low = Gone + 1 /\ UNCHANGED <<high, low, reader>>
          /\ cells' = Written(len) /\ mark' = [mark EXCEPT ![1] = len + (high - low + 1)]
      BY <1>1, <1>s DEF Copy, Goto, Pipeline, Position
    <2>2. mark'[1] = high - low + 1 /\ mark'[1] \in Nat
      BY <1>a, <2>1
    <2>3. \A i \in 1..mark'[1] : cells'[i] = Gone + i
      BY <1>a, <1>s, <2>1, <2>2, WrittenType
    <2>4. Pipeline'
      BY <1>a, <1>s, <1>g, <2>1, <2>2, <2>3 DEF Pipeline, Follow
    <2>5. Position'
      BY <1>a, <1>s, <1>g, <2>1 DEF Position, Owns
    <2>6. QED
      BY <1>o, <2>4, <2>5
  <1>2. CASE Grow(1)
    <2>1. /\ at[1] = "grow" /\ at' = [at EXCEPT ![1] = "give"] /\ len' = high - low + 1
          /\ low = Gone + 1 /\ Follow(Gone, len')
          /\ UNCHANGED <<cells, high, low, reader>>
      BY <1>2, <1>s DEF Pipeline, Position, Grow, Goto
    <2>2. Pipeline'
      BY <1>a, <1>s, <1>g, <2>1 DEF Pipeline, Follow
    <2>3. reader \notin {"read", "send"}
      BY <1>a, <2>1 DEF Token, BufferOwned, Owns
    <2>4. Position'
      BY <1>a, <1>s, <1>g, <2>1, <2>3 DEF Position, Owns
    <2>5. QED
      BY <1>o, <2>2, <2>4
  <1>3. QED
    BY <1>1, <1>2

\* Every step keeps the pipeline while there is one poller.
LEMMA SoleStep == Token /\ Sole /\ [Next]_vars => Sole'
  <1> SUFFICES ASSUME Token, Sole, [Next]_vars, cur' = 1
               PROVE  Pipeline' /\ Position' /\ SoleInOrder'
    BY BoundariesStep DEF Sole, Token, Typed
  <1>a. cur \in Nat \ {0} /\ 1 \in Pollers
    BY KeyRoutingAssumption DEF Token, Typed, TypeOK, Pollers
  <1>s. cur = 1 => Pipeline /\ Position /\ SoleInOrder
    BY DEF Sole
  <1>1. ASSUME ReadKey \/ Type \/ UNCHANGED vars PROVE Pipeline' /\ Position' /\ SoleInOrder'
    <2>1. UNCHANGED <<low, high, reader, cells, len, at, key, mark, cur, delivered, crashed>>
      BY <1>1 DEF ReadKey, Type, vars, inbuf, prog, tty
    <2>2. QED
      BY <1>s, <2>1 DEF Pipeline, Position, SoleInOrder, Follow, Owns, Gone, N
  <1>2. ~PollEvents
    BY <1>a DEF PollEvents
  <1>3. ASSUME Read \/ Send \/ Recv PROVE Pipeline' /\ Position' /\ SoleInOrder'
    BY <1>3, SoleReader DEF Read, Send, Recv, prog
  <1>4. ASSUME NEW p \in Pollers, PollEvent(p) PROVE Pipeline' /\ Position' /\ SoleInOrder'
    <2>1. cur = 1
      BY <1>4 DEF PollEvent, Extract, OutOfRange, Shift, Pop, Cut, Select, Copy, Grow,
                  Give, Deliver, prog
    <2>2. at[p] # "none"
      BY <1>4 DEF PollEvent, Extract, OutOfRange, Shift, Pop, Cut, Select, Copy, Grow,
                  Give, Deliver, Goto
    <2>3. p = 1
      BY <2>1, <2>2 DEF Token, Queue, Pollers
    <2>4. QED
      BY <1>4, <2>1, <2>3, SolePoll, SoleTake, SoleAppend DEF PollEvent
  <1>5. QED
    BY <1>1, <1>2, <1>3, <1>4 DEF Next, ReadInput, Program, User

\* One call of ui.PollEvents() alone delivers every key whole, once and in
\* order, and its accesses to inbuf never leave it.
THEOREM OneLosesNothing == Spec => []SoleInOrder
  <1>1. Token /\ Sole /\ [Next]_vars => Sole'
    BY SoleStep
  <1>2. Sole => SoleInOrder
    BY DEF Sole, SoleInOrder
  <1>3. QED
    BY SoleInit, TokenInvariance, <1>1, <1>2, PTL DEF Spec
=============================================================================
