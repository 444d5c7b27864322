----------------------------- MODULE KeyRouting -----------------------------
(***************************************************************************)
(* How a key reaches a prompt.  Every ui.PollEvents() of cmds/webboot      *)
(* starts a goroutine that is never stopped; each offers keys on a channel *)
(* of its own, and only the latest channel is read.  All of them take      *)
(* input from the one goroutine of termbox that reads the terminal, over   *)
(* the channel input_comm, into the one slice inbuf, without a lock.       *)
(*                                                                         *)
(* input_comm carries the reader's buffer: whoever receives it copies what *)
(* was read into inbuf and sends it back on the same channel, where it     *)
(* goes to the receiver that has been parked longest: that may be another  *)
(* poller.  A receiver that finds a sender is parked for no time.          *)
(*                                                                         *)
(* The accesses to inbuf race.  They are steps of their own here, each     *)
(* taken as a whole; the array behind inbuf (64 bytes) is never replaced,  *)
(* so that only its length and its cells can differ.                       *)
(*                                                                         *)
(* Bytes are numbered as they are typed.  Most keys are one byte; an arrow *)
(* or <Page Up> is an escape sequence, here of two, and what parses inbuf  *)
(* takes its first byte alone for <Escape> and its last for another key.   *)
(***************************************************************************)
EXTENDS Naturals, Sequences

CONSTANTS MaxBytes,    \* bound: bytes typed
          Heads,       \* those of them that begin an escape sequence
          MaxPollers,  \* bound: calls of ui.PollEvents()
          MaxReads     \* bound: keys prompts receive

ASSUME KeyRoutingAssumption ==
    /\ MaxBytes \in Nat /\ MaxPollers \in Nat \ {0} /\ MaxReads \in Nat \ {0}
    /\ Heads \subseteq 1..MaxBytes
    /\ \A h \in Heads : h + 1 \in 1..MaxBytes /\ h + 1 \notin Heads

Pollers == 1..MaxPollers
Reader  == 0
Bytes   == 1..MaxBytes
Tails   == {h + 1 : h \in Heads}

\* The two kinds of keys, as the bytes the user's terminal sends for them.
Whole(k) == \/ k \in {<<b>> : b \in Bytes \ (Heads \cup Tails)}
            \/ k \in {<<h, h + 1>> : h \in Heads}

VARIABLES
    typed,      \* bytes typed so far
    reader,     \* termbox's goroutine: "read", "send", "recv" or "parked"
    low, high,  \* its buffer holds the bytes low..high; high is the last one read
    waiting,    \* receivers parked on input_comm, oldest first
    cells, len, \* inbuf: the array behind it, and its length
    at,         \* where each poller is; "none": not started
    key,        \* the bytes of the event each poller has extracted
    mark,       \* the length of inbuf each poller is about to store
    cur,        \* the poller whose channel the prompt reads
    main,       \* the program: "read" from the channel, or "work"
    delivered,  \* the keys prompts have received (history)
    crashed     \* an index out of range has ended the program

vars == <<typed, reader, low, high, waiting, cells, len, at, key, mark,
          cur, main, delivered, crashed>>

tty   == <<typed, low, high>>
inbuf == <<cells, len>>
prog  == <<cur, main, delivered>>

Places == {"none", "extract", "shift", "pop", "cut", "send",
           "select", "parked", "append", "grow", "give"}

TypeOK ==
    /\ typed \in 0..MaxBytes /\ high \in 0..typed /\ low \in 1..high + 1
    /\ reader \in {"read", "send", "recv", "parked"}
    /\ waiting \in Seq(Pollers \cup {Reader})
    /\ cells \in Seq(Bytes) /\ len \in 0..Len(cells)
    /\ at \in [Pollers -> Places]
    /\ key \in [Pollers -> Seq(Bytes)]
    /\ mark \in [Pollers -> 0..Len(cells)]
    /\ cur \in Pollers /\ main \in {"read", "work"}
    /\ delivered \in Seq(Seq(Bytes)) /\ crashed \in BOOLEAN

Init ==
    /\ typed = 0 /\ reader = "read" /\ low = 1 /\ high = 0
    /\ waiting = <<>> /\ cells = <<>> /\ len = 0
    /\ at = [p \in Pollers |-> IF p = 1 THEN "extract" ELSE "none"]
    /\ key = [p \in Pollers |-> <<>>] /\ mark = [p \in Pollers |-> 0]
    /\ cur = 1 /\ main = "read" /\ delivered = <<>> /\ crashed = FALSE

Goto(p, from, to) == at[p] = from /\ at' = [at EXCEPT ![p] = to]

-----------------------------------------------------------------------------
(* The goroutine of tb.Init.                                               *)

\* syscall.Read returns whatever has been typed; a terminal sends the bytes of
\* one key at once.
Read ==
    /\ reader = "read" /\ high < typed
    /\ reader' = "send" /\ low' = high + 1 /\ high' = typed
    /\ UNCHANGED <<typed, waiting, inbuf, at, key, mark, prog, crashed>>

\* Mutant: the reader goes on reading into a buffer that is not back.
SendKeeping ==
    /\ reader = "send" /\ waiting # <<>>
    /\ reader' = "read" /\ waiting' = Tail(waiting)
    /\ Goto(Head(waiting), "parked", "append")
    /\ UNCHANGED <<tty, inbuf, key, mark, prog, crashed>>

\* input_comm <- input_event: only pollers are parked.
Send ==
    /\ reader = "send" /\ waiting # <<>>
    /\ reader' = "recv" /\ waiting' = Tail(waiting)
    /\ Goto(Head(waiting), "parked", "append")
    /\ UNCHANGED <<tty, inbuf, key, mark, prog, crashed>>

\* ie := <-input_comm.
Recv ==
    /\ reader = "recv"
    /\ reader' = "parked" /\ waiting' = Append(waiting, Reader)
    /\ UNCHANGED <<tty, inbuf, at, key, mark, prog, crashed>>

-----------------------------------------------------------------------------
(* tb.PollEvent, in the goroutine of ui.PollEvents.                        *)

\* What extract_event finds at the front of inbuf: an escape sequence if it is
\* all there, whichever key its bytes are of, else a byte.
Event == IF len > 1 /\ cells[1] \in Heads /\ cells[2] \in Tails
         THEN <<cells[1], cells[2]>> ELSE <<cells[1]>>

\* extract_event, on what is left in inbuf or after a receive.
Extract(p) ==
    /\ \/ len > 0 /\ Goto(p, "extract", "shift") /\ key' = [key EXCEPT ![p] = Event]
       \/ len = 0 /\ Goto(p, "extract", "select") /\ UNCHANGED key
    /\ UNCHANGED <<tty, reader, waiting, inbuf, mark, prog, crashed>>

\* event.N.
N(p) == Len(key[p])

\* inbuf[event.N:] and inbuf[:len(inbuf)-event.N] of a shorter slice panic.
OutOfRange(p) ==
    /\ at[p] \in {"shift", "pop"} /\ len < N(p)
    /\ crashed' = TRUE
    /\ UNCHANGED <<tty, reader, waiting, inbuf, at, key, mark, prog>>

\* Mutant: the rest is not moved to the front.
ShiftMissing(p) ==
    /\ len >= N(p) /\ Goto(p, "shift", "pop")
    /\ UNCHANGED <<tty, reader, waiting, inbuf, key, mark, prog, crashed>>

\* copy(inbuf, inbuf[event.N:]).
Shift(p) ==
    /\ len >= N(p) /\ Goto(p, "shift", "pop")
    /\ cells' = [i \in DOMAIN cells |-> IF i <= len - N(p) THEN cells[i + N(p)] ELSE cells[i]]
    /\ UNCHANGED <<tty, reader, waiting, len, key, mark, prog, crashed>>

\* inbuf = inbuf[:len(inbuf)-event.N]: load, then store.
Pop(p) ==
    /\ len >= N(p) /\ Goto(p, "pop", "cut")
    /\ mark' = [mark EXCEPT ![p] = len - N(p)]
    /\ UNCHANGED <<tty, reader, waiting, inbuf, key, prog, crashed>>

Cut(p) ==
    /\ Goto(p, "cut", "send")
    /\ len' = mark[p] /\ mark' = [mark EXCEPT ![p] = 0]
    /\ UNCHANGED <<tty, reader, waiting, cells, key, prog, crashed>>

\* Nothing to extract: select receives from input_comm.
Select(p) ==
    /\ Goto(p, "select", "parked")
    /\ waiting' = Append(waiting, p)
    /\ UNCHANGED <<tty, reader, inbuf, key, mark, prog, crashed>>

\* The array when the bytes of the buffer stand behind the first n.
Written(n) ==
    LET end == n + (high - low + 1)
    IN  [i \in 1..(IF end > Len(cells) THEN end ELSE Len(cells)) |->
            IF i > n /\ i <= end THEN low + (i - n - 1) ELSE cells[i]]

\* Mutant: what is left in inbuf is written over, but counted.
CopyToFront(p) ==
    /\ Goto(p, "append", "grow")
    /\ cells' = Written(0)
    /\ mark' = [mark EXCEPT ![p] = len + (high - low + 1)]
    /\ UNCHANGED <<tty, reader, waiting, len, key, prog, crashed>>

\* inbuf = append(inbuf, ev.data...): the cells, then the length.
Copy(p) ==
    /\ Goto(p, "append", "grow")
    /\ cells' = Written(len)
    /\ mark' = [mark EXCEPT ![p] = len + (high - low + 1)]
    /\ UNCHANGED <<tty, reader, waiting, len, key, prog, crashed>>

\* Mutant: the buffer is not sent back.
GrowKeeping(p) ==
    /\ Goto(p, "grow", "extract")
    /\ len' = mark[p] /\ mark' = [mark EXCEPT ![p] = 0]
    /\ UNCHANGED <<tty, reader, waiting, cells, key, prog, crashed>>

Grow(p) ==
    /\ Goto(p, "grow", "give")
    /\ len' = mark[p] /\ mark' = [mark EXCEPT ![p] = 0]
    /\ UNCHANGED <<tty, reader, waiting, cells, key, prog, crashed>>

\* input_comm <- ev: the reader gets its buffer back, or another poller has
\* been parked longer and gets it.
Give(p) ==
    /\ waiting # <<>> /\ waiting' = Tail(waiting)
    /\ \/ /\ Head(waiting) = Reader
          /\ Goto(p, "give", "extract") /\ reader' = "read"
       \/ /\ Head(waiting) # Reader /\ at[p] = "give"
          /\ at' = [at EXCEPT ![p] = "extract", ![Head(waiting)] = "append"]
          /\ UNCHANGED reader
    /\ UNCHANGED <<tty, inbuf, key, mark, prog, crashed>>

\* ch <- convertTermboxEvent(...): only the prompt's channel is received from.
Deliver(p) ==
    /\ p = cur /\ main = "read"
    /\ Goto(p, "send", "extract")
    /\ delivered' = Append(delivered, key[p]) /\ main' = "work"
    /\ key' = [key EXCEPT ![p] = <<>>]
    /\ UNCHANGED <<tty, reader, waiting, inbuf, mark, cur, crashed>>

-----------------------------------------------------------------------------
(* The program and the user.                                               *)

\* The prompt, or the next one on the same channel, reads another key.
ReadKey ==
    /\ main = "work" /\ Len(delivered) < MaxReads
    /\ main' = "read"
    /\ UNCHANGED <<tty, reader, waiting, inbuf, at, key, mark, cur, delivered, crashed>>

\* The next prompt is given a channel of its own.
PollEvents ==
    /\ main = "work" /\ cur < MaxPollers /\ Len(delivered) < MaxReads
    /\ cur' = cur + 1 /\ main' = "read"
    /\ at' = [at EXCEPT ![cur + 1] = "extract"]
    /\ UNCHANGED <<tty, reader, waiting, inbuf, key, mark, delivered, crashed>>

\* A key, of all its bytes.
Type ==
    /\ typed < MaxBytes
    /\ typed' = typed + (IF typed + 1 \in Heads THEN 2 ELSE 1)
    /\ UNCHANGED <<low, high, reader, waiting, inbuf, at, key, mark, prog, crashed>>

-----------------------------------------------------------------------------
ReadInput == ~crashed /\ (Read \/ Send \/ Recv)

PollEvent(p) ==
    /\ ~crashed
    /\ \/ Extract(p) \/ OutOfRange(p) \/ Shift(p) \/ Pop(p) \/ Cut(p)
       \/ Select(p) \/ Copy(p) \/ Grow(p) \/ Give(p) \/ Deliver(p)

Program == ~crashed /\ (ReadKey \/ PollEvents)

User == ~crashed /\ Type

Next == ReadInput \/ (\E p \in Pollers : PollEvent(p)) \/ Program \/ User

Spec == Init /\ [][Next]_vars

(* The goroutines run on.  The program may never read again, and the user  *)
(* owes no key.                                                            *)
FairSpec == Spec /\ WF_vars(ReadInput) /\ \A p \in Pollers : WF_vars(PollEvent(p))

-----------------------------------------------------------------------------
(* Properties.                                                             *)

Owns(p) == at[p] \in {"append", "grow", "give"}

\* The one buffer has one holder: the reader does not read into it while a
\* poller copies from it, no two pollers append to inbuf at once, and the
\* reader never waits for a buffer that nobody has.
BufferOwned ==
    /\ reader \in {"read", "send"} <=> \A p \in Pollers : ~Owns(p)
    /\ \A p, q \in Pollers : Owns(p) /\ Owns(q) => p = q

\* Until ui.PollEvents() is called a second time, every key reaches the
\* prompt once, whole and in the order typed, however fast they come, and
\* nothing goes out of range.
SoleInOrder ==
    cur = 1 => /\ \A i \in DOMAIN delivered :
                     /\ Whole(delivered[i])
                     /\ delivered[i][1] =
                           IF i = 1 THEN 1
                           ELSE delivered[i - 1][Len(delivered[i - 1])] + 1
               /\ ~crashed

\* "We store the full typed input": what prompts receive is in the order in
\* which it was typed, and no key comes twice.
InOrder ==
    \A i, j \in DOMAIN delivered : i < j => delivered[i][1] < delivered[j][1]

\* The reader gets its buffer back, through however many abandoned pollers
\* it passes, and whether or not a prompt still reads.
BufferReturned == reader \in {"recv", "parked"} ~> reader = "read" \/ crashed
=============================================================================
