------------------------------ MODULE Dhclient ------------------------------
(***************************************************************************)
(* pkg/dhclient: Request and its goroutine configureAll, which reports on  *)
(* the unbuffered channel cl what becomes of every lease, until all have   *)
(* been answered or the context has expired.                               *)
(*                                                                         *)
(* SendRequests of u-root is external: one result for each interface and   *)
(* protocol, in any order, failed or with a lease, then r is closed.  So   *)
(* is the caller: the repository has none.  It may receive beside Request  *)
(* or only once Request has returned, and may stop when it hears of a      *)
(* success.  Texts are left out: a report names its request.               *)
(***************************************************************************)
EXTENDS Sequences, Naturals

CONSTANTS Links, Protocols

VARIABLES
    pc,          \* where Request or its goroutine is
    beside,      \* the caller receives while Request runs
    listening,   \* the caller still receives
    expired,     \* the context's deadline has passed
    asked,       \* the requests made: interface and protocol
    answered,    \* those with a result in r
    leased,      \* those whose result is a lease
    taken,       \* those whose result has been received from r
    configured,  \* those whose lease has been configured
    said,        \* all messages sent on cl, or waiting to be received
    heard        \* how many of them the caller has received

results == <<asked, answered, leased, taken, configured>>
caller  == <<beside, listening>>
vars    == <<pc, caller, expired, results, said, heard>>

Requests == Links \X Protocols
None     == <<>>

Message(what, about) == [what |-> what, about |-> about]

Reports  == {Message(w, q) : w \in {"configured", "failed"}, q \in Requests}
Success  == Message("successful", None)
Endings  == {Message(w, None) : w \in {"no list", "no match", "done", "all"}}
Messages == Reports \cup Endings \cup {Success}

\* Every request is answered, taken and configured in this order.
TypeOK ==
    /\ pc \in {"request", "refused", "loop", "leaving", "ended"}
    /\ beside \in BOOLEAN /\ listening \in BOOLEAN /\ expired \in BOOLEAN
    /\ asked \subseteq Requests /\ answered \subseteq asked
    /\ leased \subseteq answered /\ taken \subseteq answered
    /\ configured \subseteq leased \cap taken
    /\ said \in Seq(Messages) /\ heard \in 0..Len(said)

Init ==
    /\ pc = "request" /\ beside \in BOOLEAN /\ listening = TRUE /\ expired = FALSE
    /\ asked = {} /\ answered = {} /\ leased = {} /\ taken = {} /\ configured = {}
    /\ said = <<>> /\ heard = 0

Say(m) == said' = Append(said, m)
Idle   == heard = Len(said)      \* no send is under way

-----------------------------------------------------------------------------
\* Without links Request itself sends the message and closes the channel;
\* with some that match it starts configureAll and returns.
Request ==
    /\ pc = "request"
    /\ \/ \E w \in {"no list", "no match"} : Say(Message(w, None))
          /\ pc' = "refused" /\ UNCHANGED asked
       \/ \E ls \in (SUBSET Links) \ {{}}, ps \in SUBSET Protocols : asked' = ls \X ps
          /\ pc' = "loop" /\ UNCHANGED said
    /\ UNCHANGED <<caller, expired, answered, leased, taken, configured, heard>>

\* SendRequests: a result, in any order.
Answer ==
    /\ \E q \in asked \ answered :
          /\ answered' = answered \cup {q}
          /\ leased' \in {leased, leased \cup {q}}
    /\ UNCHANGED <<pc, caller, expired, asked, taken, configured, said, heard>>

Expire ==
    /\ pc = "loop" /\ ~expired
    /\ expired' = TRUE
    /\ UNCHANGED <<pc, caller, results, said, heard>>

-----------------------------------------------------------------------------
(* The loop of configureAll: select takes either case that is ready.       *)

Done ==
    /\ pc = "loop" /\ Idle /\ expired
    /\ Say(Message("done", None)) /\ pc' = "leaving"
    /\ UNCHANGED <<caller, expired, results, heard>>

AllAnswered ==
    /\ pc = "loop" /\ Idle /\ taken = asked
    /\ Say(Message("all", None)) /\ pc' = "leaving"
    /\ UNCHANGED <<caller, expired, results, heard>>

\* Mutant: the result's error is not looked at.
TakeUnchecked(q) ==
    /\ taken' = taken \cup {q}
    /\ \/ Say(Message("failed", q)) /\ UNCHANGED configured
       \/ /\ said' = said \o <<Message("configured", q), Success>>
          /\ configured' = configured \cup {q}

\* Mutant: the error of Configure is reported, but what follows is no else.
TakeFallingThrough(q) ==
    /\ taken' = taken \cup {q}
    /\ \/ Say(Message("failed", q)) /\ q \notin leased /\ UNCHANGED configured
       \/ /\ q \in leased
          /\ said' = said \o <<Message("configured", q), Success>>
          /\ configured' \in {configured, configured \cup {q}}

\* A result without error has a lease, which Configure may still refuse.
Take(q) ==
    /\ taken' = taken \cup {q}
    /\ \/ Say(Message("failed", q)) /\ UNCHANGED configured
       \/ /\ q \in leased
          /\ said' = said \o <<Message("configured", q), Success>>
          /\ configured' = configured \cup {q}

Result ==
    /\ pc = "loop" /\ Idle
    /\ \E q \in answered \ taken : Take(q)
    /\ UNCHANGED <<pc, caller, expired, asked, answered, leased, heard>>

\* Mutant: only configureAll closes the channel.
CloseDeferred ==
    /\ pc = "leaving" /\ Idle
    /\ pc' = "ended"
    /\ UNCHANGED <<caller, expired, results, said, heard>>

Close ==
    /\ pc \in {"refused", "leaving"} /\ Idle
    /\ pc' = "ended"
    /\ UNCHANGED <<caller, expired, results, said, heard>>

-----------------------------------------------------------------------------
(* The caller.                                                             *)

Receive ==
    /\ ~Idle /\ listening /\ (beside \/ pc # "refused")
    /\ heard' = heard + 1
    /\ UNCHANGED <<pc, caller, expired, results, said>>

StopReceiving ==
    /\ listening /\ heard > 0 /\ said[heard] = Success
    /\ listening' = FALSE
    /\ UNCHANGED <<pc, beside, expired, results, said, heard>>

-----------------------------------------------------------------------------
ConfigureAll == Done \/ AllAnswered \/ Result

Next == \/ Request \/ Answer \/ Expire \/ ConfigureAll \/ Close
        \/ Receive \/ StopReceiving

\* Nothing is assumed of the servers: the deadline ends the wait for them.
Fairness == /\ WF_vars(Request) /\ WF_vars(Expire) /\ WF_vars(ConfigureAll)
            /\ WF_vars(Close) /\ WF_vars(Receive)

Spec == Init /\ [][Next]_vars /\ Fairness

-----------------------------------------------------------------------------
(* Properties.                                                             *)

Positions == 1..Len(said)

\* What is said of requests: one report of each result, "configured" of the
\* leases that were, each followed by its "Successful".
ReportsMatch ==
    /\ \A k \in Positions : said[k].what = "configured" =>
          /\ said[k].about \in configured
          /\ k + 1 \in Positions /\ said[k + 1] = Success
    /\ \A q \in taken : \E k \in Positions : said[k].about = q
    /\ \A q \in configured : \E k \in Positions : said[k] = Message("configured", q)
    /\ \A j, k \in Positions :
          said[j].about # None /\ said[j].about = said[k].about => j = k

\* One message ends the reports: nothing follows it, it is there when the
\* channel is closed, and has been received by then.
EndsOnce ==
    /\ \A k \in Positions : said[k] \in Endings => k = Len(said)
    /\ pc \in {"refused", "leaving", "ended"} <=>
          Positions # {} /\ said[Len(said)] \in Endings
    /\ pc = "ended" => Idle

\* The reports add up, whenever they are looked at; and "Configured all
\* interfaces" comes after one of each request, although select may prefer
\* the deadline at any turn.
ReportsAddUp ==
    /\ ReportsMatch /\ EndsOnce
    /\ \A k \in Positions : said[k].what = "all" => taken = asked

\* The channel is closed whatever the servers do, unless the caller stops
\* receiving, or does not receive before Request has returned and there is
\* no interface to ask for.
Closes == (pc = "loop" \/ beside) ~> (pc = "ended" \/ ~listening)
=============================================================================
