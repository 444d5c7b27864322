---------------------------- MODULE WifiSetupMC ----------------------------
(* What may be in range.  One name is another one up to its colon.         *)
EXTENDS WifiSetup
CONSTANTS home, work, home_guest

MCCut == [e \in Essids |-> IF e = home_guest THEN home ELSE e]

Point(e, k, s) == [essid |-> e, key |-> k, security |-> s]

\* One access point of every kind, two and three (two of one network) of some,
\* and two of which iwlist leaves out a line or which have a colon in a name.
Ones   == {<<Point(home, "key", s)>> : s \in Security}
Twos   == {<<Point(home, "key", s), Point(work, "key", t)>> :
              s \in Security \ {"wep"}, t \in {"none", "psk", "mixed"}}
Threes == {<<Point(work, "key", "none"), Point(home, "key", s), Point(e, "key", t)>> :
              s, t \in {"psk", "wpa"}, e \in {home, work}}
Odd    == {<<Point(home, "key", "none"), Point(e, k, "psk")>> :
              e \in {work, home_guest, Missing}, k \in {"key", Missing}}

MCScans == Ones \cup Twos \cup Threes \cup Odd \cup {<<>>}
=============================================================================
