----------------------------- MODULE IwlistScan -----------------------------
(***************************************************************************)
(* parseIwlistOut of pkg/wifi/iwl.go: the options offered to the user from *)
(* the text that "iwlist scanning" prints, one turn of its loop at a time. *)
(*                                                                         *)
(* The text is a sequence of lines.  The code reads it without knowing     *)
(* where one cell's lines end, except for the two searches it narrows      *)
(* down; it takes the i-th match of each regular expression to be of the   *)
(* i-th cell.  Lines that no regular expression matches are all one.       *)
(***************************************************************************)
EXTENDS Naturals, Sequences, FiniteSets

CONSTANTS Essids,    \* names of networks
          Cut,       \* name -> the part before its first colon
          Missing    \* a line iwlist leaves out

ASSUME ScanAssumption == Cut \in [Essids -> Essids] /\ Missing \notin Essids \cup {"key"}

\* What protects a network, and the option the code is to offer for it.
\* "mixed" announces WPA with a passphrase and WPA2 with an identity, "bare"
\* WPA2 without an authentication suite.
Security  == {"none", "wep", "wpa", "psk", "eap", "mixed", "sae", "bare"}
Protocols == {"NoEnc", "WpaPsk", "WpaEap", "NotSupportedProto"}

Proto(s) == CASE s = "none" -> "NoEnc"
              [] s = "psk"  -> "WpaPsk"
              [] s \in {"eap", "mixed"} -> "WpaEap"
              [] OTHER -> "NotSupportedProto"

Points  == [essid : Essids \cup {Missing}, key : {"key", Missing}, security : Security]
Options == Essids \X Protocols

VARIABLES
    heard,   \* the access points iwlist lists
    o,       \* its output
    turn,    \* the next turn of the loop
    res      \* the options so far: an ESSID and a protocol each

scanned == <<heard, o, turn, res>>

-----------------------------------------------------------------------------
(* The text.                                                               *)

Line(t, v) == [tag |-> t, value |-> v]
Suite(v)   == Line("auth", v)
Wpa2       == Line("wpa2", "1")
Unmatched  == Line("none", "none")

\* The information elements iwlist prints for a network.
Elements(s) ==
    CASE s = "wpa"   -> <<Suite("PSK"), Unmatched, Unmatched>>
      [] s = "psk"   -> <<Wpa2, Suite("PSK"), Unmatched>>
      [] s = "eap"   -> <<Wpa2, Suite("802.1x"), Unmatched>>
      [] s = "mixed" -> <<Suite("PSK"), Wpa2, Suite("802.1x")>>
      [] s = "sae"   -> <<Wpa2, Suite("unknown"), Unmatched>>
      [] s = "bare"  -> <<Wpa2, Unmatched, Unmatched>>
      [] OTHER       -> <<Unmatched, Unmatched, Unmatched>>

\* The lines of one cell.
Shown(c) ==
    << Line("cell", "address"),
       IF c.key = Missing THEN Unmatched
       ELSE Line("key", IF c.security = "none" THEN "off" ELSE "on"),
       IF c.essid = Missing THEN Unmatched ELSE Line("essid", c.essid),
       Elements(c.security)[1], Elements(c.security)[2], Elements(c.security)[3] >>

Height == 6

\* The text for a sequence of cells: one after the other.
Text(cells) ==
    [p \in 1..(Height * Len(cells)) |->
        Shown(cells[1 + ((p - 1) \div Height)])[1 + ((p - 1) % Height)]]

-----------------------------------------------------------------------------
(* The regular expressions.                                                *)

\* The matching lines of o from line a to line b, and all of them (FindAll).
Matches(t, a, b) == {p \in a..b : o[p].tag = t}
All(t)           == Matches(t, 1, Len(o))

\* The i-th of them, and the first (Find, FindIndex).
Nth(S, i) == CHOOSE p \in S : Cardinality({q \in S : q <= p}) = i
First(S)  == CHOOSE p \in S : \A q \in S : p <= q

Count(t) == Cardinality(All(t))

-----------------------------------------------------------------------------
(* The loop.                                                               *)

\* Mutant: the end of the cell is not looked for.
OptionUnbounded(i) ==
    LET wpa2 == Matches("wpa2", Nth(All("cell"), i), Len(o))
        auth == Matches("auth", First(wpa2), Len(o))
    IN  IF wpa2 = {} THEN "NotSupportedProto"
        ELSE IF auth = {} THEN "panic"
        ELSE CASE o[First(auth)].value = "PSK"    -> "WpaPsk"
               [] o[First(auth)].value = "802.1x" -> "WpaEap"
               [] OTHER -> "NotSupportedProto"

\* The protocol of the i-th cell if its key is on: the first suite after the
\* WPA2 element of the cell; without a suite [1] is out of range.
Option(i) ==
    LET cells == All("cell")
        end   == IF i = Cardinality(cells) THEN Len(o) ELSE Nth(cells, i + 1) - 1
        wpa2  == Matches("wpa2", Nth(cells, i), end)
        auth  == Matches("auth", First(wpa2), end)
    IN  IF wpa2 = {} THEN "NotSupportedProto"
        ELSE IF auth = {} THEN "panic"
        ELSE CASE o[First(auth)].value = "PSK"    -> "WpaPsk"
               [] o[First(auth)].value = "802.1x" -> "WpaEap"
               [] OTHER -> "NotSupportedProto"

\* The i-th name and the i-th key are taken for those of the i-th cell; there
\* may be fewer of them than cells.
Name(i) ==
    IF i > Count("essid") THEN Missing ELSE Cut[o[Nth(All("essid"), i)].value]

Encryption(i) ==
    IF i > Count("key") THEN "panic"
    ELSE IF o[Nth(All("key"), i)].value = "off" THEN "NoEnc"
    ELSE Option(i)

Known(name) == \E k \in DOMAIN res : res[k][1] = name

Turning == turn <= Count("cell")

\* An index is out of range.
Panics ==
    \/ Name(turn) = Missing
    \/ ~Known(Name(turn)) /\ Encryption(turn) = "panic"

\* One turn of the loop: a name already known is passed over.
Turn ==
    /\ Turning /\ ~Panics
    /\ res' = IF Known(Name(turn)) THEN res
              ELSE Append(res, <<Name(turn), Encryption(turn)>>)
    /\ turn' = turn + 1 /\ UNCHANGED <<heard, o>>

\* Before the loop.
Begin(cells) == heard' = cells /\ o' = Text(cells) /\ turn' = 1 /\ res' = <<>>

ScanOK ==
    /\ heard \in Seq(Points) /\ o = Text(heard)
    /\ turn \in 1..(Len(heard) + 1) /\ res \in Seq(Options)

-----------------------------------------------------------------------------
(* What the parser is for, and when.                                       *)

\* "Cell, essid, and encryption key option are 1:1 match".
OneToOne == \A i \in DOMAIN heard : heard[i].essid # Missing /\ heard[i].key # Missing

\* "Each Wifi only support (1) authentication suites".
OneSuite == \A i \in DOMAIN heard : heard[i].security # "bare"

Regular == OneToOne /\ OneSuite /\ \A i \in DOMAIN heard : Cut[heard[i].essid] = heard[i].essid

\* For each name, the first access point that has it, among the first k.
Firsts(k) ==
    {i \in 1..k : \A j \in 1..(i - 1) : heard[j].essid # heard[i].essid}

\* The options are those of the firsts among k, in the order of the scan and
\* with the protection of that very access point.
OptionsOf(k) ==
    \E f \in [DOMAIN res -> Firsts(k)] :
        /\ \A a, b \in DOMAIN res : a < b => f[a] < f[b]
        /\ \A i \in Firsts(k) : \E a \in DOMAIN res : f[a] = i
        /\ \A a \in DOMAIN res :
              res[a] = <<heard[f[a]].essid, Proto(heard[f[a]].security)>>
=============================================================================
