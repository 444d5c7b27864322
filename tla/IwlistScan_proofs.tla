------------------------- MODULE IwlistScan_proofs -------------------------
(* What the parser finds in the text of any scan: the columns of the cells *)
(* by counting, the protocol of each, and the options turn by turn.        *)
EXTENDS IwlistScan, FiniteSetTheorems, WellFoundedInduction, TLAPS

\* Line k of cell i.
Pos(i, k) == Height * (i - 1) + k

\* The lines k of the first n cells.
Column(n, k) == {Pos(j, k) : j \in 1..n}

\* The members of S up to m.
Upto(S, m) == {q \in S : q <= m}

-----------------------------------------------------------------------------
(* Counting.                                                               *)

\* A set of numbers has a least one.
LEMMA Least ==
  ASSUME NEW T \in SUBSET Nat, T # {}
  PROVE  \E m \in T : \A k \in T : m <= k
  <1> DEFINE R == {ss \in Nat \X Nat : ss[1] < ss[2]}
  <1>1. IsWellFoundedOn(R, Nat)
    BY NatLessThanWellFounded DEF OpToRel
  <1> HIDE DEF R
  <1>2. PICK m \in T : \A k \in T : ~ (<<k, m>> \in R)
    BY <1>1, WFMin
  <1>3. \A k \in T : ~ (k < m)
    BY <1>2 DEF R
  <1>4. QED
    BY <1>3

\* First is that one.
LEMMA FirstIsLeast ==
  ASSUME NEW S \in SUBSET Nat, NEW p \in S, \A q \in S : p <= q
  PROVE  First(S) = p
  <1>1. \A x \in S : (\A q \in S : x <= q) <=> x = p
    OBVIOUS
  <1>2. QED
    BY <1>1 DEF First

\* A column has as many lines as there are cells.
LEMMA ColumnCount ==
  ASSUME NEW n \in Nat, NEW k \in Nat
  PROVE  IsFiniteSet(Column(n, k)) /\ Cardinality(Column(n, k)) = n
  <1> DEFINE f == [j \in 1..n |-> Pos(j, k)]
  <1>1. f \in Surjection(1..n, Column(n, k))
    BY DEF Column, Surjection
  <1>2. \A i, j \in 1..n : f[i] = f[j] => i = j
    BY DEF Pos, Height
  <1>3. f \in Bijection(1..n, Column(n, k))
    BY <1>1, <1>2 DEF Bijection, Injection, IsInjective, Surjection
  <1>4. ExistsBijection(1..n, Column(n, k))
    BY <1>3 DEF ExistsBijection
  <1>5. IsFiniteSet(1..n) /\ Cardinality(1..n) = n
    BY FS_Interval
  <1>6. QED
    BY <1>4, <1>5, FS_Bijection

\* The i-th of its lines is that of the i-th cell.
LEMMA ColumnNth ==
  ASSUME NEW n \in Nat, NEW k \in Nat, NEW i \in 1..n
  PROVE  Nth(Column(n, k), i) = Pos(i, k)
  <1>1. \A j \in 1..n : {q \in Column(n, k) : q <= Pos(j, k)} = Column(j, k)
    BY DEF Column, Pos, Height
  <1>2. \A j \in 1..n : Cardinality({q \in Column(n, k) : q <= Pos(j, k)}) = j
    BY <1>1, ColumnCount
  <1>3. \A p \in Column(n, k) :
           Cardinality({q \in Column(n, k) : q <= p}) = i <=> p = Pos(i, k)
    BY <1>2 DEF Column
  <1>4. Pos(i, k) \in Column(n, k)
    BY DEF Column
  <1>5. QED
    BY <1>3, <1>4 DEF Nth

\* One line more is counted once if it is one of them.
LEMMA UptoNext ==
  ASSUME NEW S \in SUBSET Nat, NEW m \in Nat \ {0}, IsFiniteSet(Upto(S, m - 1))
  PROVE  Cardinality(Upto(S, m)) = Cardinality(Upto(S, m - 1)) + (IF m \in S THEN 1 ELSE 0)
  <1>1. m \notin Upto(S, m - 1) /\ Cardinality(Upto(S, m - 1)) \in Nat
    BY FS_CardinalityType DEF Upto
  <1>2. Upto(S, m) = IF m \in S THEN Upto(S, m - 1) \cup {m} ELSE Upto(S, m - 1)
    <2>1. \A q \in S : q <= m <=> q <= m - 1 \/ q = m
      OBVIOUS
    <2>2. QED
      BY <2>1 DEF Upto
  <1>3. Cardinality(Upto(S, m - 1) \cup {m}) = Cardinality(Upto(S, m - 1)) + 1
    BY <1>1, FS_AddElement
  <1>4. QED
    BY <1>1, <1>2, <1>3

\* Of any lines there are, the i-th is one of them.
LEMMA NthIn ==
  ASSUME NEW L \in Nat, NEW S \in SUBSET (1..L), NEW i \in 1..Cardinality(S)
  PROVE  Nth(S, i) \in S
  <1> DEFINE T == {m \in Nat : Cardinality(Upto(S, m)) >= i}
  <1>1. S \in SUBSET Nat /\ Upto(S, L) = S /\ Upto(S, 0) = {}
    <2>1. S \subseteq Nat /\ \A q \in S : q <= L /\ ~ (q <= 0)
      OBVIOUS
    <2>2. QED
      BY <2>1 DEF Upto
  <1>2. IsFiniteSet(S) /\ Cardinality(S) \in Nat
    <2>1. IsFiniteSet(1..L)
      BY FS_Interval
    <2>2. IsFiniteSet(S)
      BY <2>1, FS_Subset
    <2>3. QED
      BY <2>2, FS_CardinalityType
  <1>3. \A m \in Nat : IsFiniteSet(Upto(S, m)) /\ Cardinality(Upto(S, m)) \in Nat
    <2>1. \A m \in Nat : Upto(S, m) \in SUBSET S
      BY DEF Upto
    <2>2. QED
      BY <1>2, <2>1, FS_Subset, FS_CardinalityType
  <1>4. L \in T /\ 0 \notin T
    BY <1>1, <1>2, FS_EmptySet
  <1>5. PICK m \in T : \A k \in T : m <= k
    <2>1. T \in SUBSET Nat /\ T # {}
      BY <1>4
    <2>2. QED
      BY <2>1, Least
  <1>6. m \in Nat \ {0} /\ m - 1 \in Nat /\ m - 1 \notin T
    BY <1>4, <1>5
  <1>7. Cardinality(Upto(S, m)) = Cardinality(Upto(S, m - 1)) + (IF m \in S THEN 1 ELSE 0)
    BY <1>1, <1>3, <1>6, UptoNext
  <1>8. m \in S /\ Cardinality(Upto(S, m)) = i
    BY <1>3, <1>5, <1>6, <1>7
  <1>9. QED
    BY <1>8 DEF Nth, Upto

-----------------------------------------------------------------------------
(* The text.                                                               *)

\* The text is line after line of cell after cell.
LEMMA TextShape ==
  ASSUME NEW cells \in Seq(Points)
  PROVE  /\ Len(Text(cells)) = Height * Len(cells)
         /\ \A i \in 1..Len(cells), k \in 1..Height :
               /\ Pos(i, k) \in 1..(Height * Len(cells))
               /\ Text(cells)[Pos(i, k)] = Shown(cells[i])[k]
         /\ \A p \in 1..(Height * Len(cells)) :
               \E i \in 1..Len(cells), k \in 1..Height : p = Pos(i, k)
  <1>1. Len(cells) \in Nat /\ Height * Len(cells) \in Nat
    BY DEF Height
  <1>2. /\ Text(cells) = [p \in 1..(Height * Len(cells)) |-> Text(cells)[p]]
        /\ DOMAIN Text(cells) = 1..(Height * Len(cells))
    BY DEF Text
  <1>3. Len(Text(cells)) = Height * Len(cells)
    BY <1>1, <1>2
  <1>4. ASSUME NEW i \in 1..Len(cells), NEW k \in 1..Height
        PROVE  /\ Pos(i, k) \in 1..(Height * Len(cells))
               /\ Text(cells)[Pos(i, k)] = Shown(cells[i])[k]
    <2>1. Pos(i, k) \in 1..(Height * Len(cells))
      BY DEF Pos, Height
    <2>2. 1 + ((Pos(i, k) - 1) \div Height) = i /\ 1 + ((Pos(i, k) - 1) % Height) = k
      BY DEF Pos, Height
    <2>3. QED
      BY <2>1, <2>2 DEF Text
  <1>5. ASSUME NEW p \in 1..(Height * Len(cells))
        PROVE  \E i \in 1..Len(cells), k \in 1..Height : p = Pos(i, k)
    <2>1. /\ 1 + ((p - 1) \div Height) \in 1..Len(cells)
          /\ 1 + ((p - 1) % Height) \in 1..Height
          /\ p = Pos(1 + ((p - 1) \div Height), 1 + ((p - 1) % Height))
      BY DEF Pos, Height
    <2>2. QED
      BY <2>1
  <1>6. QED
    BY <1>3, <1>4, <1>5

\* The same of the text the parser reads.
LEMMA OutputShape ==
  ASSUME ScanOK
  PROVE  /\ Len(heard) \in Nat /\ Len(o) = Height * Len(heard)
         /\ \A i \in 1..Len(heard) : heard[i] \in Points
         /\ \A i \in 1..Len(heard), k \in 1..Height :
               Pos(i, k) \in 1..Len(o) /\ o[Pos(i, k)] = Shown(heard[i])[k]
         /\ \A p \in 1..Len(o) :
               \E i \in 1..Len(heard), k \in 1..Height : p = Pos(i, k)
  <1>1. heard \in Seq(Points) /\ o = Text(heard)
    BY DEF ScanOK
  <1>2. /\ Len(o) = Height * Len(heard)
        /\ \A i \in 1..Len(heard), k \in 1..Height :
              /\ Pos(i, k) \in 1..(Height * Len(heard))
              /\ Text(heard)[Pos(i, k)] = Shown(heard[i])[k]
        /\ \A p \in 1..(Height * Len(heard)) :
              \E i \in 1..Len(heard), k \in 1..Height : p = Pos(i, k)
    BY <1>1, TextShape
  <1>3. Len(heard) \in Nat /\ \A i \in 1..Len(heard) : heard[i] \in Points
    BY <1>1
  <1>4. QED
    BY <1>1, <1>2, <1>3

\* Where the lines of a cell are.
LEMMA PosUnique ==
  ASSUME NEW i \in Nat, NEW j \in Nat, NEW k \in 1..Height, NEW l \in 1..Height
  PROVE  /\ Pos(i, k) = Pos(j, l) <=> i = j /\ k = l
         /\ Pos(i, k) <= Pos(j, l) <=> i < j \/ (i = j /\ k <= l)
  BY DEF Pos, Height

\* The elements of every protection.
LEMMA ElementsAre ==
  /\ Elements("none")  = <<Unmatched, Unmatched, Unmatched>>
  /\ Elements("wep")   = <<Unmatched, Unmatched, Unmatched>>
  /\ Elements("wpa")   = <<Suite("PSK"), Unmatched, Unmatched>>
  /\ Elements("psk")   = <<Wpa2, Suite("PSK"), Unmatched>>
  /\ Elements("eap")   = <<Wpa2, Suite("802.1x"), Unmatched>>
  /\ Elements("mixed") = <<Suite("PSK"), Wpa2, Suite("802.1x")>>
  /\ Elements("sae")   = <<Wpa2, Suite("unknown"), Unmatched>>
  /\ Elements("bare")  = <<Wpa2, Unmatched, Unmatched>>
  BY DEF Elements

\* What a cell shows in which line.
LEMMA Tags ==
  ASSUME NEW c \in Points
  PROVE  /\ Shown(c)[1] = Line("cell", "address")
         /\ Shown(c)[2] = IF c.key = Missing THEN Unmatched
                          ELSE Line("key", IF c.security = "none" THEN "off" ELSE "on")
         /\ Shown(c)[3] = IF c.essid = Missing THEN Unmatched ELSE Line("essid", c.essid)
         /\ Shown(c)[4] = Elements(c.security)[1]
         /\ Shown(c)[5] = Elements(c.security)[2]
         /\ Shown(c)[6] = Elements(c.security)[3]
  BY DEF Shown

\* The lines of the elements are of no column.
LEMMA ElementTags ==
  ASSUME NEW c \in Points, NEW k \in 4..6
  PROVE  Shown(c)[k].tag \in {"none", "auth", "wpa2"}
  <1> DEFINE e == Elements(c.security)
  <1>1. c.security \in Security
    BY DEF Points
  <1>2. /\ e[1] \in {Unmatched, Wpa2, Suite("PSK")}
        /\ e[2] \in {Unmatched, Wpa2, Suite("PSK"), Suite("802.1x"), Suite("unknown")}
        /\ e[3] \in {Unmatched, Suite("802.1x")}
    BY <1>1, ElementsAre DEF Security
  <1>3. /\ Unmatched.tag = "none" /\ Wpa2.tag = "wpa2"
        /\ \A v : Suite(v).tag = "auth"
    BY DEF Unmatched, Wpa2, Suite, Line
  <1>4. k = 4 \/ k = 5 \/ k = 6
    OBVIOUS
  <1>5. Shown(c)[4] = e[1] /\ Shown(c)[5] = e[2] /\ Shown(c)[6] = e[3]
    BY Tags
  <1> HIDE DEF e
  <1>6. QED
    BY <1>2, <1>3, <1>4, <1>5

\* The only line that can be of a column's kind.
LEMMA TagLine ==
  ASSUME NEW c \in Points, NEW k \in 1..Height
  PROVE  /\ Shown(c)[k].tag = "cell" <=> k = 1
         /\ Shown(c)[k].tag = "key" <=> k = 2 /\ c.key # Missing
         /\ Shown(c)[k].tag = "essid" <=> k = 3 /\ c.essid # Missing
  <1>1. k \in 4..6 => Shown(c)[k].tag \in {"none", "auth", "wpa2"}
    BY ElementTags
  <1>2. k \in {1, 2, 3} \cup 4..6
    BY DEF Height
  <1>3. CASE k = 1
    <2>1. Shown(c)[k].tag = "cell"
      <3>1. Shown(c)[k] = Line("cell", "address")
        BY <1>3, Tags
      <3>2. QED
        BY <3>1 DEF Line
    <2>2. QED
      BY <1>3, <2>1
  <1>4. CASE k = 2
    <2>1. Shown(c)[k].tag = IF c.key = Missing THEN "none" ELSE "key"
      <3>1. \/ c.key = Missing /\ Shown(c)[k] = Unmatched
            \/ c.key # Missing /\ \E v : Shown(c)[k] = Line("key", v)
        BY <1>4, Tags
      <3>2. Unmatched.tag = "none" /\ \A v : Line("key", v).tag = "key"
        BY DEF Line, Unmatched
      <3>3. QED
        BY <3>1, <3>2
    <2>2. QED
      BY <1>4, <2>1
  <1>5. CASE k = 3
    <2>1. Shown(c)[k].tag = IF c.essid = Missing THEN "none" ELSE "essid"
      <3>1. \/ c.essid = Missing /\ Shown(c)[k] = Unmatched
            \/ c.essid # Missing /\ \E v : Shown(c)[k] = Line("essid", v)
        BY <1>5, Tags
      <3>2. Unmatched.tag = "none" /\ \A v : Line("essid", v).tag = "essid"
        BY DEF Line, Unmatched
      <3>3. QED
        BY <3>1, <3>2
    <2>2. QED
      BY <1>5, <2>1
  <1>6. CASE k \in 4..6
    <2>1. k # 1 /\ k # 2 /\ k # 3
      BY <1>6
    <2>2. QED
      BY <1>1, <1>6, <2>1
  <1>7. QED
    BY <1>2, <1>3, <1>4, <1>5, <1>6

\* All the lines of a kind.
LEMMA AllOfCells ==
  ASSUME ScanOK
  PROVE  /\ All("cell") = Column(Len(heard), 1)
         /\ OneToOne => /\ All("key") = Column(Len(heard), 2)
                        /\ All("essid") = Column(Len(heard), 3)
  <1>1. ASSUME NEW k \in {1, 2, 3}, NEW t,
               \A i \in 1..Len(heard), l \in 1..Height :
                  Shown(heard[i])[l].tag = t <=> l = k
        PROVE  All(t) = Column(Len(heard), k)
    <2>1. k \in 1..Height
      BY DEF Height
    <2>2. ASSUME NEW i \in 1..Len(heard), NEW l \in 1..Height
          PROVE  o[Pos(i, l)].tag = t <=> l = k
      <3>1. o[Pos(i, l)] = Shown(heard[i])[l]
        BY OutputShape
      <3>2. Shown(heard[i])[l].tag = t <=> l = k
        BY <1>1
      <3>3. QED
        BY <3>1, <3>2
    <2>3. ASSUME NEW p \in All(t) PROVE p \in Column(Len(heard), k)
      <3>1. p \in 1..Len(o) /\ o[p].tag = t
        BY <2>3 DEF All, Matches
      <3>2. PICK i \in 1..Len(heard), l \in 1..Height : p = Pos(i, l)
        BY <3>1, OutputShape
      <3>3. QED
        BY <2>2, <3>1, <3>2 DEF Column
    <2>4. ASSUME NEW p \in Column(Len(heard), k) PROVE p \in All(t)
      <3>1. PICK i \in 1..Len(heard) : p = Pos(i, k)
        BY <2>4 DEF Column
      <3>2. QED
        BY <2>1, <2>2, <3>1, OutputShape DEF All, Matches
    <2>5. QED
      BY <2>3, <2>4
  <1>2. \A i \in 1..Len(heard) : heard[i] \in Points
    BY OutputShape
  <1>3. All("cell") = Column(Len(heard), 1)
    BY <1>1, <1>2, TagLine
  <1>4. ASSUME OneToOne
        PROVE  All("key") = Column(Len(heard), 2) /\ All("essid") = Column(Len(heard), 3)
    <2>1. \A i \in 1..Len(heard) : heard[i].essid # Missing /\ heard[i].key # Missing
      BY <1>4 DEF OneToOne, ScanOK
    <2>2. QED
      BY <1>1, <1>2, <2>1, TagLine
  <1>5. QED
    BY <1>3, <1>4

\* There is a turn for every cell.
LEMMA TurnsOfCells ==
  ASSUME ScanOK
  PROVE  Count("cell") = Len(heard) /\ (Turning <=> turn <= Len(heard))
  <1>1. Len(heard) \in Nat
    BY OutputShape
  <1>2. QED
    BY <1>1, AllOfCells, ColumnCount DEF Count, Turning

-----------------------------------------------------------------------------
(* Any scan.                                                               *)

\* Names are names of networks, protocols are protocols, for any lines left
\* out: what is cannot be found is Missing or an index out of range.
LEMMA Typed ==
  ASSUME ScanOK, NEW i \in Nat \ {0}
  PROVE  Name(i) \in Essids \cup {Missing} /\ Encryption(i) \in Protocols \cup {"panic"}
  <1>1. ASSUME i > Count("essid") PROVE Name(i) = Missing
    BY <1>1 DEF Name
  <1>2. ASSUME ~ (i > Count("essid")) PROVE Name(i) \in Essids
    <2>1. Len(o) \in Nat /\ All("essid") \in SUBSET (1..Len(o))
      BY OutputShape DEF All, Matches, Height
    <2>2. Count("essid") \in Nat
      <3>1. IsFiniteSet(1..Len(o))
        BY <2>1, FS_Interval
      <3>2. IsFiniteSet(All("essid"))
        BY <2>1, <3>1, FS_Subset
      <3>3. QED
        BY <3>2, FS_CardinalityType DEF Count
    <2>3. i \in 1..Cardinality(All("essid"))
      BY <1>2, <2>2 DEF Count
    <2>4. Nth(All("essid"), i) \in All("essid")
      BY <2>1, <2>3, NthIn
    <2>5. ASSUME NEW p \in All("essid") PROVE o[p].value \in Essids
      <3>1. p \in 1..Len(o) /\ o[p].tag = "essid"
        BY <2>5 DEF All, Matches
      <3>2. PICK j \in 1..Len(heard), k \in 1..Height : p = Pos(j, k)
        BY <3>1, OutputShape
      <3>3. heard[j] \in Points /\ o[p] = Shown(heard[j])[k]
        BY <3>2, OutputShape
      <3>4. k = 3 /\ heard[j].essid # Missing
        BY <3>1, <3>3, TagLine
      <3>5. o[p] = Line("essid", heard[j].essid)
        BY <3>3, <3>4, Tags
      <3>6. QED
        BY <3>3, <3>4, <3>5 DEF Line, Points
    <2>6. QED
      BY <1>2, <2>4, <2>5, ScanAssumption DEF Name
  <1>3. Option(i) \in Protocols \cup {"panic"}
    <2> DEFINE v == o[First(Matches("auth", First(Matches("wpa2",
                       Nth(All("cell"), i),
                       IF i = Cardinality(All("cell")) THEN Len(o) ELSE Nth(All("cell"), i + 1) - 1)),
                       IF i = Cardinality(All("cell")) THEN Len(o) ELSE Nth(All("cell"), i + 1) - 1))].value
    <2>1. Option(i) \in {"NotSupportedProto", "panic",
             CASE v = "PSK"    -> "WpaPsk"
               [] v = "802.1x" -> "WpaEap"
               [] OTHER -> "NotSupportedProto"}
      BY DEF Option
    <2>2. QED
      BY <2>1 DEF Protocols
  <1>4. QED
    BY <1>1, <1>2, <1>3 DEF Encryption, Protocols

-----------------------------------------------------------------------------
(* A scan in which cells, names and keys are one to one.                   *)

\* The i-th name and the i-th key are those of the i-th cell.
LEMMA ColumnsOfCell ==
  ASSUME ScanOK, OneToOne, NEW i \in 1..Len(heard)
  PROVE  /\ heard[i].essid \in Essids
         /\ Name(i) = Cut[heard[i].essid]
         /\ Encryption(i) = IF heard[i].security = "none" THEN "NoEnc" ELSE Option(i)
  <1>1. Len(heard) \in Nat /\ heard[i] \in Points
    BY OutputShape
  <1>2. heard[i].essid # Missing /\ heard[i].key # Missing
    BY <1>1 DEF OneToOne, ScanOK
  <1>3. /\ ~ (i > Count("essid")) /\ ~ (i > Count("key"))
        /\ Nth(All("essid"), i) = Pos(i, 3) /\ Nth(All("key"), i) = Pos(i, 2)
    BY <1>1, AllOfCells, ColumnCount, ColumnNth DEF Count
  <1>4. o[Pos(i, 3)] = Shown(heard[i])[3] /\ o[Pos(i, 2)] = Shown(heard[i])[2]
    <2>1. 2 \in 1..Height /\ 3 \in 1..Height
      BY DEF Height
    <2>2. QED
      BY <2>1, OutputShape
  <1>5. o[Pos(i, 3)] = Line("essid", heard[i].essid)
    BY <1>1, <1>2, <1>4, Tags
  <1>6. o[Pos(i, 2)] = Line("key", IF heard[i].security = "none" THEN "off" ELSE "on")
    BY <1>1, <1>2, <1>4, Tags
  <1>7. o[Pos(i, 3)].value = heard[i].essid
    BY <1>5 DEF Line
  <1>8. o[Pos(i, 2)].value = "off" <=> heard[i].security = "none"
    BY <1>6 DEF Line
  <1>9. QED
    BY <1>1, <1>2, <1>3, <1>7, <1>8 DEF Name, Encryption, Points

\* What is searched for the protocol is the rest of the cell.
LEMMA EndOfCell ==
  ASSUME ScanOK, NEW i \in 1..Len(heard)
  PROVE  /\ Nth(All("cell"), i) = Pos(i, 1)
         /\ Pos(i, 6) = IF i = Cardinality(All("cell")) THEN Len(o)
                        ELSE Nth(All("cell"), i + 1) - 1
  <1>1. Len(heard) \in Nat /\ Len(o) = Height * Len(heard)
    BY OutputShape
  <1>2. Cardinality(All("cell")) = Len(heard)
    BY <1>1, AllOfCells, ColumnCount
  <1>3. \A j \in 1..Len(heard) : Nth(All("cell"), j) = Pos(j, 1)
    BY <1>1, AllOfCells, ColumnNth
  <1>4. CASE i = Len(heard)
    BY <1>1, <1>2, <1>3, <1>4 DEF Pos, Height
  <1>5. CASE i # Len(heard)
    <2>1. i + 1 \in 1..Len(heard)
      BY <1>1, <1>5
    <2>2. QED
      BY <1>2, <1>3, <1>5, <2>1 DEF Pos, Height
  <1>6. QED
    BY <1>4, <1>5

\* What is found there from line k on is what the cell shows.
LEMMA Within ==
  ASSUME ScanOK, NEW i \in 1..Len(heard), NEW k \in 1..6, NEW t
  PROVE  Matches(t, Pos(i, k), Pos(i, 6)) =
            {Pos(i, l) : l \in {m \in k..6 : Shown(heard[i])[m].tag = t}}
  <1>1. \A l \in 1..6 : o[Pos(i, l)] = Shown(heard[i])[l]
    BY OutputShape DEF Height
  <1>2. Len(heard) \in Nat
    BY OutputShape
  <1>3. \A p \in Pos(i, k)..Pos(i, 6) : \E l \in k..6 : p = Pos(i, l)
    <2>1. ASSUME NEW p \in Pos(i, k)..Pos(i, 6)
          PROVE  p - Height * (i - 1) \in k..6 /\ p = Pos(i, p - Height * (i - 1))
      BY <1>2 DEF Pos, Height
    <2>2. QED
      BY <2>1
  <1>4. \A l \in k..6 : Pos(i, l) \in Pos(i, k)..Pos(i, 6) /\ l \in 1..6
    BY <1>2 DEF Pos, Height
  <1>5. QED
    BY <1>1, <1>3, <1>4 DEF Matches

\* The first line of a kind, if there is one.
LEMMA FirstWithin ==
  ASSUME ScanOK, NEW i \in 1..Len(heard), NEW k \in 1..6, NEW t, NEW m \in k..6,
         Shown(heard[i])[m].tag = t, \A l \in k..(m - 1) : Shown(heard[i])[l].tag # t
  PROVE  /\ Matches(t, Pos(i, k), Pos(i, 6)) # {}
         /\ First(Matches(t, Pos(i, k), Pos(i, 6))) = Pos(i, m)
  <1> DEFINE S == Matches(t, Pos(i, k), Pos(i, 6))
  <1>1. S = {Pos(i, l) : l \in {j \in k..6 : Shown(heard[i])[j].tag = t}}
    BY Within
  <1>2. Pos(i, m) \in S
    BY <1>1
  <1>3. \A l \in {j \in k..6 : Shown(heard[i])[j].tag = t} : m <= l
    OBVIOUS
  <1>4. Len(heard) \in Nat
    BY OutputShape
  <1>5. \A q \in S : q \in Nat /\ Pos(i, m) <= q
    BY <1>1, <1>3, <1>4 DEF Pos, Height
  <1> HIDE DEF S
  <1>6. First(S) = Pos(i, m)
    BY <1>2, <1>5, FirstIsLeast
  <1>7. QED
    BY <1>2, <1>6 DEF S

\* The protocol of a cell whose key is on and that has an authentication suite.
LEMMA OptionOfCell ==
  ASSUME ScanOK, NEW i \in 1..Len(heard), heard[i].security \notin {"none", "bare"}
  PROVE  Option(i) = Proto(heard[i].security)
  <1> DEFINE s == heard[i].security
             c == heard[i]
  <1>1. c \in Points /\ s \in {"wep", "wpa", "psk", "eap", "mixed", "sae"}
    <2>1. c \in Points
      BY OutputShape
    <2>2. QED
      BY <2>1 DEF Points, Security
  <1>2. /\ Unmatched.tag = "none" /\ Wpa2.tag = "wpa2"
        /\ \A v : Suite(v).tag = "auth" /\ Suite(v).value = v
        /\ Line("cell", "address").tag = "cell" /\ \A v : Line("key", v).tag = "key"
        /\ \A v : Line("essid", v).tag = "essid"
    BY DEF Unmatched, Wpa2, Suite, Line
  <1>3. \A k \in 1..3 : Shown(c)[k].tag \notin {"wpa2", "auth"}
    <2>1. Shown(c)[1].tag = "cell" /\ Shown(c)[2].tag \in {"none", "key"}
          /\ Shown(c)[3].tag \in {"none", "essid"}
      BY <1>1, <1>2, Tags
    <2>2. QED
      BY <2>1
  <1>4. /\ Shown(c)[4] = Elements(s)[1] /\ Shown(c)[5] = Elements(s)[2]
        /\ Shown(c)[6] = Elements(s)[3]
    BY <1>1, Tags
  <1> DEFINE wpa2 == Matches("wpa2", Pos(i, 1), Pos(i, 6))
             auth == Matches("auth", First(wpa2), Pos(i, 6))
             v    == o[First(auth)].value
  <1>5. Option(i) = IF wpa2 = {} THEN "NotSupportedProto"
                    ELSE IF auth = {} THEN "panic"
                    ELSE CASE v = "PSK"    -> "WpaPsk"
                           [] v = "802.1x" -> "WpaEap"
                           [] OTHER -> "NotSupportedProto"
    BY EndOfCell DEF Option
  <1>6. ASSUME \A k \in 4..6 : Shown(c)[k].tag # "wpa2" PROVE Option(i) = "NotSupportedProto"
    <2>1. \A k \in 1..6 : Shown(c)[k].tag # "wpa2"
      BY <1>3, <1>6
    <2>2. wpa2 = {}
      BY <2>1, Within
    <2>3. QED
      BY <1>5, <2>2
  <1>7. ASSUME NEW k \in 4..5, NEW u, Shown(c)[k] = Wpa2, Shown(c)[k + 1] = Suite(u),
               \A l \in 4..(k - 1) : Shown(c)[l].tag # "wpa2"
        PROVE  Option(i) = CASE u = "PSK"    -> "WpaPsk"
                             [] u = "802.1x" -> "WpaEap"
                             [] OTHER -> "NotSupportedProto"
    <2>1. \A l \in 1..(k - 1) : Shown(c)[l].tag # "wpa2"
      BY <1>3, <1>7
    <2>2. wpa2 # {} /\ First(wpa2) = Pos(i, k)
      BY <1>2, <1>7, <2>1, FirstWithin
    <2>3. \A l \in k..k : Shown(c)[l].tag # "auth"
      BY <1>2, <1>7
    <2>4. k \in 1..6 /\ k + 1 \in k..6 /\ k + 1 \in 1..Height /\ (k + 1) - 1 = k
      BY DEF Height
    <2>5. auth # {} /\ First(auth) = Pos(i, k + 1)
      BY <1>2, <1>7, <2>2, <2>3, <2>4, FirstWithin
    <2>6. v = u
      <3>1. o[Pos(i, k + 1)] = Shown(c)[k + 1]
        BY <2>4, OutputShape
      <3>2. QED
        BY <1>2, <1>7, <2>5, <3>1
    <2>7. QED
      BY <1>5, <2>2, <2>5, <2>6
  <1> HIDE DEF wpa2, auth, v
  <1>8. CASE s = "wep" \/ s = "wpa"
    <2>1. \A k \in 1..3 : Elements(s)[k].tag # "wpa2"
      BY <1>2, <1>8, ElementsAre
    <2>2. \A k \in 4..6 : Shown(c)[k].tag # "wpa2"
      BY <1>4, <2>1
    <2>3. QED
      BY <1>6, <1>8, <2>2 DEF Proto
  <1>9. CASE s \in {"psk", "eap", "sae"}
    <2>1. PICK u \in {"PSK", "802.1x", "unknown"} :
             /\ Elements(s) = <<Wpa2, Suite(u), Unmatched>>
             /\ u = IF s = "psk" THEN "PSK" ELSE IF s = "eap" THEN "802.1x" ELSE "unknown"
      BY <1>9, ElementsAre
    <2>2. Shown(c)[4] = Wpa2 /\ Shown(c)[4 + 1] = Suite(u)
      BY <1>4, <2>1
    <2>3. Option(i) = CASE u = "PSK"    -> "WpaPsk"
                        [] u = "802.1x" -> "WpaEap"
                        [] OTHER -> "NotSupportedProto"
      BY <1>7, <2>2
    <2>4. QED
      BY <1>9, <2>1, <2>3 DEF Proto
  <1>10. CASE s = "mixed"
    <2>1. /\ Shown(c)[4] = Suite("PSK") /\ Shown(c)[5] = Wpa2
          /\ Shown(c)[5 + 1] = Suite("802.1x")
      BY <1>4, <1>10, ElementsAre
    <2>2. \A l \in 4..(5 - 1) : Shown(c)[l].tag # "wpa2"
      BY <1>2, <2>1
    <2>3. Option(i) = "WpaEap"
      BY <1>7, <2>1, <2>2
    <2>4. QED
      BY <1>10, <2>3 DEF Proto
  <1>11. QED
    BY <1>1, <1>8, <1>9, <1>10

\* Under the code's assumptions no index is out of range, and the protocol of
\* every cell is that of its own protection.
LEMMA CellRead ==
  ASSUME ScanOK, OneToOne, OneSuite, NEW i \in 1..Len(heard)
  PROVE  /\ heard[i].essid \in Essids
         /\ Name(i) = Cut[heard[i].essid]
         /\ Encryption(i) = Proto(heard[i].security)
  <1>1. heard[i].security # "bare"
    BY DEF OneSuite, ScanOK
  <1>2. CASE heard[i].security = "none"
    BY <1>2, ColumnsOfCell DEF Proto
  <1>3. CASE heard[i].security # "none"
    BY <1>1, <1>3, ColumnsOfCell, OptionOfCell
  <1>4. QED
    BY <1>2, <1>3, ColumnsOfCell

\* So the loop never panics, whatever names have colons.
LEMMA NeverPanics ==
  ASSUME ScanOK, OneToOne, OneSuite, Turning
  PROVE  ~Panics
  <1>1. turn \in 1..Len(heard)
    BY TurnsOfCells DEF ScanOK
  <1>2. Name(turn) \in Essids /\ Encryption(turn) \in Protocols
    BY <1>1, CellRead, ScanAssumption DEF Proto, Protocols
  <1>3. QED
    BY <1>2, ScanAssumption DEF Panics, Protocols

-----------------------------------------------------------------------------
(* The loop.                                                               *)

\* Before it there is nothing to keep.
LEMMA BeginKeeps ==
  ASSUME NEW cells \in Seq(Points), Begin(cells)
  PROVE  ScanOK' /\ OptionsOf(turn - 1)'
  <1>1. ScanOK'
    BY DEF Begin, ScanOK
  <1>2. turn' - 1 = 0 /\ DOMAIN res' = {}
    BY DEF Begin
  <1>3. \A f : f = [a \in {} |-> 0] => f \in [DOMAIN res' -> Firsts(0)']
    BY <1>2
  <1>4. Firsts(0)' = {}
    BY DEF Firsts
  <1>5. QED
    BY <1>1, <1>2, <1>3, <1>4 DEF OptionsOf

\* A turn keeps every type.
LEMMA TurnTyped ==
  ASSUME ScanOK, Turn
  PROVE  ScanOK'
  <1>1. turn \in 1..Len(heard) /\ turn \in Nat \ {0} /\ Len(heard) \in Nat
    BY TurnsOfCells, OutputShape DEF ScanOK, Turn
  <1>2. ~Known(Name(turn)) => <<Name(turn), Encryption(turn)>> \in Options
    BY <1>1, Typed DEF Turn, Panics, Options
  <1>3. res' \in Seq(Options)
    BY <1>2 DEF Turn, ScanOK
  <1>4. QED
    BY <1>1, <1>3 DEF Turn, ScanOK

\* A name heard before was heard first from one of the firsts.
LEMMA FirstOfName ==
  ASSUME NEW k \in Nat, NEW j \in 1..k
  PROVE  \E i \in Firsts(k) : heard[i].essid = heard[j].essid
  <1> DEFINE T == {i \in 1..k : heard[i].essid = heard[j].essid}
  <1>1. T \in SUBSET Nat /\ T # {}
    OBVIOUS
  <1>2. PICK i \in T : \A l \in T : i <= l
    BY <1>1, Least
  <1>3. \A l \in 1..(i - 1) : heard[l].essid # heard[i].essid
    BY <1>2
  <1>4. QED
    BY <1>2, <1>3 DEF Firsts

\* Another cell is a first one if its name is not among those of the firsts.
LEMMA FirstsNext ==
  ASSUME NEW k \in Nat \ {0}
  PROVE  Firsts(k) =
            IF \E i \in Firsts(k - 1) : heard[i].essid = heard[k].essid
            THEN Firsts(k - 1) ELSE Firsts(k - 1) \cup {k}
  <1>1. (\E j \in 1..(k - 1) : heard[j].essid = heard[k].essid)
           <=> \E i \in Firsts(k - 1) : heard[i].essid = heard[k].essid
    <2>1. ASSUME NEW j \in 1..(k - 1), heard[j].essid = heard[k].essid
          PROVE  \E i \in Firsts(k - 1) : heard[i].essid = heard[k].essid
      BY <2>1, FirstOfName
    <2>2. Firsts(k - 1) \subseteq 1..(k - 1)
      BY DEF Firsts
    <2>3. QED
      BY <2>1, <2>2
  <1>2. \A i \in 1..k : i \in 1..(k - 1) \/ i = k
    OBVIOUS
  <1>3. \A i \in 1..(k - 1) : i \in 1..k
    OBVIOUS
  <1>4. \A i \in 1..(k - 1) : i \in Firsts(k) <=> i \in Firsts(k - 1)
    BY <1>3 DEF Firsts
  <1>5. k \in Firsts(k) <=> ~ \E j \in 1..(k - 1) : heard[j].essid = heard[k].essid
    BY DEF Firsts
  <1>6. Firsts(k) \subseteq 1..k /\ Firsts(k - 1) \subseteq 1..(k - 1)
    BY DEF Firsts
  <1>7. QED
    BY <1>1, <1>2, <1>4, <1>5, <1>6

\* A turn adds the option of its cell if, and only if, the cell is a first.
LEMMA TurnOptions ==
  ASSUME ScanOK, Regular, OptionsOf(turn - 1), Turn
  PROVE  OptionsOf(turn - 1)'
  <1> DEFINE k == turn - 1
             e == heard[turn].essid
             new == <<e, Proto(heard[turn].security)>>
  <1>1. /\ turn \in 1..Len(heard) /\ turn \in Nat \ {0} /\ k \in Nat
        /\ Len(heard) \in Nat /\ DOMAIN res = 1..Len(res) /\ Len(res) \in Nat
    BY TurnsOfCells, OutputShape DEF ScanOK, Turn
  <1>2. Name(turn) = e /\ Encryption(turn) = Proto(heard[turn].security)
    BY <1>1, CellRead DEF Regular, ScanOK
  <1>3. PICK f \in [DOMAIN res -> Firsts(k)] :
           /\ \A a, b \in DOMAIN res : a < b => f[a] < f[b]
           /\ \A i \in Firsts(k) : \E a \in DOMAIN res : f[a] = i
           /\ \A a \in DOMAIN res :
                 res[a] = <<heard[f[a]].essid, Proto(heard[f[a]].security)>>
    BY DEF OptionsOf
  <1>4. Known(e) <=> \E i \in Firsts(k) : heard[i].essid = e
    BY <1>3 DEF Known
  <1>5. /\ turn' - 1 = turn /\ heard' = heard
        /\ res' = IF Known(e) THEN res ELSE Append(res, new)
    BY <1>1, <1>2 DEF Turn
  <1>6. Firsts(turn) = IF Known(e) THEN Firsts(k) ELSE Firsts(k) \cup {turn}
    BY <1>1, <1>4, FirstsNext
  <1>7. SUFFICES \E g \in [DOMAIN res' -> Firsts(turn)] :
           /\ \A a, b \in DOMAIN res' : a < b => g[a] < g[b]
           /\ \A i \in Firsts(turn) : \E a \in DOMAIN res' : g[a] = i
           /\ \A a \in DOMAIN res' :
                 res'[a] = <<heard[g[a]].essid, Proto(heard[g[a]].security)>>
    <2>1. Firsts(turn - 1)' = Firsts(turn)
      BY <1>5 DEF Firsts
    <2>2. QED
      BY <1>5, <2>1 DEF OptionsOf
  <1>8. CASE Known(e)
    BY <1>3, <1>5, <1>6, <1>8
  <1>9. CASE ~Known(e)
    <2> DEFINE last == Len(res) + 1
               g == [a \in 1..last |-> IF a = last THEN turn ELSE f[a]]
    <2>1. /\ DOMAIN res' = 1..last /\ res'[last] = new
          /\ \A a \in DOMAIN res : res'[a] = res[a]
      BY <1>1, <1>5, <1>9 DEF ScanOK
    <2>2. \A a \in 1..last : a = last \/ (a \in DOMAIN res /\ a < last)
      BY <1>1
    <2>3. \A i \in Firsts(k) : i \in Nat /\ i < turn
      BY <1>1 DEF Firsts
    <2>4. g \in [DOMAIN res' -> Firsts(turn)]
      BY <1>3, <1>6, <1>9, <2>1, <2>2
    <2>5. \A a, b \in DOMAIN res' : a < b => g[a] < g[b]
      BY <1>1, <1>3, <2>1, <2>2, <2>3
    <2>6. \A i \in Firsts(turn) : \E a \in DOMAIN res' : g[a] = i
      <3>1. g[last] = turn /\ last \in DOMAIN res'
        BY <1>1, <2>1
      <3>2. \A a \in DOMAIN res : g[a] = f[a] /\ a \in DOMAIN res'
        BY <1>1, <2>1
      <3>3. ASSUME NEW i \in Firsts(k) PROVE \E a \in DOMAIN res' : g[a] = i
        <4>1. PICK a \in DOMAIN res : f[a] = i
          BY <1>3
        <4>2. QED
          BY <3>2, <4>1
      <3>4. Firsts(turn) = Firsts(k) \cup {turn}
        BY <1>6, <1>9
      <3> HIDE DEF g
      <3>5. QED
        BY <3>1, <3>3, <3>4
    <2>7. \A a \in DOMAIN res' :
             res'[a] = <<heard[g[a]].essid, Proto(heard[g[a]].security)>>
      BY <1>3, <2>1, <2>2
    <2> HIDE DEF g
    <2>8. QED
      BY <2>4, <2>5, <2>6, <2>7
  <1>10. QED
    BY <1>8, <1>9

\* Elsewhere the parser's state is left alone.
LEMMA ScannedUnchanged ==
  ASSUME UNCHANGED scanned
  PROVE  /\ ScanOK' = ScanOK /\ Regular' = Regular
         /\ OptionsOf(turn - 1)' = OptionsOf(turn - 1)
  BY DEF scanned, ScanOK, Regular, OneToOne, OneSuite, OptionsOf, Firsts
=============================================================================
