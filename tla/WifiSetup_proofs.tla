-------------------------- MODULE WifiSetup_proofs --------------------------
(* Every attempt to connect runs on a configuration of its own, and what   *)
(* the menu offers is what was heard, for any set of networks, any scans   *)
(* and any number of attempts.                                             *)
EXTENDS WifiSetup, IwlistScan_proofs, TLAPS

\* The credentials asked for are those of the chosen network.
Asked ==
    /\ place \in {"Parse", "Networks", "Pass", "Identity", "Write", "Writing"} =>
           n < MaxAttempts
    /\ place \in {"Pass", "Identity", "Write", "Writing"} => chosen \in Options
    /\ place = "Pass" => creds = 0 /\ chosen[2] \in {"WpaPsk", "WpaEap"}
    /\ place = "Identity" => creds = 1 /\ chosen[2] = "WpaEap"
    /\ place \in {"Write", "Writing"} => Kind = chosen[2]

\* The attempt that runs is the last one, its context alone may be live, and
\* the file is of it or has nothing in it.
Last ==
    /\ place = "Run" => n > 0 /\ chosen \in Options
    /\ \A i \in Attempts : i < n \/ (i = n /\ place # "Run") => ctx[i] = "done"
    /\ \A i \in Attempts : i > n => sup[i] = "none" /\ wpa[i] = "none"
    /\ \A i \in Attempts : sup[i] = "none" => wpa[i] = "none"
    /\ conf.by \in {0, n}
    /\ place \in {"Run", "Connected"} => conf.by = n

\* The options are those of the cells whose turn is over: all of them in the menu.
Read ==
    /\ Regular => OptionsOf(turn - 1)
    /\ place = "Networks" => turn = Len(heard) + 1

\* No supplicant has read what an attempt before its own wrote; one that reads
\* while its own attempt is the last, and the file is not cut, reads its own.
Started ==
    \A i \in Attempts : wpa[i] = "read" =>
        /\ used[i] = 0 \/ used[i] >= i
        /\ i = n /\ place \in {"Run", "Connected"} => used[i] = i

Inv == TypeOK /\ Asked /\ Last /\ Read /\ ConfOfChoice /\ Started

\* Before the first attempt there is nothing to keep.
LEMMA InvInit == Init => Inv
  <1> SUFFICES ASSUME Init PROVE Inv
    OBVIOUS
  <1>1. ScanOK
    BY DEF Init, ScanOK, Text, Height
  <1>2. OptionsOf(turn - 1)
    <2>1. turn - 1 = 0 /\ DOMAIN res = {}
      BY DEF Init
    <2>2. \A f : f = [a \in {} |-> 0] => f \in [DOMAIN res -> Firsts(0)]
      BY <2>1
    <2>3. Firsts(0) = {}
      BY DEF Firsts
    <2>4. QED
      BY <2>1, <2>2, <2>3 DEF OptionsOf
  <1>3. QED
    BY <1>1, <1>2, WifiAssumption
    DEF Init, Inv, TypeOK, Asked, Last, Read, ConfOfChoice, Started, Prompts, Menus,
        Ended, Confs, NoConf, Attempts

\* Steps that leave the parser alone, and do not enter the menu.
LEMMA ReadKept ==
  ASSUME ScanOK, Read, UNCHANGED scanned,
         place' = "Networks" => place = "Networks" \/ turn = Len(heard) + 1
  PROVE  ScanOK' /\ Read'
  BY ScannedUnchanged DEF Read, scanned

\* Steps that touch neither the choice nor an attempt, and do not begin one.
LEMMA Elsewhere ==
  ASSUME Inv, UNCHANGED <<typed, conf, trials>>, place # "Run",
         place' \in {"Iface", "LinkUp", "Scan", "ShowError", "Failed"}
  PROVE  Inv'
  <1>1. ScanOK' /\ Read'
    BY ReadKept DEF Inv, TypeOK, typed
  <1>2. QED
    BY <1>1 DEF Inv, TypeOK, Asked, Last, ConfOfChoice, Started, Prompts, Menus,
                Ended, Attempts, typed, trials

\* The end of the process.
LEMMA DieKeeps ==
  ASSUME Inv, NEW p \in {"Fatal", "Panic"}, Die(p), place # "Run",
         UNCHANGED conf
  PROVE  Inv'
  <1>0. ScanOK' /\ Read'
    BY ReadKept DEF Inv, TypeOK, Die, typed
  <1>1. TypeOK'
    BY <1>0, WifiAssumption DEF Inv, TypeOK, Die, Ended, typed, Attempts, Confs, NoConf
  <1>2. Asked' /\ ConfOfChoice' /\ Started'
    BY DEF Inv, TypeOK, Die, Asked, ConfOfChoice, Started, Attempts
  <1>3. Last'
    BY DEF Inv, TypeOK, Die, Last, Attempts, typed
  <1>4. QED
    BY <1>0, <1>1, <1>2, <1>3 DEF Inv

\* The return of Connect, which cancels the context of the last attempt.
LEMMA ReturnKeeps ==
  ASSUME Inv, place = "Run", NEW p \in {"Connected", "ShowError"}, Return(p)
  PROVE  Inv'
  <1>0. ScanOK' /\ Read'
    BY ReadKept DEF Inv, TypeOK, Return, typed
  <1>1. TypeOK'
    <2>1. elapsed' \in 0..Deadline
      BY WifiAssumption DEF Return
    <2>2. ctx' \in [Attempts -> {"live", "done"}]
      BY DEF Inv, TypeOK, Return
    <2>3. QED
      BY <1>0, <2>1, <2>2 DEF Inv, TypeOK, Return, Ended, Prompts, typed
  <1>2. Asked' /\ ConfOfChoice' /\ Started'
    BY DEF Inv, Return, Asked, ConfOfChoice, Started, typed
  <1>3. Last'
    BY DEF Inv, TypeOK, Return, Last, Attempts, typed
  <1>4. QED
    BY <1>0, <1>1, <1>2, <1>3 DEF Inv

\* Every step keeps Inv.
LEMMA InvStep == Inv /\ [Next]_vars => Inv'
  <1> SUFFICES ASSUME Inv, [Next]_vars PROVE Inv'
    OBVIOUS
  <1>1. CASE LinkList \/ ChooseIface \/ LinkUp \/ BackFromMenu \/ BackToScan \/ Exit
              \/ BadPassphrase
    BY <1>1, Elsewhere DEF LinkList, ChooseIface, LinkUp, BackFromMenu, BackToScan,
                           Exit, BadPassphrase, Menus
  <1>2. CASE LogFatal
    BY <1>2, DieKeeps DEF LogFatal, Menus
  <1>3. CASE Scan \/ Parse \/ ParsePanics
    <2>1. ASSUME NEW cells \in Scans, n < MaxAttempts, place' = "Parse", Begin(cells),
                 UNCHANGED <<chosen, creds, conf, trials>>, place = "Scan"
          PROVE  Inv'
      <3>1. ScanOK' /\ OptionsOf(turn - 1)'
        BY <2>1, BeginKeeps, WifiAssumption
      <3>2. QED
        BY <2>1, <3>1 DEF Inv, TypeOK, Asked, Last, Read, ConfOfChoice, Started,
                          Prompts, Menus, Ended, Attempts, trials
    <2>2. CASE Scan
      BY <2>1, <2>2, Elsewhere DEF Scan, typed, scanned
    <2>3. ASSUME Turn, place = "Parse", UNCHANGED place, UNCHANGED <<chosen, creds, conf, trials>>
          PROVE  Inv'
      <3>1. ScanOK'
        BY <2>3, TurnTyped DEF Inv, TypeOK
      <3>2. Regular' = Regular
        BY <2>3 DEF Turn, Regular, OneToOne, OneSuite
      <3>3. Read'
        BY <2>3, <3>2, TurnOptions DEF Inv, TypeOK, Read
      <3>4. QED
        BY <2>3, <3>1, <3>3 DEF Inv, TypeOK, Asked, Last, ConfOfChoice, Started,
                                Kind, Attempts, trials
    <2>4. ASSUME ~Turning, place = "Parse", place' = "Networks", UNCHANGED scanned,
                 UNCHANGED <<chosen, creds, conf, trials>>
          PROVE  Inv'
      <3>1. turn = Len(heard) + 1
        BY <2>4, TurnsOfCells, OutputShape DEF Inv, TypeOK, ScanOK
      <3>2. ScanOK' /\ Read'
        BY <2>4, <3>1, ReadKept DEF Inv, TypeOK
      <3>3. QED
        BY <2>4, <3>2 DEF Inv, TypeOK, Asked, Last, ConfOfChoice, Started, Kind,
                          Prompts, Menus, Attempts, trials
    <2>5. CASE Parse
      BY <2>3, <2>4, <2>5, Elsewhere DEF Parse, typed, scanned
    <2>6. CASE ParsePanics
      BY <2>6, DieKeeps DEF ParsePanics
    <2>7. QED
      BY <1>3, <2>2, <2>5, <2>6
  <1>4. CASE ChooseNetwork
    <2>1. PICK option \in Options : Pick(option)
      BY <1>4 DEF ChooseNetwork
    <2>2. /\ chosen' = option /\ Begin(<<>>) /\ place' = After(option[2]) /\ creds' = 0
          /\ n < MaxAttempts /\ place = "Networks" /\ UNCHANGED <<conf, trials>>
      BY <1>4, <2>1 DEF ChooseNetwork, Pick, Inv, Asked
    <2>3. option[2] \in Protocols
      BY DEF Options
    <2>4. ScanOK' /\ OptionsOf(turn - 1)'
      <3>1. <<>> \in Seq(Points)
        OBVIOUS
      <3>2. QED
        BY <2>2, <3>1, BeginKeeps
    <2>5. TypeOK'
      BY <2>2, <2>3, <2>4 DEF Inv, TypeOK, After, Prompts, Menus, Attempts, trials
    <2>6. Asked' /\ Read'
      BY <2>2, <2>3, <2>4 DEF Protocols, Asked, Read, After, Kind, trials
    <2>7. Last' /\ ConfOfChoice' /\ Started'
      BY <2>2, <2>3 DEF Inv, Last, ConfOfChoice, Started, After, Attempts, trials
    <2>8. QED
      BY <2>5, <2>6, <2>7 DEF Inv
  <1>5. CASE TypeCredential
    <2>0. ScanOK' /\ Read'
      BY <1>5, ReadKept DEF TypeCredential, Inv, TypeOK
    <2>1. TypeOK'
      BY <1>5, <2>0 DEF TypeCredential, Inv, TypeOK, Asked, Prompts, Menus, Attempts, trials
    <2>2. Asked'
      BY <1>5 DEF TypeCredential, Inv, Asked, Kind, trials
    <2>3. Last' /\ ConfOfChoice' /\ Started'
      BY <1>5 DEF TypeCredential, Inv, Last, ConfOfChoice, Started, Attempts, trials
    <2>4. QED
      BY <2>0, <2>1, <2>2, <2>3 DEF Inv
  <1>6. CASE Truncate
    <2>0. ScanOK' /\ Read'
      BY <1>6, ReadKept DEF Truncate, Inv, TypeOK, typed
    <2>1. TypeOK'
      BY <1>6, <2>0, WifiAssumption
      DEF Truncate, Inv, TypeOK, Confs, NoConf, Attempts, typed, trials
    <2>2. Asked' /\ ConfOfChoice' /\ Started'
      BY <1>6 DEF Truncate, Inv, TypeOK, Asked, Kind, ConfOfChoice, Started, Attempts, typed, trials
    <2>3. Last'
      BY <1>6 DEF Truncate, Inv, Last, NoConf, Attempts, typed, trials
    <2>4. QED
      BY <2>0, <2>1, <2>2, <2>3 DEF Inv
  <1>7. CASE WriteConf
    <2>0. ScanOK' /\ Read'
      BY <1>7, ReadKept DEF WriteConf, Attempt, Inv, TypeOK, typed
    <2>1. n \in Nat /\ n < MaxAttempts /\ chosen \in Options /\ n + 1 \in Attempts
      BY <1>7, WifiAssumption DEF WriteConf, Inv, TypeOK, Asked, Attempts
    <2>2. chosen[2] = Kind /\ Kind \in Protocols /\ chosen[1] \in Essids
      BY <1>7, <2>1 DEF WriteConf, Inv, Asked, Kind, Options, Protocols
    <2>3. /\ conf' = [net |-> chosen[1], kind |-> chosen[2], by |-> n']
          /\ conf' \in Confs /\ n' = n + 1
      BY <1>7, <2>1, <2>2 DEF WriteConf, Attempt, Confs, Attempts
    <2>4. TypeOK'
      BY <1>7, <2>0, <2>1, <2>2, <2>3 DEF WriteConf, Attempt, Inv, TypeOK, Attempts, typed
    <2>5. Asked' /\ ConfOfChoice'
      BY <1>7, <2>3 DEF WriteConf, Attempt, Asked, ConfOfChoice, typed
    <2>6. Last'
      BY <1>7, <2>1, <2>3 DEF WriteConf, Attempt, Inv, TypeOK, Last, Attempts, typed
    <2>7. Started'
      BY <1>7, <2>1, <2>3 DEF WriteConf, Attempt, Inv, TypeOK, Last, Started, Attempts
    <2>8. QED
      BY <2>0, <2>4, <2>5, <2>6, <2>7 DEF Inv
  <1>8. CASE WriteFails
    <2>1. CASE place' = "ShowError" /\ UNCHANGED <<typed, trials>>
      BY <1>8, <2>1, Elsewhere DEF WriteFails, typed, trials
    <2>2. CASE Die("Panic")
      BY <1>8, <2>2, DieKeeps DEF WriteFails
    <2>3. QED
      BY <1>8, <2>1, <2>2 DEF WriteFails
  <1>9. CASE Tick
    <2>0. ScanOK' /\ Read'
      BY <1>9, ReadKept DEF Tick, Inv, TypeOK, typed
    <2>1. TypeOK'
      <3>1. elapsed' \in 0..Deadline
        BY <1>9, WifiAssumption DEF Tick, Inv, TypeOK
      <3>2. ctx' \in [Attempts -> {"live", "done"}]
        BY <1>9 DEF Tick, Inv, TypeOK
      <3>3. QED
        BY <1>9, <2>0, <3>1, <3>2 DEF Tick, Inv, TypeOK, typed
    <2>2. Asked' /\ ConfOfChoice' /\ Started'
      BY <1>9 DEF Tick, Inv, Asked, ConfOfChoice, Started, typed
    <2>3. Last'
      BY <1>9 DEF Tick, Inv, TypeOK, Last, Attempts, typed
    <2>4. QED
      BY <2>0, <2>1, <2>2, <2>3 DEF Inv
  <1>10. CASE DhclientEnds \/ DhclientKilled
    BY <1>10, ReturnKeeps DEF DhclientEnds, DhclientKilled
  <1>11. ASSUME NEW i \in Attempts, Supervise(i) \/ Launch(i) PROVE Inv'
    <2>0. ScanOK' /\ Read'
      BY <1>11, ReadKept DEF Supervise, Launch, Inv, TypeOK, typed
    <2>2. TypeOK'
      BY <1>11, <2>0 DEF Supervise, Launch, Inv, TypeOK, typed
    <2>3. Asked' /\ ConfOfChoice'
      BY <1>11 DEF Supervise, Launch, Inv, Asked, ConfOfChoice, Kind, typed
    <2>4. Last'
      <3>1. i <= n
        BY <1>11, WifiAssumption DEF Supervise, Launch, Inv, TypeOK, Last, Attempts
      <3>2. \A j \in Attempts : j # i => sup'[j] = sup[j] /\ wpa'[j] = wpa[j]
        BY <1>11 DEF Supervise, Launch, Inv, TypeOK
      <3>3. sup'[i] # "none"
        BY <1>11 DEF Supervise, Launch, Inv, TypeOK
      <3>4. UNCHANGED <<place, chosen, conf, n, ctx>>
        BY <1>11 DEF Supervise, Launch, typed
      <3>5. n \in Nat /\ i \in Nat
        BY WifiAssumption DEF Inv, TypeOK, Attempts
      <3>6. QED
        BY <3>1, <3>2, <3>3, <3>4, <3>5 DEF Inv, Last
    <2>5. Started'
      BY <1>11 DEF Supervise, Launch, Inv, TypeOK, Started
    <2>6. QED
      BY <2>0, <2>2, <2>3, <2>4, <2>5 DEF Inv
  <1>12. ASSUME NEW i \in Attempts, ReadConf(i) PROVE Inv'
    <2>0. ScanOK' /\ Read'
      BY <1>12, ReadKept DEF ReadConf, Inv, TypeOK, typed
    <2>1. i <= n /\ i \in Nat /\ n \in Nat /\ conf.by \in {0, n}
      BY <1>12, WifiAssumption DEF ReadConf, Inv, TypeOK, Last, Attempts
    <2>2. TypeOK'
      <3>1. conf.by \in 0..MaxAttempts
        BY DEF Inv, TypeOK, Confs
      <3>2. QED
        BY <1>12, <2>0, <3>1 DEF ReadConf, Inv, TypeOK, typed
    <2>3. Asked' /\ ConfOfChoice'
      BY <1>12 DEF ReadConf, Inv, Asked, ConfOfChoice, Kind, typed
    <2>4. Last'
      BY <1>12, <2>1 DEF ReadConf, Inv, TypeOK, Last, Attempts, typed
    <2>5. Started'
      BY <1>12, <2>1 DEF ReadConf, Inv, TypeOK, Last, Started
    <2>6. QED
      BY <2>0, <2>2, <2>3, <2>4, <2>5 DEF Inv
  <1>13. ASSUME NEW i \in Attempts, CommandEnds(i) PROVE Inv'
    <2>1. ScanOK' /\ Read'
      BY <1>13, ReadKept DEF CommandEnds, Inv, TypeOK, typed
    <2>2. QED
      BY <1>13, <2>1 DEF CommandEnds, Inv, TypeOK, Asked, Last, ConfOfChoice, Started,
                         Kind, Attempts, typed
  <1>14. CASE UNCHANGED vars
    <2>1. ScanOK' /\ Read'
      BY <1>14, ReadKept DEF vars, Inv, TypeOK
    <2>2. QED
      BY <1>14, <2>1 DEF vars, Inv, TypeOK, Asked, Last, ConfOfChoice, Started, Kind
  <1>15. QED
    BY <1>1, <1>2, <1>3, <1>4, <1>5, <1>6, <1>7, <1>8, <1>9, <1>10, <1>11, <1>12, <1>13, <1>14
    DEF Next, Choose, Back, Program

-----------------------------------------------------------------------------
\* Inv holds in every reachable state.
LEMMA Invariance == Spec => []Inv
  BY InvInit, InvStep, PTL DEF Spec

\* Every variable keeps its type: there is never a credential too many, nor
\* an attempt beyond its deadline.
THEOREM TypeCorrect == Spec => []TypeOK
  <1>1. Inv => TypeOK
    BY DEF Inv
  <1>2. QED
    BY Invariance, <1>1, PTL

\* The configuration on disk is that of the network being connected to,
\* whatever attempts and credentials came before.
THEOREM ConfAlwaysOfChoice == Spec => []ConfOfChoice
  <1>1. Inv => ConfOfChoice
    BY DEF Inv
  <1>2. QED
    BY Invariance, <1>1, PTL

\* Whenever a supplicant comes to read the file, however late: it never uses
\* what an attempt before its own left there, and that of the attempt that runs
\* or succeeded uses its own.
THEOREM ConfNeverStale == Spec => []NoStaleConf
  <1>1. Inv => NoStaleConf
    <2> SUFFICES ASSUME Inv, NEW i \in Attempts, sup[i] # "none", ctx[i] = "live"
                 PROVE  i = n /\ place = "Run"
      BY DEF Inv, Started, NoStaleConf
    <2>1. i \in Nat /\ n \in Nat
      BY WifiAssumption DEF Inv, TypeOK, Attempts
    <2>2. QED
      BY <2>1 DEF Inv, Last
  <1>2. QED
    BY Invariance, <1>1, PTL

\* Under the assumptions the code states, the menu offers each network once, in
\* the order of the scan, with the protection of its own first access point, and
\* the parser's indices never run out of range: for every scan, however long.
THEOREM MenuFaithful == Spec => []Faithful
  <1>1. Inv => Faithful
    BY NeverPanics DEF Inv, TypeOK, Read, Faithful, Regular
  <1>2. QED
    BY Invariance, <1>1, PTL
=============================================================================
