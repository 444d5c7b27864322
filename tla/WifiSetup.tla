----------------------------- MODULE WifiSetup -----------------------------
(***************************************************************************)
(* setupNetwork of cmds/webboot/network.go with IWLWorker.Connect of       *)
(* pkg/wifi/iwl.go: choose an interface and a network, type credentials,   *)
(* write /tmp/wifi.conf, start a supplicant in a goroutine and run         *)
(* dhclient under a deadline both share; after an error, scan again.       *)
(*                                                                         *)
(* Each attempt has a goroutine that supervises its supplicant.  It is not *)
(* waited for, so that those of earlier attempts may still be there; nor   *)
(* does it wait for the supplicant to read the file it was written, which  *)
(* the next attempt may have begun to overwrite by then.                   *)
(***************************************************************************)
EXTENDS Naturals, Sequences, IwlistScan

CONSTANTS Scans,        \* what iwlist may hear
          MaxAttempts,  \* bound on the attempts to connect
          Deadline,     \* of the context, in units of ten seconds (20)
          NoNet

ASSUME WifiAssumption ==
    /\ Scans \subseteq Seq(Points)
    /\ MaxAttempts \in Nat \ {0} /\ Deadline \in Nat \ {0}
    /\ NoNet \notin Essids

VARIABLES
    place,    \* the prompt, or the step, setupNetwork is in
    chosen,   \* the option chosen from them
    creds,    \* number of credentials typed for it
    conf,     \* /tmp/wifi.conf: its network, its kind, the attempt it is of
    n,        \* attempts so far
    ctx,      \* of each attempt: "live" or "done"
    elapsed,  \* since the attempt began
    sup,      \* the supervising goroutine of each attempt
    wpa,      \* its supplicant: not "started" yet, or what was written "read"
    used      \* history: the attempt whose configuration it read

vars   == <<place, scanned, chosen, creds, conf, n, ctx, elapsed, sup, wpa, used>>
typed  == <<scanned, chosen, creds>>
trials == <<n, ctx, elapsed, sup, wpa, used>>

Attempts == 1..MaxAttempts
Menus    == {"Iface", "Networks"}
Prompts  == Menus \cup {"Pass", "Identity", "ShowError"}
Ended    == {"Connected", "Failed", "Fatal", "Panic"}
Confs    == [net : Essids \cup {NoNet}, kind : Protocols \cup {"none"}, by : 0..MaxAttempts]

\* There is no file, or one without a network in it.
NoConf == [net |-> NoNet, kind |-> "none", by |-> 0]

TypeOK ==
    /\ place \in Prompts \cup Ended \cup {"LinkList", "LinkUp", "Scan", "Parse", "Write", "Writing", "Run"}
    /\ ScanOK /\ chosen \in Options \cup {NoNet}
    /\ creds \in 0..2 /\ conf \in Confs
    /\ n \in 0..MaxAttempts /\ elapsed \in 0..Deadline
    /\ ctx \in [Attempts -> {"live", "done"}]
    /\ sup \in [Attempts -> {"none", "start", "checked", "running", "ended"}]
    /\ wpa \in [Attempts -> {"none", "started", "read"}]
    /\ used \in [Attempts -> 0..MaxAttempts]

Init ==
    /\ heard = <<>> /\ o = <<>> /\ turn = 1 /\ res = <<>>
    /\ place = "LinkList" /\ chosen = NoNet /\ creds = 0
    /\ conf = NoConf /\ n = 0 /\ elapsed = 0
    /\ ctx = [i \in Attempts |-> "live"] /\ sup = [i \in Attempts |-> "none"]
    /\ wpa = [i \in Attempts |-> "none"] /\ used = [i \in Attempts |-> 0]

-----------------------------------------------------------------------------
(* Interface and network.                                                  *)

\* netlink.LinkList; an error, or no wireless interface, is an error.
LinkList ==
    /\ place = "LinkList"
    /\ place' \in {"Iface", "Failed"}
    /\ UNCHANGED <<typed, conf, trials>>

ChooseIface ==
    /\ place = "Iface"
    /\ place' = "LinkUp"
    /\ UNCHANGED <<typed, conf, trials>>

\* NewIWLWorker: ip link set dev ... up.
LinkUp ==
    /\ place = "LinkUp"
    /\ place' \in {"Scan", "Failed"}
    /\ UNCHANGED <<typed, conf, trials>>

\* The process ends, and its goroutines with it.
Die(p) ==
    /\ place' = p
    /\ sup' = [i \in Attempts |-> IF sup[i] = "none" THEN "none" ELSE "ended"]
    /\ UNCHANGED <<typed, n, ctx, elapsed, wpa, used>>

\* An error of iwlist ends the setup.
Scan ==
    /\ place = "Scan"
    /\ \/ n < MaxAttempts /\ place' = "Parse" /\ \E cells \in Scans : Begin(cells)
       \/ place' = "Failed" /\ UNCHANGED scanned
    /\ UNCHANGED <<chosen, creds, conf, trials>>

\* parseIwlistOut turns, and returns what the menu shows; an empty menu is an
\* error.
Parse ==
    /\ place = "Parse"
    /\ \/ Turn /\ UNCHANGED place
       \/ /\ ~Turning /\ UNCHANGED scanned
          /\ place' = IF res = <<>> THEN "Failed" ELSE "Networks"
    /\ UNCHANGED <<chosen, creds, conf, trials>>

ParsePanics ==
    /\ place = "Parse" /\ Turning /\ Panics
    /\ Die("Panic") /\ UNCHANGED conf

\* Where connectWirelessNetwork begins for a protocol.
After(proto) == IF proto = "NotSupportedProto" THEN "ShowError"
                ELSE IF proto = "NoEnc" THEN "Write" ELSE "Pass"

\* An option of the menu is chosen; the menu is gone.
Pick(option) ==
    /\ place = "Networks"
    /\ \E k \in DOMAIN res : option = res[k]
    /\ chosen' = option /\ Begin(<<>>)
    /\ place' = After(option[2])

\* Mutant: the slice of parameters is made once, outside the loop.
ChooseNetworkAppending ==
    /\ \E option \in Options : Pick(option)
    /\ UNCHANGED <<creds, conf, trials>>

ChooseNetwork ==
    /\ \E option \in Options : Pick(option)
    /\ creds' = 0
    /\ UNCHANGED <<conf, trials>>

\* The password, and for WPA-EAP the identity too.
TypeCredential ==
    /\ \/ place = "Pass" /\ place' = IF chosen[2] = "WpaPsk" THEN "Write" ELSE "Identity"
       \/ place = "Identity" /\ place' = "Write"
    /\ creds' = creds + 1
    /\ UNCHANGED <<scanned, chosen, conf, trials>>

\* Mutant: BackRequest is handled as in the credentials' prompts.
BackFromMenuRescans ==
    /\ place \in Menus
    /\ place' = "Scan"
    /\ UNCHANGED <<typed, conf, trials>>

\* <Escape> in a menu returns from setupNetwork,
BackFromMenu ==
    /\ place \in Menus
    /\ place' = "Failed"
    /\ UNCHANGED <<typed, conf, trials>>

\* in a prompt for credentials it leads to another scan, and so does any key
\* that leaves an error message.
BackToScan ==
    /\ place \in {"Pass", "Identity", "ShowError"}
    /\ place' = "Scan"
    /\ UNCHANGED <<typed, conf, trials>>

\* <Ctrl+d> returns from setupNetwork.
Exit ==
    /\ place \in Menus \cup {"Pass", "Identity"}
    /\ place' = "Failed"
    /\ UNCHANGED <<typed, conf, trials>>

\* log.Fatal in PromptMenuEntry.
LogFatal ==
    /\ place \in Menus
    /\ Die("Fatal") /\ UNCHANGED conf

-----------------------------------------------------------------------------
(* Connect.                                                                *)

\* generateConfig goes by the number of its arguments.
Kind == IF creds = 0 THEN "NoEnc" ELSE IF creds = 1 THEN "WpaPsk" ELSE "WpaEap"

\* generateConfig; os.WriteFile opens the file, which truncates it,
Truncate ==
    /\ place = "Write"
    /\ place' = "Writing" /\ conf' = NoConf
    /\ UNCHANGED <<typed, trials>>

\* The goroutine of the next attempt starts.
Attempt ==
    /\ place' = "Run"
    /\ n' = n + 1 /\ sup' = [sup EXCEPT ![n'] = "start"]
    /\ UNCHANGED <<typed, ctx, elapsed, wpa, used>>

\* and writes it.
WriteConf ==
    /\ place = "Writing"
    /\ conf' = [net |-> chosen[1], kind |-> Kind, by |-> n + 1]
    /\ Attempt

\* A passphrase of a wrong length.
BadPassphrase ==
    /\ place = "Write" /\ creds = 1
    /\ place' = "ShowError"
    /\ UNCHANGED <<typed, conf, trials>>

\* Mutant: the error of os.WriteFile is only logged.
WriteFailsIgnored ==
    /\ place \in {"Write", "Writing"}
    /\ Attempt /\ UNCHANGED conf

\* os.WriteFile fails, to open the file or to write it.  The err that is
\* reported is that of opening the log, which shadows the other: the call
\* returns it, or calls its Error when nil.
WriteFails ==
    /\ place \in {"Write", "Writing"}
    /\ \/ place' = "ShowError" /\ UNCHANGED <<typed, trials>>
       \/ Die("Panic")
    /\ UNCHANGED conf

\* Mutant: the time is not limited.
TickOn ==
    /\ place = "Run"
    /\ elapsed' = elapsed + 1
    /\ UNCHANGED <<place, typed, conf, n, ctx, sup, wpa, used>>

\* Ten seconds of dhclient pass; the context ends with the last.
Tick ==
    /\ place = "Run" /\ elapsed < Deadline
    /\ elapsed' = elapsed + 1
    /\ ctx' = IF elapsed' = Deadline THEN [ctx EXCEPT ![n] = "done"] ELSE ctx
    /\ UNCHANGED <<place, typed, conf, n, sup, wpa, used>>

\* Mutant: without the deferred cancel().
ReturnUncancelled(p) ==
    /\ place' = p
    /\ UNCHANGED <<typed, conf, n, ctx, elapsed, sup, wpa, used>>

\* Connect returns, and cancels.
Return(p) ==
    /\ place' = p
    /\ ctx' = [ctx EXCEPT ![n] = "done"] /\ elapsed' = 0
    /\ UNCHANGED <<typed, conf, n, sup, wpa, used>>

\* dhclient ends by itself: it may never do so.
DhclientEnds ==
    /\ place = "Run"
    /\ Return("Connected") \/ Return("ShowError")

\* Mutant: dhclient is run outside the context.
DhclientUnkillable == place = "Run" /\ FALSE /\ UNCHANGED vars

\* ... or is killed because the context is done.
DhclientKilled ==
    /\ place = "Run" /\ ctx[n] = "done"
    /\ Return("ShowError")

-----------------------------------------------------------------------------
(* The supervising goroutine of attempt i, and its supplicant.             *)

\* Cmd.Start refuses a context that is done ...
Supervise(i) ==
    /\ sup[i] = "start"
    /\ sup' = [sup EXCEPT ![i] = IF ctx[i] = "live" THEN "checked" ELSE "ended"]
    /\ UNCHANGED <<place, typed, conf, n, ctx, elapsed, wpa, used>>

\* ... but does not look again before it starts the process, if there is one
\* to start.
Launch(i) ==
    /\ sup[i] = "checked"
    /\ \/ /\ sup' = [sup EXCEPT ![i] = "running"]
          /\ wpa' = [wpa EXCEPT ![i] = "started"]
       \/ sup' = [sup EXCEPT ![i] = "ended"] /\ UNCHANGED wpa
    /\ UNCHANGED <<place, typed, conf, n, ctx, elapsed, used>>

\* wpa_supplicant reads the file when it gets there.  Only strace is killed
\* at the end of the context, and wpa_supplicant may survive that.
ReadConf(i) ==
    /\ wpa[i] = "started"
    /\ wpa' = [wpa EXCEPT ![i] = "read"]
    /\ used' = [used EXCEPT ![i] = conf.by]
    /\ UNCHANGED <<place, typed, conf, n, ctx, elapsed, sup>>

\* Mutant: the channel is unbuffered, and nobody receives.
CommandEndsSending(i) ==
    /\ sup[i] = "running"
    /\ sup' = [sup EXCEPT ![i] = "sending"]
    /\ UNCHANGED <<place, typed, conf, n, ctx, elapsed, wpa, used>>

\* The command ends; the channel has room for its error.
CommandEnds(i) ==
    /\ sup[i] = "running"
    /\ sup' = [sup EXCEPT ![i] = "ended"]
    /\ UNCHANGED <<place, typed, conf, n, ctx, elapsed, wpa, used>>

\* ... because the context is done.
CommandKilled(i) == ctx[i] = "done" /\ CommandEnds(i)

-----------------------------------------------------------------------------
Choose == ChooseIface \/ ChooseNetwork \/ TypeCredential

Back == BackFromMenu \/ BackToScan

Program == LinkList \/ LinkUp \/ Scan \/ Parse \/ ParsePanics \/ Truncate \/ WriteConf
           \/ Tick \/ DhclientKilled

Next == \/ Choose \/ Back \/ Exit \/ LogFatal \/ Program
        \/ BadPassphrase \/ WriteFails \/ DhclientEnds
        \/ \E i \in Attempts : \/ Supervise(i) \/ Launch(i) \/ CommandEnds(i)
                               \/ ReadConf(i)

Spec == Init /\ [][Next]_vars

(* Time passes, the program runs on, a killed process ends; dhclient, the  *)
(* supplicant and the user owe nothing.  BackSpec adds a user who leaves   *)
(* no prompt alone for ever.                                               *)
FairSpec == /\ Spec /\ WF_vars(Program)
            /\ \A i \in Attempts : /\ WF_vars(Supervise(i)) /\ WF_vars(Launch(i))
                                  /\ WF_vars(CommandKilled(i))
BackSpec == FairSpec /\ WF_vars(Back)

-----------------------------------------------------------------------------
(* Properties.                                                             *)

\* Under the assumptions the code states no index is out of range; and for
\* names without a colon the menu offers each network once, in the order of
\* the scan and with the protection of its own first access point.
Faithful ==
    /\ OneToOne /\ OneSuite => ~(Turning /\ Panics)
    /\ Regular => /\ OptionsOf(turn - 1)
                  /\ place = "Networks" => turn = Len(heard) + 1

\* While an attempt runs, the configuration names the network the user chose
\* last and is of its kind, however many attempts and credentials came before.
ConfOfChoice ==
    place = "Run" => conf = [net |-> chosen[1], kind |-> chosen[2], by |-> n]

\* No supplicant ever uses what an earlier attempt left in the file, and that
\* of the attempt that runs, or that succeeded, uses its own.  The file is one
\* for all attempts, and nothing orders a late reader before the next writer:
\* the supplicant of an attempt that is over may find nothing in it, or the
\* configuration of a later attempt.  The goroutine it has then works under a
\* context that has ended, as that of every attempt but the running one does.
NoStaleConf ==
    \A i \in Attempts :
        /\ wpa[i] = "read" =>
               /\ used[i] = 0 \/ used[i] >= i
               /\ i = n /\ place \in {"Run", "Connected"} => used[i] = i
        /\ sup[i] # "none" /\ ctx[i] = "live" => i = n /\ place = "Run"

\* "dhclient might never return on incorrect passwords or identity": Connect
\* returns nevertheless.
ConnectReturns == place = "Run" ~> place # "Run"

\* No supervising goroutine outlives its attempt for ever.
SupervisorsEnd ==
    \A i \in Attempts :
        (sup[i] # "none" /\ (place # "Run" \/ n # i)) ~> sup[i] = "ended"

\* A user who only goes back gets out of the network setup.
BackLeaves == <>[][~Choose]_vars => <>(place \in Ended)
=============================================================================
