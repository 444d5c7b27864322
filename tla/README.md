# webboot in TLA+

webboot is the program of a boot stick: it shows menus on a terminal, finds or
downloads the ISO image of a Linux distribution, and jumps into that image's
kernel with kexec. This directory holds its TLA+ models, the TLC
configurations that check them and TLAPS proofs about them. `PROJECT.json`
says for each definition which lines of the source it stands for.

## 1. Inventory

| Component | Where | State it keeps | Operations |
|---|---|---|---|
| main loop | `cmds/webboot/webboot.go` | the entry to execute next, the distro table, the cache device, the flags, the files in the cache | `main`, `ISO.exec`, `DownloadOption.exec`, `DirOption.exec`, `distroData`, `displayChecksumPrompt`, `mirrorMenu`, `getMainMenu`, `handleError`, `showLog` |
| download | `cmds/webboot/utils.go` | temporary file, target file, context, listener goroutine | `download`, `listenForCancel`, `WriteCounter` |
| network setup | `cmds/webboot/network.go` | the wifi worker, its output buffers | `setupNetwork` and the select, connect and credentials steps |
| prompts | `pkg/menu/menu.go` | window, input line, warning | `parsingMenuOption`, `processInput`, `DisplayResult`, `PromptConfirmation` |
| progress box | `pkg/menu/menu.go` | text, animation goroutine, two channels | `NewProgress`, `Update`, `Close`, `animate` |
| boot loader | `pkg/bootiso` | mounts, loop devices, temporary kernels | `ParseConfigFromISO`, `LoadCustomConfigs`, `VerifyChecksum`, `BootCachedISO` |
| wifi | `pkg/wifi` | `/tmp/wifi.conf`, the supplicant process | `Scan`, `Connect`, `GetID` |
| DHCP | `pkg/dhclient` | result channel, context with a deadline | `Request`, `configureAll` (no command uses them) |
| passphrase | `pkg/wpa/passphrase` | none | `Run` |
| image builder | `webboot.go` | none | runs u-root on the developer's machine |
| terminal | vendored termui and termbox | the reader's buffer, the shared slice `inbuf`, one goroutine for each `ui.PollEvents()` | `Init`'s reader, `PollEvent`, `PollEvents` |

How they interact. `main` calls one `exec` after another; each shows prompts
by a call that returns a menu entry or an error, and the two error *values*
`BackRequest` and `ExitRequest` are control flow. Prompts and the download's
listener receive from channels that `ui.PollEvents()` makes, each with a
goroutine of its own that is never stopped. Work in progress is shown by a
`Progress`, which draws from another goroutine. `download` leaves a file;
`ISO.exec` finds it by its path, its type by its name, and its kernel
parameters by rendering a template over the global `cacheDev`.

`setupNetwork` writes one configuration file, starts a supplicant in a
goroutine it does not wait for, and runs `dhclient` under a deadline the two
share. `pkg/bootiso` mounts an ISO, copies kernels out of it and unmounts it
before the menu of images is shown, so that the images outlive the mount.

What is hard. Three goroutines meet on key channels (caller, listener, the
terminal's sender); a progress box must not draw once it is closed; the table
of distros is replaced, possibly by nothing, while the user walks menus that
show its keys; partial files survive failures and power losses in the cache;
errors with a meaning are wrapped or dropped on the way up; windows and
indices are clamped in ten places; pollers of prompts long gone share one
input slice without a lock; a supplicant's goroutine may run after its
attempt is over, and the supplicant itself may read a file that the next
attempt is writing; a parser of `iwlist`'s text pairs lines by their index;
copies of kernels are shared between configurations. `hazards` in `PROJECT.json`
lists each at its line with the properties that watch it, or with the reason
why none does.

What makes each part correct, in a sentence: the main loop boots only what the
user was asked about, whole as far as a download can tell, with parameters that name it,
and always comes back to a prompt; a download is all or nothing and stops when
told to; the
screen belongs to one drawer at a time and closing a box ends; a menu shows
every entry and returns one of them; keys reach the prompt that is up, whole,
once and in order, and input never stops; each attempt to connect runs on its
own configuration and never on an old one, and ends; the scan offers each network with its own protection;
an image is made of files of its own ISO, nothing stays mounted, and the jump
is into the image chosen; what the DHCP client reports adds up, and its channel
is closed in the end.

## 2. Modules

### Webboot, WebbootMC, Webboot_proofs: the main loop

`pc` names the prompt that is on the screen or the work in progress; a key is
an action of the user, the end of a piece of work an action of the program.
Variables are the globals of `webboot.go` (`table` is `supportedDistros`,
`isoPath` is `cacheDev.IsoPath`, `conf` is flags and found cache), the locals
of the running `exec` (`dir`, `label`, `iso`, `temp`, `distro`, `params`) and
`files`, the contents of every ISO file. A content is the image a distro
published, another body that was taken for whole (`"junk"`, also one cut short
whose response told no length), a part, or nothing. `unsynced` are the files of
the cache that `download` has opened for writing since the power came on: it
closes them without a sync, and nothing else in the program does it later. Two
history variables remember that the user consented (`consent`) and that the
prompt just left was left with `<Ctrl+d>` (`exitAsked`).

A path is `Special` if `html/template` escapes a character of it, be it in the
name of the file or of a directory.

| Action | Code |
|---|---|
| `Start`, `LogFatal`, `Quit`, `QuitMainMenu` | `main` up to the first menu, the `log.Fatal` calls, `handleError`, `getMainMenu` |
| `Probe`, `SetupNetwork`, `FetchTable` | the `*DownloadOption` case of `main` |
| `ChooseDistro`, `ChooseOther`, `ChooseLink`, `BackFromDownload` | `DownloadOption.exec`, `mirrorMenu` |
| `Request`, `Body`, `Saved`, `SaveFailed` | `download` by its outcomes |
| `Check` with `Valid` (`VerifyChecksum`), `Accept`, `Decline`, `LeaveConfirm` | `displayChecksumPrompt` |
| `ReadDir`, `ChooseSubdir`, `ChooseIso`, `BackFromDir` | `DirOption.exec` and its case in `main` |
| `InferType` with `Matching` (`inferIsoType`), `ChooseType`, `Load`, `ChooseConfig`, `Boot`, `BackFromIso` | `ISO.exec` |
| `LeaveResult` | `handleError` and `showLog`, which ignore what `DisplayResult` returns |
| `PowerLoss` | external: memory and `/tmp` are lost, the cache is not, except that any of the `unsynced` files may be short or gone, however long ago its download was |

### DownloadContract, Download, Progress, Downloading, Downloading_proofs

`DownloadContract` is the abstract call, over the target file, whether
something is left elsewhere (`litter`), and the error value: success means the
whole file, cancelling an untouched one, and on every way out the temporary
file was removed or `os.Remove` failed. Two things it cannot promise: that a
body whose response told no length (`sized`) was not cut short, since `io.Copy`
takes any EOF for the end (`"short"`), and that the memory of the temporary file
is free, since the file is not closed (`"held"`, until `Free`). `Cut` is a loss
of power during the call or after it: `download` closes the file without a sync,
so that a file it has begun may be short.

`Download` has the caller at each step of `download()` with its deferred calls
in their order, the listener, and the key channel as Go's runtime has it: a
send goes to the receiver parked longest, and with none parked it waits. The
confirmation that follows on the same channel is in the model as the rival for
keys. `Progress` is the box of `menu.Progress`: its caller, its animation
goroutine step by step, and the rendezvous of `Close`. The dots are kept apart
from the text so that "they are taken back" can be said.

`Downloading` composes the two (`D`, `P`): the caller is one goroutine, so that
a step of the download waits until the box before it is closed.

| Action | Code |
|---|---|
| `TestNetwork` | `main`: the box around `connected()`, and what is drawn before and after it |
| `Request` | `linkOpen`, the status, the listener's start |
| `StartCopy`, `Block`, `CopyOver`, `CopyBreaks` | temporary file, `NewWriteCounter`, `io.Copy` through `WriteCounter.Write`, `counter.Close` |
| `CopyProgress`, `IntoCache`, `CloseProgress` | the animated box and the copy into the cache |
| `Deferred`, `Confirm`, `EndClose` | the deferred removal and `cancel`; the confirmation; the end of `Progress.Close` |
| `Listener`, `Animate`, `World` | the goroutines; blocks, keys, the garbage collector (`Collect`), a loss of power |

`Downloading => Contract` is a refinement: `file` and `sized` are themselves,
`litter` is what is left of the temporary file whatever is in it, and `outcome`
is itself but for a dead machine, where it is `"cut"`. TLC checks it and it is
proved.

### KeyRouting, KeyRouting_proofs

Below the prompts: termbox's reader goroutine (`Read`, `Send`, `Recv`), any
number of pollers, one for each `ui.PollEvents()` (`Extract`, `Shift`, `Pop`,
`Cut`, `Select`, `Copy`, `Grow`, `Give`, `Deliver`), the program that starts
them and receives from the latest only (`ReadKey`, `PollEvents`), and the user.
The reader lends its buffer over `input_comm` and gets it back over the same
channel, where another poller may be parked first. `inbuf` is an array and a
length, loaded and stored in separate steps, because the pollers do not lock
it; `OutOfRange` is the panic this can lead to.

Bytes are numbered as they are typed. Most keys are one; those that `Heads`
names begin an escape sequence, as the arrows and `<Page Up>` are, here of two
bytes. `Event` is what `extract_event` makes of the front of `inbuf`: a sequence
if one is all there, made of whichever keys, else a byte. A key the race has cut
in two thus comes in pieces, and the head of one may join the tail of another.
(Whether a terminal has the resulting sequence is a matter of the bytes; the
model takes every head with every tail.)

What the Go memory model would allow beyond interleaving is left out: each
access is a step. The array (64 bytes) is never replaced, and a terminal's bytes
for one key are read together.

### MenuPager, Prompts, Menus, MenusMC, Menus_proofs

`MenuPager` has the keys of `parsingMenuOption` as moves of a window
`[first, last)` and of the input line. Digits are kept, any character
`strconv.Atoi` refuses is one value; signs are left out. `Prompts` has
`processInput` with the text it keeps (`full`) and the part in the box
(`shown`); `DisplayResult` with its window, where `From` recomputes the end
from the beginning (`Up`, `PageUp`) and `To` the beginning from the end
(`Down`, `PageDown`); `PromptConfirmation` with its entry. Two history
variables hold what the user typed: `typed`, the line since the box was empty,
and `pressed`, the key of a confirmation. A message is the number of its lines
after wrapping; characters are one byte long ("alphabets and digits",
`menu.go:143`), and `<` and special keys, which `processInput` drops, are no
step.

`Menus` shows them one after the other in any order, as `cmds/webboot` does:
each call makes its window, lines and entry anew (`M!Open`, `P!OpenText`, ...),
and those of the last are gone (`Forget`).

### WifiSetup, IwlistScan, WifiSetupMC, IwlistScan_proofs, WifiSetup_proofs

`place` walks `setupNetwork`: `LinkList` and `ChooseIface`
(`selectNetworkInterface`), `LinkUp` (`NewIWLWorker`), `Scan`, `Parse`,
`ChooseNetwork`, `TypeCredential` (`enterCredentials`), then `Connect`:
`BadPassphrase`, `Truncate`, `WriteConf` and `WriteFails` (`os.WriteFile` opens
and truncates the file, then writes it) up to the start of the goroutine,
`Tick`, `DhclientEnds` and `DhclientKilled` while `dhclient` runs, and `Return`
with the deferred `cancel`. `BackFromMenu`, `BackToScan` and `Exit` are what
becomes of `BackRequest` and `ExitRequest`. Every attempt has a goroutine of
its own: `Supervise` is the look of `Cmd.Start` at the context, `Launch` the
start of the process after it, `CommandEnds` and `CommandKilled` its end; and a
supplicant, which reads the file when it gets there (`ReadConf`), also when its
`strace` has been killed. So goroutines and supplicants of earlier attempts run
beside the next one, between any two of its steps. `conf` is `/tmp/wifi.conf`
with the attempt that wrote it; `used` is history: the attempt whose
configuration a supplicant has read. No lock or wait orders a late reader before
the next writer, and the code does not claim more than `NoStaleConf` says: it
may find nothing in the file, or a later attempt's configuration, never an
earlier one's, and not while its own attempt runs.

What a scan hears is one of `Scans`, a sequence of access points (`heard`).
`IwlistScan` is the parser: `Text` is the output of `iwlist` for them, reduced
to the lines the regular expressions match, and `Turn` one turn of the loop of
`parseIwlistOut` over it, which sees only that text. `Nth` is the i-th match of an
expression, `First` the first of a search, `Option` the search for a suite
between one cell and the next, `res` what the loop returns. Where an index would
be out of range (`Panics`) the program ends (`ParsePanics`). `WifiSetup` runs
the turns as its `Parse`, so that the menu, and with it every configuration, is
made of what the parser returned. `Faithful` compares that with `heard`, which
the parser does not see: `OptionsOf` says that there is one option for each
name, in the order of the scan, with the protection of the first access point
of that name. It does so for scans that keep what the comments of
`parseIwlistOut` assume (`OneToOne`, `OneSuite`, together with names without a
colon `Regular`); under the first two alone it says that no index is out of range.

### BootIso, BootIsoMC, BootIso_proofs: loading and jumping

A session executes ISO after ISO. `ParseConfigFromISO` is one step (its mount
is gone when it returns); `LoadCustomConfigs` is `Mount`, `CopyKernel` and
`CopyInitrd` for each config, and the deferred `CloseFiles` and `Unmount`;
`BootCachedISO` is `Stat`, `CmdKexecLoad`, `Load` and `Reboot`. Every call may
fail. A file is the pair of its ISO and its path, a copy is the file it was made
of, and `loaded` is what sits in the kernel's kexec slot, which outlives a
failed jump.

### Dhclient, Dhclient_proofs

`Request`, then its goroutine `configureAll`: `Done`, `AllAnswered` and
`Result` (with `Take`) are the cases of its `select`, whichever is ready, and
`Close` the deferred close. `said` is the sequence of messages on the unbuffered
channel, `heard` how many have been received; nothing goes on while one is
waiting. Both sides are external: u-root's `SendRequests` answers each interface
and protocol in any order or never, and the caller, of which the repository has
none, receives beside `Request` or only after it, and may stop once it hears
"Successful".

## 3. Runs

| Run | What it asks | Bounds, and why they are enough |
|---|---|---|
| `webboot` | the safety properties of the main loop, that no ISO the user put into the cache is ever touched, and that going back ends and no work goes on for ever | two distros (with and without checksum, overlapping patterns), two names (one nothing matches), three cache directories two levels deep under a parent outside, two ways to start (a stick; no cache). The third of `MCConfs`, `-dir` without a network in a dry run, only takes ways away and is left to the runs `webboot_*` (`BootConfs`). A directory and a name are escaped each. Each guard of the model has a distro, a name and a directory on both sides; 1 217 700 states |
| `download` | refinement, no rival, the screen and the dots of the boxes, `<Escape>` and the listener's end | two blocks (one may be there and one missing), one key besides `<Escape>` (what a key is beyond that is never looked at), responses that tell their length and that do not, the three boxes of a download; 16 032 states |
| `key_routing` | that the reader's buffer is neither shared nor lost, and comes back; order with a single poller | four bytes, of which the second and third are one key, three pollers, three reads: a poller that reads, one that has extracted a key nobody will receive, and one parked behind both; a key of two bytes between keys of one; 670 721 states |
| `menus` | window and index, text line, message and confirmation, in any order | menus of 1, 9, 10, 11, 12 and 25 entries: below, at and above a page, a short last page, three pages; numbers of two characters over digits 0, 1, 2 and one that is no digit; a box of two characters under lines of at most four: shorter, equal, longer by one and by two; both kinds of check the code uses, everything (`AlwaysValid`) and lines with a certain end (`validURL`); messages of 1, 3, 4, 5 and 11 lines with a page of four; 172 654 states |
| `wifi_setup` | options, and configurations of several attempts; `Connect` returns, its goroutine ends, going back ends | 43 scans: one, two and three access points, every protection, two networks in either order and one of them twice, lines missing, a name with a colon, nothing at all; two attempts (the second meets the goroutine and the supplicant of the first at any of their steps; a third would meet two of the same kind); a deadline of four ticks (the number is compared with nothing but itself); 146 153 states |
| `boot_iso` | one image of its own files for every config, mounts and the jump | an ISO whose two configs share a kernel, one parsed and with a config that uses one path twice, one only parsed, one with nothing; sessions of any length; 14 135 states |
| `dhclient` | one report for each request, one last message that fits them, received before the channel is closed; that it is closed | two interfaces, two protocols: answers before, between and after others, the deadline at any moment, both kinds of caller; 127 498 states |

Runs that end in a violation, each a sentence of the repository that the code
does not keep:

| Run | Sentence | What happens |
|---|---|---|
| `webboot_ctrl_d` | "User requested to exit the program." | the network setup's `ExitRequest` is logged and dropped, the confirmation's is wrapped, and nobody looks at that of a message or the log (`menu.go:224`, `webboot.go:382`, `394`) |
| `webboot_no_table` | "After the user decides on an ISO, boot it." | no table before the first download, none after a failed one |
| `webboot_escape` | "parameters to tell the next distro where to locate its ISO file" | `html/template` escapes the path, the directories' names and the file's |
| `key_order` | "we store the full typed input in fullText" (`menu.go:106`) | from the second `ui.PollEvents()` on two pollers race for `inbuf`: with four bytes, two pollers and four reads a prompt gets a key twice, in pieces or out of order |
| `boot_iso_command` | "We prefer to use the kexec command for now, if possible" | the test is inverted |

Where the code departs from a comment in ways a property would only restate,
the models take what the code does and no run asks about it: without a stick the
parameters name no device (`webboot.go:98`); `<Down>` on a short last page
fills it and so moves its beginning up (`menu.go:318`, the exception in
`OneLine`, part of `NoEntrySkipped`); the "30 second window" is 200 seconds (`iwl.go:171`); the error of
writing `/tmp/wifi.conf` is shadowed by a nil one, whose `Error` panics
(`iwl.go:160`, `WriteFails`); a name is cut at its first colon (`iwl.go:103`,
`Cut`).

Deadlock is checked in `webboot*` and `menus`. It is not in the others, which
may stop: a call ends and a dead machine does nothing (`download`), the setup
ends (`wifi_setup`), the machine has jumped (`boot_iso*`), the program reads no
more or has crashed (`key_*`), the channel is closed or nobody receives
(`dhclient`).

Fairness. `Webboot!FairSpec` makes the program's own work fair: one goroutine
that is never left unscheduled, and servers and disks that answer; `net/http`
is used without a deadline, so that this is an assumption about the server.
`BackSpec` adds a user who answers a prompt in the end by going back, which is
what `BackingOut` is about. `Downloading!FairSpec` has weak fairness of the caller,
the listener and the animation, none of the server, the user or the power, and
strong fairness of the listener's `Done` case, because `select` picks among
ready cases at random. `KeyRouting!FairSpec` has weak fairness of the reader and
of every poller; the program may never read again. `Dhclient!Spec` has it of
`Request`, of `configureAll`, of the clock and of a caller that receives, and
none of the servers. `WifiSetup!FairSpec` lets time
pass and the program run on, and lets a process end that its context has
killed; `iwlist`, `ip` and netlink are assumed to answer, `dhclient`, the
supplicant and the user owe nothing. `BackSpec` adds a user who leaves no
prompt alone for ever; `BackLeaves` is about one who from some time on chooses
nothing.

## 4. Proofs

All proofs are for every value of the constants under the named assumptions
of the modules.

* `Webboot_proofs`. The invariant is `Inv == TypeOK /\ Shape /\ Safe`. `Safe`
  is the conjunction of the five safety properties; none is inductive by
  itself. `Shape` says what the locals are at each place (which `exec` is
  running, that `iso` is a file exactly when there is one, that the temporary
  file is an image while it is copied, that the cache directory is `Root` where
  the browser walks). `InsideCache` needs only that `Parent` leads from inside
  to inside except at `Root` (`DirAssumption`). Types and safety are separate
  lemmas with one step per action. `Located` says where `main` is with an ISO in
  hand and in which directory a downloaded one lies; `OtherFilesKept`
  (`OwnFileOnly`) is one step under it. For a loss of power it needs that every
  unsynced file lies in the directory for downloads (`Located`), however many
  downloads the session has left there: the action itself takes any of them.
  Three theorems say how far the sentences go that the code does not keep
  (the runs `webboot_*`): `<Ctrl+d>` ends the program in every behaviour without
  the three steps that drop it (`ExitHonouredElsewhere`, `Drops`); an ISO
  downloaded as a distro of the menu can be booted (`BootableUnlessOther`), so
  that the missing table matters for cached ISOs and for links typed under
  "Other Distro", and for nothing else; at the jump the file is where the
  parameters say exactly if there is a stick and nothing in its path is escaped,
  directories included (`LocatableExactly`). They need `Exact`: a label is still a key when the type
  of its ISO is inferred, and the flag of a mangled name is exact.
* `Downloading_proofs`. `CallInv` is about the call: it ties `pc` to the
  outcome, the file, the context and the listener, and says who is parked on
  the key channel. `BoxInv` is about the boxes: it pairs the places of the
  caller with those of the goroutine. A step of the whole is a step of each
  part or leaves it alone (`CallSteps`, `BoxSteps`), so that the two are proved
  apart; `Implements` maps every step to a step of the contract or to a
  stutter, and `PromiseKept` is what the contract promises, of `download`;
  `TempFileRemoved` says that no way out leaves the temporary file unless its
  removal was tried and failed.
* `KeyRouting_proofs`. `BufferOwned` needs to know who is parked: `Queue` says
  that each receiver is parked on `input_comm` once and is at the place that
  waits, the reader only while its buffer is lent (`Token`). `PiecesOfKeys` bounds
  what the race of the pollers can do, which `key_order` shows: with any number
  of them a prompt gets bytes that have been read from the terminal
  (`OnlyRead`), though perhaps twice, late or out of order, or a piece of a key,
  or the head of one sequence with the tail of another. It does not say that no
  key comes that was not typed: a piece of a key is one. `SoleInOrder` needs
  to know where, with one poller, every byte that has been typed is: `Pipeline`
  follows those in `inbuf` and in the poller's hand through its steps,
  `Position` those in the reader's buffer, and `Boundaries` says that no read
  ends within a key, so that what is extracted is whole (`EventWhole`).
* `Menus_proofs`. `MenuInv` (the types, and the window and index of `Window`)
  and `PromptInv` are proved apart like those of a download. `Box` says of every
  state what `BoxShowsText` and `AnswerIsTyped` say of an open prompt,
  `Page` is the window of a message, `Pressed` ties the entry to the key, and
  `Fresh` says that an open prompt has no answer yet. The action properties
  follow from one step under these.
* `IwlistScan_proofs`. What the parser finds in the text of any scan. The code
  identifies a cell's line by its rank among the matches of an expression, so
  the first half is about counting: the lines at place k of the cells are a
  column (`ColumnCount`, `ColumnNth`), and if every cell has its line, the i-th
  match is in cell i (`AllOfCells`, `ColumnsOfCell`). `Option` searches from a
  cell to the next, where at most three lines can match (`Within`,
  `FirstWithin`): `OptionOfCell` finds the protection of that very cell, one
  case for each protection. Then turn by turn: `FirstOfName` says that a name
  is known exactly if an earlier access point has it, for which the least such
  is needed (`Least`, the minimum principle of the library's
  well-founded relations, where an induction would need an operator as
  parameter), and `TurnOptions` that a turn extends `OptionsOf` by one.
  `NeverPanics` needs `OneToOne` and `OneSuite` and nothing of the names.
* `WifiSetup_proofs`. For any set of scans. `Read` carries `OptionsOf` through
  the loop to the menu (`MenuFaithful`). `Asked` ties the number of credentials
  to the prompts, `Last` says that the attempt that runs is the last one, that
  every earlier context is done, and that what is in the file, if anything, is of
  the last attempt. `NoStaleConf` needs both: since the file only ever goes from
  nothing to the configuration of the newest attempt, whatever a supplicant
  reads, at whatever moment, is of its own attempt or of a later one (`Started`).
  That needs `WriteFails` to end the call: were its error ignored, the next
  supplicant would work on what was in the file before.
* `BootIso_proofs`. `Copies` says that while `LoadCustomConfigs` copies, every
  entry of its map is a file of the mounted ISO under its own path; that images
  are of their files follows config by config. `Complete` counts along: the
  configs behind it have their images, and all have when the menu is shown.
  `Chosen` carries the chosen image to the jump. `NothingBootsWithout` is what
  the inverted test of `boot_iso_command` costs: where there is no `kexec`
  command, no session loads or jumps.
* `Dhclient_proofs`. `Inv` is `ReportsAddUp` with the types and `Looping`: in
  the loop nothing that ends the messages has been said yet, and nothing of a
  request whose result is not in, so that what a result adds comes at the end of
  the sequence and is the first about its request.

Every invariant and every safety property of a step that the passing runs check
is proved, and so is the refinement of the download's contract. Only
model-checked: liveness (`BackingOut`, `EscEndsCall`, `ListenerEnds`,
`BufferReturned`, `ConnectReturns`, `SupervisorsEnd`, `BackLeaves`, `Closes`),
which is out of this prover's reach under fairness.

## 5. Not modelled

* The image builder `src/webboot.go`: a straight sequence of commands on the
  developer's machine, with nothing concurrent.
* `pkg/wifi/native.go`, whose methods return "Not Yet" or the error of one
  ioctl, `pkg/wifi/wireless.go`, the constants and structures of that ioctl, and
  `GetID` and `BootFromPmem`: no command calls them.
* The cryptography of `pkg/wpa/passphrase` and of the checksums: a checksum
  matches exactly when the file is the published image.
* Whether termui is finalized when the program ends: `log.Fatal` in the main
  menu (`webboot.go:365`) and in `PromptMenuEntry` skips `menu.Close`.
* What is drawn: layout, wrapping, the log box. A prompt is what it returns.
* What stays behind on errors in `LoadCustomConfigs` and `cmdKexecLoad`: files
  and loop devices on which nothing in the session depends.
* In termbox, escape sequences that a read of the terminal ends within (the
  pollers' race does cut them in the model), mouse events and resizing; memory
  orders weaker than interleaving.
* How `wpa_supplicant` takes a file that is being written: it reads the file
  before, between or after the two steps of `os.WriteFile`.
* The parsers of u-root (GRUB, syslinux), whose source the repository does not
  have (whether the images they return read lazily from an unmounted ISO,
  `bootiso.go:58`, cannot be told from here), u-root's `SendRequests`, kexec
  itself, the loop device, `wpa_supplicant`, `dhclient`, `iwlist` and `strace`:
  external, by what the code sees of them.

## 6. Plan

All modules of the plan are written: the main loop, the download with its boxes
and its contract, the menus and prompts, the network setup with its scan parser,
the boot loader, the way of a key, and the DHCP client. What remains has no
state (section 5) or is not in the repository. Should the code change, these are
the places to start from: a `ui.PollEvents()` called once and passed on would
turn `key_order` into a passing run; a deadline on the request of `download`
would let `EscEndsCall` begin at the request.
