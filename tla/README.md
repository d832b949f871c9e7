# TLA+ models of ampere-misc

This directory models the daemons of ampere-misc (baseboard-controller software
for Ampere servers) in TLA+. Small instances are checked with TLC, and the
statements that matter most are proved for every value of the constants with
TLAPS. Each action is one handler of the code, with all the calls it makes.
`PROJECT.json` says, definition by definition, which lines it stands for.

## The system

The repository is a collection of programs that share a controller but no code.
They talk to each other and to the rest of the firmware over D-Bus, files,
systemd units and the host's SPI flash.

| Component | State | Operations | Talks to |
|---|---|---|---|
| power-manager | five D-Bus properties, a copy of them, a file, two timers | five setters, sampling callback, correction callback, start | power sensor, chassis power, systemd, journal |
| crash-capture-manager: pass | lock, handshake, descriptor, mount, table read | `bertHandler` | handshake script, SPI flash, dump directory, SEL, fault log |
| crash-capture-manager: trigger | boot flag and status, three timers, power mask | start, `TriggerActions`, `TriggerProcess`, boot event, timeouts | the pass, PLDM events, host state, power-control script |
| crash-capture-manager: names | last second, index | `getUniqueEntryID` | wall clock |
| altra-host-error-monitor | event masks, poll timer | host state signal, poll, decoding of error lines | sysfs, SEL, journal, LED group |
| ac01-nvparm | NV parameters in flash | program, verify, read, set, erase | MTD device |
| flash-utils | an EEPROM, a FRU | program, read back, compare | I2C, EEPROM driver |
| ampere-cpld-fwupdate | a CPLD | probe, erase, program, verify, checksum | I2C, JTAG driver |
| ampere-trst-wa | the level of TRST | wait for power good, toggle TRST | gpiod, JTAG driver |
| state-logger, ampere-cpu-present, nmi-manager | none after start | one handler each | D-Bus, journal, systemd |

The daemons have one thread and one event loop each. What is concurrent is the
environment: D-Bus clients, sensors, the host (which uses the same flash), the
clock, the disk, and the death of a daemon between any two writes. The hard
behaviours, with their lines, are the list `hazards` of `PROJECT.json`. In
short:

* **power-manager**: one correction timer stands for one excursion over the cap
  while properties change under it; the file is rewritten in place.
* **crash capture**: the flash is shared with the host through a script whose
  every call can fail; the table of pending marks is read and written in
  different windows; a boot event and two timers compete for one read; a lock on
  the power controls must not outlive its timer.
* **error monitor**: polling follows the host state signal; events are edges
  computed against a mask that a restart forgets; a poll sleeps after every
  entry while the host and the hardware go on.
* **programming tools**: erase, write and verify of a device, where any step may
  fail or be cut short and many failures are not looked at; nvparm rewrites a
  whole block to change an entry, and nothing keeps two of it apart.
* **ampere-trst-wa**: an edge that comes before the tool listens is never seen.

## Modules

| Module | Models | Checked by | Proofs |
|---|---|---|---|
| `PowerLimit` | what power capping promises: Off, Watching, Grace, Limited | as `LimitSpec` | |
| `PowerCap` | `power_cap_interface.cpp` | `power`, `power_live` | `PowerCapProofs` |
| `BertPass` | what `bertHandler` promises its callers | as `PassPromise` | |
| `BertHandler` | `bert_handler.cpp`, one pass step by step | `bert_pass`, `bert_host` | `BertHandlerProofs` |
| `CrashCapture` | `crash_capture_interface.cpp`, composed with `BertPass` | `capture` | `CrashCaptureProofs` |
| `EntryId` | `getUniqueEntryID` of `utils.cpp` | `entry_id` | `CrashCaptureProofs` |
| `ErrorMonitor` | `altra-host-error-monitor.cpp`, the poll line by line and bit by bit | `ras_monitor` | `ErrorMonitorProofs` |
| `RasLine` | the same, one line of an error file | `ras_line` | `ErrorMonitorProofs` |
| `NvLayout` | the flash and the commands of `nvparm.c`, and what each is to do | with the next two | |
| `NvStore` | what the commands promise together | as `StorePromise` | |
| `NvParm` | `nvparm.c`, access by access | `nvparm` | `NvParmProofs` |
| `FlashUtils` | `ampere_eeprom_prog.c`, `ampere_fru_upgrade.c` | `flash_utils` | `FlashUtilsProofs` |
| `JedFile` | the JEDEC parser and the checksums of `lattice.c` | with `CpldUpdate` | |
| `CpldUpdate` | `cpld.c`, `lattice.c`, the two `cpldupdate-*.c` | `cpld` | `CpldUpdateProofs` |
| `TrstWa` | `ampere-trst-wa.c` | `trst` | `TrstWaProofs` |

The `MC*` modules only define values the `.cfg` files need.

### PowerCap

`prop` is the D-Bus object (`CapItf`), `currentCfg` the member of the same name,
`file` the configuration file (absent, torn, or a configuration). `correctTimer`
and `samplingTimer` are sdeventplus timers with their three observable facts:
enabled, expired, time left. `out` holds the external calls of the last step.
`hist` and `saved` exist for the properties only: the verdict of the last
comparison, how long it has been "over", what the correction time was then, and
whether the last write of the file went through.

A setter is one action: it works on the timers, updates `currentCfg`, writes the
file and publishes the property. The file may not open, or be truncated and then
not written (`DiskMayFail`): nobody looks, and in the second case it is torn, as
`Crash` may leave it. `Start` is the constructor:
it replays the file through the setters, in the code's order, with the
intermediate states each of them sees. `SamplingTimerFires` has one disjunct per
outcome (no reading, over, below). `Tick` never waits for a due timer, so a timer
fires arbitrarily late.

### BertHandler and BertPass

`pc` names the next step of the synchronous pass. `lock` and `hs` are the
script's effects, which outlive the daemon; `fd` and `mounted` are what must be
closed; `table` and `content` are the flash; `info` is the table as read;
`saved` and `logged` are the outputs. `torn` says that `latest.ras` lost its
content in a broken write, `misread` that `info` is not what the host left.
`OpenWindow` and `CloseWindow` are the handshakes around each access with the
host on. `Throws` is the exception path, `Crash` the death of the daemon at any
step, `HostWrites` the host firmware (external). `fails` records which kinds of
failure have happened, so that a property can say "unless the script failed".
Only negative results count as failures in the code: a read that is cut short
goes on with what the stack held, a short write of the table leaves it torn, and
a dump or a log call that fails is not noticed. All of these are outcomes
(`UnseenMayFail`). `missed` are the records nobody processes and nobody is told
of: not taken by a sink, read short, or left by the host while the pass goes by
the table it read earlier. The claim timer is left out: it is started and
stopped within one synchronous pass, so it never runs (see below). That a pass
ends is therefore a statement about its steps: `Left` counts what is still to be
done, over files, blocks and attempts, and `PassAdvances` says that no step of
the pass leaves it where it is.

`BertPass` is the promise the callers need: a record loses its pending mark only
in a pass and only after it was copied and logged or was missed, or the whole
table breaks. `BertHandler` implements it (`PassPromise`) through a refinement
mapping. `CrashCapture` uses it instead of the pass itself.

### CrashCapture

Timers are countdowns, `Stopped` when not armed. A handler that calls
`bertHandler` occupies the daemon until the pass returns; `then` remembers what
the handler still does afterwards (`ProcessDone`, `BootEventDone`). The order in
which the code clears its flag, stops the timer and reads differs between the
handlers and is kept. `Listening` is the event loop being free. Each request of
`TriggerActions` starts the lock timer anew, as often as it comes: a lock ends
only once no request prolongs it, which is what `EventuallyUnmasked` says. The
host's state is read at the start and never again, so it is `Start`'s argument.

### EntryId

The clock is a number of seconds, its rendering as local time the constant
function `Label`, which may repeat: an hour comes twice when daylight saving ends.
The clock may be set back and the daemon restarted. Its
specification is `NamesSpec`, so that `CrashCaptureProofs` can extend both modules
of the daemon.

### ErrorMonitor

`Table` is the code's two tables in the order of a poll, `at` the row a poll has
reached; rows whose file is not there are passed over in the same step.
`signals` are host states that wait while a poll sleeps; none are delivered to a
daemon that is down. `then` is what `HandleRunning` does after its poll: start
the periodic timer. `waiting` are the lines the error files show, `alerts` the
bits the event files show, `curEventMask` the code's masks as sets of bits.
`lines` and `bits` are what a poll has read of its file and not looked at. A
line or bit takes two steps, the record of the system event log (`RecordError`,
`TurnBit`) and, after the sleep of 300 ms in `addSelOem`, the entry of the
journal (`JournalError`, `JournalEvent`); `recording` and `turning` hold it in
between, when the host and the hardware change and the daemon may be killed.
`logged` are the lines in the journal, `shown` the messages whose last entry
there says "Asserted."; a message is the words of the entry: event, socket and
place, as the four `logEvent...` functions name it (`Place`). `led` is the LED
group. A short line of an internal error makes `substr` throw (`ParseThrows`).
`Root` is the directory of a socket; of the modelled board socket 0 has one that
ends in a separator and socket 1 the default, of which no file is ever found
(see below).

`heard` says that this life of the daemon has handled a host state. Without it
the daemon does not poll: it learns of the host from changes only. The other
history variables say which kinds of failure have happened.

### RasLine

A line is a sequence of hexadecimal digits, `TextOf(e)` what the driver writes
for an error `e` (external: the order of the bytes and the groups of an internal
error). The driver is not in the repository, and the code does not agree with
itself about which half of the data comes first: the comments call the first
group "data high" (altra-host-error-monitor.cpp:573) and the second "data low"
(578), the joining (584) puts the second one in front. So `order` of an error is
either. What follows is the code's way back: `reverseStr` and `parseHexStr` of
`utils.hpp`, the two `prepare...Data` functions (`InternalFields`,
`ErrorFields`), the record (`InternalSel`, `ErrorSel`) and the journal entry
(`InternalJournal`, `ErrorJournal`); `LinesSpec` takes one line after the other.
A word out of a table is the code it stands for, or nothing if the table has no
such row. Lines of other lengths are `ErrorMonitor`'s.

`EntriesTellTheError` compares both entries with `e` itself, field by field. Its
exceptions are losses of the code: halves of data with a zero at the front
(`Misjoined`), rows and columns that do not fit a byte, types without words, and
data whose high half comes first, as the comments have it: both entries then show
the halves swapped (`DataIsTold`).

### NvLayout, NvStore and NvParm

A cell is an entry of 8 bytes with its CRC, or blank, zeros or junk; blocks of
`Per` cells are what can be erased. `NvParm` runs any number of invocations at
once, each with its next access (`pc`), its command (`op`), the block it read with
its change made (`blob`) and its place (`at`). Every access may fail, a write may
stop early or store a wrong cell unseen, and the tool may be killed between two
of them. The driver's flash is external: programming only clears bits (`Stored`).

`NvStore` is what a user may rely on: a command changes the entries it is about,
at once, or tears cells of the blocks it was given and says nothing about those
until they are written again. `NvParm` implements it with `last`, what each cell
held when it was last whole, as the store; `clean` says that nobody else changed
the blocks of a command meanwhile. A command that was crossed leaves its cells
torn: that `-s` and `-e` of one block undo each other is in the promise.

### FlashUtils

`op` is the tool and option of an invocation, `buf` the file as read, `back` the
copy read back, `at` the loop's offset. The EEPROM is external: a write of more
than one of its pages rolls over inside it (`LandsOn`), offsets behind the end
wrap or nobody answers (`wraps`). Which results are looked at follows the code:
a page that fails does not stop the writing, a failed read leaves memory nobody
wrote to (`cut`), `fread` and the flushing of `fwrite`'s buffer are trusted.

### TrstWa

`fitted` and `good` are the board, `socket`, `present` and `edge` the tool and
the line it listens to. libgpiod is external: it queues edges only while the line
is monitored, and calls the callback at a timeout too. `unreset` holds the sockets
powered since the last whole pulse and `late` those of them whose wait was over
by then; both are history. Either socket's power comes up and goes at any time,
and the tool is killed when the host is stopped.

### JedFile and CpldUpdate

`CpldUpdate` is a sequence of invocations of the tools on one chip. `pc` is the
next call of the library, `stage` the call of `main` it is part of, `devInfo` the
code's `dev_info`, `i` the row of a loop, `sum` the variable `crc`, and `verdict`
what was printed last. The chip is what lasts: its flashes `cf` and `ufm`, its
user code, whether the flash may be accessed (`mode`) and the page pointer
`ptr`, which a write or read moves on. `-p` is, as in the code, a version read
with its own done bit and refresh, an ID read, and then the update.

Each call has three kinds of failure. The transfer is lost: over I2C the call
returns (`Return`), over JTAG, where no result is looked at, the tool goes on
(`LostTransfer`). The device stays busy for all `MAX_RETRY` readings of its
status. A row is stored wrongly, wholly or behind its first word (`Spoiled`),
which only the history variable `misstored` knows. `Start` and `Erase` also go
on after a device that stayed busy, because the result of `CHECK_BUSY` is
overwritten by that of `CHECK_STATUS`. `Kill` ends the tool anywhere. The chip
is external: programming only adds to what is there, so a row that was not
erased becomes neither the old one nor the new one (`Stored`); outside the mode,
writes and erases do nothing and reads give junk.

A row is two words, one for the 32 bits that the verification compares and one
for the other 96, and stands for four; that is what the properties tell apart. A
retry loop is one step with the outcome it has. `JedFile` works on lines known
by their first characters, which is all both passes look at; a row's sum is the
sum of its words. The second pass may store more rows than the first one counted;
a row for a buffer that was never allocated ends the tool (`NoBuffer`), one behind
the end of a buffer is kept by the model and does what it does in the code to what
lies behind, which is left out.

`PassMeansStored` and `PassMeansHeads` say what a PASS is worth. Over I2C a
failure while the flash is opened or read ends the update. Over JTAG no result is
looked at and the buffer is zeroed before every read, so a lost read passes for a
row that begins with zeros, leaves the page pointer where it was and puts the
rows after it off by one. `blind` says that such a failure has happened in this
update; without one, the verification finds every other failure.
`RetryHeals` is about sequences: whatever two failed or killed invocations left,
one that is not disturbed succeeds. Its exception is a consequence of
`jtag_cpld_lcm3d_erase`, which has no operand for the user flash.

`ChecksumTells` says what `-c` shows of a device that holds the file: the sum of
the file without the end section and, over JTAG, with what the code counts of
it. The checksum of an LCMXO3D over JTAG sets its address with one byte, 0x04
(lattice.c:961), where programming and verifying the same chip give three
(lattice.c:1139, 1366). Which rows the chip then reads is not in the repository:
the sum is any number (`OtherAddress`), and the property is not about that
board.

## Runs

| Run | Question | Bounds |
|---|---|---|
| `power` | Does any order of setters, samples, timers, crashes and restarts take an action that is not due, take it twice, leave events unpaired, or lose a configuration? | two powers and caps (under, at and over the cap all occur), correction time 0 and 3 ticks and a minimum period of 2, so that one or two further samples fall into a correction; period 0, below the minimum, and 2; a disk that fails |
| `power_live` | Is a lasting excess acted on, and a lasting drop honoured? Does the daemon implement `PowerLimit`? | correction time 0 and 2 ticks, periods 0, 1 and 2 with a minimum of 1, a disk that works |
| `bert_pass` | What does a pass leave behind when anything in it fails, and does it end? | 2 files, 2 blocks, 2 attempts, 2 records, every unseen failure, and a host that writes between two windows: a second file after a failed first one, a record overwritten by a newer one, a retry after a retry |
| `bert_host` (violated) | Can the host lose a record by writing during a pass? | 2 files |
| `capture` | Can two of the three ways to a read both read, or all give up? Can a lock outlive its timer? | delays of 1, 2 and 2 ticks: each timer can be due before, with and after the other, and a lock request can prolong a lock that is half over; any number of requests |
| `ras_monitor` | Do polling, the event log, the error log and the LED agree with host and hardware, whatever happens during a poll? | one file of each kind (uncorrectable, internal, event) in the code's order, a plain, an overflow and a short line, the same channel of both DIMMs, 2 waiting signals (off and on again within one poll), 1 kill, 1 failed read |
| `ras_line` | Do the two entries of a line tell the error the hardware reported? | all pairs of five halves of data (with and without zeros at the front, all zeros), codes on both sides of the end of each table, all eight error files with known, unknown and overflow types, rows and columns on both sides of a byte |
| `nvparm` | Is a command of nvparm one change of the store, or else torn? What is status 0 worth? | 2 invocations at once, any number after each other, 2 blocks of 2 cells (an entry and its neighbour, a block and its neighbour), 11 commands (offsets inside a block, behind the end, files of no, one and two blocks), 1 failure or kill: with two accesses to a block every place of it is reached |
| `flash_utils` | What are PASSED and success worth, and does an update heal what earlier ones left? | 2 pages of 2 cells, selected pages of 1, 2 and 4 (smaller, right, too large), 5 files (empty, half a page, a repetition, CRC 0, too long), 3 failures: the file, a write and the read-back of one invocation |
| `trst` | Is every powered socket's port reset, also when its edge was missed? | boards with one and two sockets, waits of 2 ticks, 2 rises per socket (up, down, up again within one run), 2 failures or kills |
| `cpld` | What are PASS, FAIL and a checksum worth, and does an update heal what earlier ones left? | 5 pairs of chip and tool, 8 files (one and two rows, a row that begins with zeros before and after another row, user flash with and without a closing line, end sections of one and two lines, three that are refused, two that are not orderly), 2 failures over any number of invocations: a failed or killed one and a failure in the next |
| `entry_id` | Do names repeat? | 5 seconds, of which the last two show the local time of earlier ones again, 3 names per second |

The type invariants of all modules are theorems. Only that of `CpldUpdate` is run
as well, for the 16 bits of the checksum. Every named `ASSUME` is evaluated by a
run.

Every property of a passing run has a mutant in its module, a definition with a
plausible bug that stands just before the one it replaces and is marked
"Mutant:".

### What the violated run shows

* `bert_host`: with the host on, `latest.ras` is read in one window and written
  back whole in another (bert_handler.cpp:392 and 484). A record marked pending
  in between loses its mark unread. What the code keeps in every case is the
  theorem `ClearedMeansAccounted`: the record was processed, or it is one of the
  `missed`.

Further observations without a run of their own:

* The claim timer is started and stopped within one synchronous pass, so
  `bertClaimSPITimeOutHdl` never runs and a slow access holds the flash for as
  long as it takes; meson.options:4 has it as "The amount of time a BMC can
  claim the SPI".
* `getAbsolutePath` (utils.hpp:62) joins directory and file name without a
  separator. The default directories (utils.hpp:53) have none at their end, and
  the check at start adds its own, so with the shipped configuration (empty
  paths) the daemon starts and finds none of its files.
* The verification of a CPLD compares `sizeof(unsigned int)` of the 16 bytes of
  a row (lattice.c:2112) and does not read the user flash at all: an update
  whose rows were stored wrongly behind their first word prints PASS. This is
  why `PassMeansStored` excludes `misstored`.
* nvparm: `-d` and `-l` look at one erase block, not at the partition; `-d`
  opens its file without `O_TRUNC`; an entry of zeros is listed as valid;
  without the MTD device the status is 0; what `-s` and `-e` return is the count
  of the last write, cut to the byte of an exit status; an update crossed by
  another of the same block is lost with status 0.
* ampere_eeprom_prog: the usage says `-t 3:24c1024`, the code has 24C512 for 3
  and 24C1024 for 4; `-r` exits with 0 and shows junk if nothing answers; the
  read of a 24C02 sends two address bytes of which the second was never set; if
  both the file and the read-back fail, PASSED may stand for memory nobody wrote
  to.
* With the layout of its own comments and of the example above it
  (altra-host-error-monitor.cpp:526, 573, 578) the data of an internal error
  comes out with its halves swapped, and the record, which has room for one,
  keeps the high one.
* Internal errors: the comment of `prepareInternalErrData` speaks of 32 bits of
  data, but its halves lose their leading zeros before they are joined
  (`0x00120034` becomes `0x1234`). Row and column of a memory error are printed
  modulo 256. A type without words leaves the socket out of the journal entry.
* ampere-trst-wa: libgpiod reports a timeout through the same callback, which
  does not look at what it is told, so a timeout counts as an edge and "time
  out" is printed for errors only. `$?` in the unit's `ExecStop` is that of a
  fresh shell: it always writes "Done". A presence line that cannot be read
  means "absent".

* The CPLD tools' error paths leave the chip in the programming mode, and the
  version read that begins every update sets the done bit and refreshes the
  chip, a half-programmed one too. `RetryHeals` says that this does not last
  beyond the next good update.
* `cpld_probe` opens `lattice_dev_list[0]` only, so the ANLOGIC library works
  with descriptor 0: a chip of that kind is recognised by the ID left in the
  buffer by the YZBB request, and every update fails.
* The checksum over I2C leaves the end section out, the one over JTAG starts
  line `i` of it at word `i` (lattice.c:1002); both differ from the file's sum
  for files with such sections, by what `ChecksumTells` says. Over JTAG the
  checksum of an LCMXO3D sets its address otherwise than programming does
  (lattice.c:961, 1366).
* Over JTAG a PASS says nothing about a row read in vain: with a file whose
  first row is the zero row, an update of which the first write and the first
  read of the verification are lost prints PASS with a chip that differs from
  the file in the first word of a row. This is why `PassMeansHeads` excludes
  `blind`.
* `cpld_verify` (cpld.c:191) returns a variable it never set; nothing calls it.
* `BuffersFit` holds for `Orderly` files, and nothing checks that a file is. The
  two passes disagree about a section that is still open at the feature row: the
  second one keeps it open and stores digits the first one did not count. The
  files `overrun` and `noufm` of the run do so, the second into a null pointer.

* `out.write` (bert_handler.cpp:432) and the log calls are not checked: a record
  they did not take loses its mark all the same and is among the `missed`. So is
  one whose blocks were read short, since only negative results are looked at.
* A power-off request that is refused (power_cap_interface.cpp:351) is not tried
  again in the excursion, and `LimitEnforced` excludes it. A torn configuration
  is restored as whatever the memory held.
* Each `TriggerActions` request starts the power lock anew
  (crash_capture_interface.cpp:62): requests that go on coming hold it for good.
* The cap comparison is `>=` (power_cap_interface.cpp:245); the comment above it
  says "greater than". With the default cap of 0 every reading is over the cap.
* With the clock set back, in the hour that local time repeats, or after a
  restart within a second, names repeat: only the previous timestamp is
  compared.
* A daemon killed in the sleep between a record and its journal entry leaves the
  journal behind: an Asserted entry whose bit is out of the mask already is
  never taken back, and a UE recorded so does not light the LED.

* The SEL record of a hot DIMM 1 channel holds a 16-bit mask in a byte and is 0
  for all eight channels (altra-host-error-monitor.cpp:914); the journal entry
  names the channel, and the model's messages are those of the journal.
* A UE file that shows an overflow does not light the LED: the function returns
  first (altra-host-error-monitor.cpp:674). The model follows the code.
* The error monitor, restarted while the host runs, does not poll until the
  host's state changes; `PollingFollowsHost` says so.

## Fairness

* `PowerCap`: weak fairness of the two timer callbacks and of time. A due
  callback stays due until it runs or its timer is changed. Nothing is assumed
  of clients, sensor, disk or restart; no unit file restarts the daemon.
* `BertHandler` states none: `PassAdvances` is a property of its steps.
* `CrashCapture`: time passes, a pass returns (it is straight-line code, and by
  `PassAdvances` has only so many steps), the rest of a handler runs. The timer
  handlers have strong fairness: they are disabled while another handler runs,
  and the event loop comes round to a timer that stays due. Starts, requests and
  boot events are free.

* `ErrorMonitor`: the unit restarts the daemon (`Restart=always`), a poll goes on
  to its next file, and the event loop serves the signal and the timer in turn
  (strong fairness: both are disabled during a poll). Nothing is assumed of host,
  hardware and LED manager; reads fail a bounded number of times.

* The tools (`NvParm`, `FlashUtils`, `CpldUpdate`, `TrstWa`) state none: what
  matters of them is what is left when they have ended, however that was.

## Proofs

| Theorem | Statement |
|---|---|
| `PowerCapProofs!TypeCorrect`, `TimersCorrect`, `ExcursionTracked` | `Spec => []TypeOK`, `[]TimersFollowEnable`, `[]TimerTracksExcursion` |
| `PowerCapProofs!ActionIsJustified`, `ActionOncePerExcursion`, `EventsArePaired` | the three action properties |
| `PowerCapProofs!ConfigurationDurable` | `Spec => []CfgDurable`, disk failures and crashes included |
| `PowerCapProofs!ImplementsLimit` | `Spec => Limit!SafeSpec` |
| `CrashCaptureProofs!CaptureTypes`, `CaptureReadPending`, `CaptureReadsOnce`, `CaptureLockHasTimer`, `CaptureNoStrandedLock` | the invariants of `capture`, and the strengthening `ReadPending` |
| `CrashCaptureProofs!NamesUnique`, `NamesAlternate` | `UniqueWhileUndisturbed`; that two consecutive names differ whatever the clock does |
| `BertHandlerProofs!PassTypes`, `PassesEnd` | `Spec => []TypeOK`, `PassAdvances` |
| `BertHandlerProofs!AccessOnlyInWindow`, `WindowsAreClosed`, `PassReturnsResources` | `[]AccessInWindow`, `[]WindowsClose`, `[]ResourcesReturned` |
| `BertHandlerProofs!NoRecordTwice` | `Spec => []LoggedOnce` |
| `BertHandlerProofs!ClearedMeansAccounted` | `Spec => []ClearedAccounted`: what is left of `FlagMeansProcessed`, which `bert_host` violates, in every case |
| `BertHandlerProofs!PassImplementsPromise` | `Spec => PassPromise` (the refinement of `BertPass`), with the host writing and everything failing unseen |
| `CpldUpdateProofs!CpldTypes`, `SumHasRange` | `Spec => []ToolTypes`, the types of all variables but the checksum; `[]TypeOK`, with its 16 bits |
| `CpldUpdateProofs!PassComparesHeads`, `PassIsStored`, `UpdateHeals` | `[]PassMeansHeads`, `[]PassMeansStored`, `[]RetryHeals` |
| `CpldUpdateProofs!ChecksumIsFiles` | `[]ChecksumTells`: the checksum read from a device that holds a file is the file's, but for the end section, counted as the code counts it |
| `CpldUpdateProofs!OrderlyFilesFit` | `Spec => []BuffersFit`, which is about the `Orderly` files among any |
| `NvParmProofs!NvParmTypes`, `CommandsAreAtomic`, `StatusZeroMeansDone` | types, `Spec => StorePromise` (the refinement of `NvStore`), `OkMeansDone` |
| `FlashUtilsProofs!ToolTypes`, `PassedIsProgrammed`, `OkIsWritten`, `UndisturbedHeals` | types, `[]PassedMeansProgrammed`, `[]OkMeansWritten`, `[]Heals` |
| `ErrorMonitorProofs!MonitorTypes`, `PollsWhileHostRuns`, `LogIsFaithful`, `LedIsTruthful`, `NoLineLost` | the invariants of `ras_monitor` |
| `ErrorMonitorProofs!LinesAreTold` | `LinesSpec => []EntriesTellTheError`, for all errors and all tables of words |
| `TrstWaProofs!TrstTypes`, `PoweredSocketsAreReset` | types, `[]PowerGoodIsReset` |

The assumptions are the named `ASSUME`s of the modules: times are naturals, the
minimum period is one of the periods and positive, a fresh object is disabled,
the 10 s timer is shorter than the boot-failure timer (the build options bound
both), the errors and alerts of a board are lines and bits
its files have.

*PowerCap.* `TypeOK`, `TimersFollowEnable` and `TimerTracksExcursion` are
inductive together. The last one is the strengthening: that the action is
justified follows only because an armed timer has at least as much time left as
the correction time still lacks (`age + left >= grace`), and that it is taken
once only because a latched timer means the event was already raised. The action
properties follow from it one action at a time; so does the refinement, where
each action is a step of `PowerLimit` or leaves its phase alone.

*CrashCapture.* `ReadOnce` is not inductive: that the first timer may read
needs that nobody read before. `ReadPending` says which of the three ways is
still open in each state (the flag stands for the failure timer, the first timer
with the status untouched implies the flag, the failure timer does not overtake
the first) and is inductive with the types.

*EntryId.* The invariant relates every name given to the last second and index:
undisturbed, names that show the local time of the present second were given in it
and have smaller or equal indexes, and the labels of all names have been shown.

*ErrorMonitor.* `PollInv` is the strengthening: a poll belongs to an armed timer
or to the handler that will arm it, the last signal that waits is the host's
state, and with none waiting the last one handled is. `LogIsFaithful` rests on
`MessagesDiffer`: over both sockets and all bits, no two bits of the event files
share a message, so that taking back one entry never takes back another. It says
of a kill in the sleep what it leaves: the mask is ahead of the journal by the
bit in `turning` (`Told`), and a death forgets the mask. That a poll reaches its
next row (`NextRowType`) needs that a set of naturals has a least element, from
the library's well-foundedness of the naturals.

*BertHandler.* The types are inductive together with `Progress`, how far the
counters have come where; with it `Left` is a natural number at every step of
the pass and each action takes something off it. So a pass ends for every number
of files, blocks and attempts. `Windows` relates the handshake, the lock and
what is open to the step and to what has failed. Its parts are inductive
together only: that a window closes needs to know how the pass began, and a pass
begins as the one before it ended. `Fetched` says that the table in memory is
the one in flash but for the marks of records copied and logged, or missed,
unless the table was misread or is torn; `Once` that, as long as every table was
read and written back whole and no pass was cut short, no logged record is
marked in the table that counts. Each step then is a step of `BertPass` or a
stutter. None of this assumes anything of the host or of the sinks: what goes
wrong with them is in `missed`, and `ClearedMeansAccounted` follows from
`Fetched` at the one step that writes the table. `bert_host` shows that `missed`
cannot be left out of it.

*NvParm.* A cell that a running command has erased is its own to make whole
(`Owned`); a block that was read to be written back is counted on (`Held`). The
invariant says of an uncrossed command that its `Owned` cells are torn, blank or
already written as far as it has come, and that its copy of the block is what
the command is to make of it (`Knows`); that no two uncrossed commands own what
the other counts on (`Exclusive`); and that what is not torn is what the store
holds (`Untorn`). Each action then maps to `Tear`, `Commit`, `Leave` or a stutter.

*FlashUtils.* The invariants are about the loops: which cells of `back` have been
read, or that the read was cut, at every offset, for any page size that divides
the EEPROM. `Undisturbed` says how much of the file is in the EEPROM at every
step of an invocation in which nothing failed; it rests on `LandsInPlace`: a page
of the tool that divides the EEPROM's never rolls over.

*CpldUpdate.* Two accounts of an update are kept side by side. `Heads` is about
what the verification sees: up to row `i` the pointer stands at `i` and the first
words are the file's, provided that nothing went wrong in the reading; it says
nothing of how they came to be there. `Stores` is about an update in which
nothing fails unnoticed (`Trusted`: over I2C, or when nothing failed): the rows
before `i` are the file's and those from `i` on are blank, which is why an update
must erase before it programs whatever earlier invocations left. `Healed` says
that the only ways not to end in PASS are the named ones. For
these the parser is a black box: nothing is needed of it but that the sections
it returns fit the flash (`CpldAssumption`).

What the library computes is proved by induction over the lines of a file or the
rows of a device. A sum and a pass over a file are recursive functions over
`0..n` (`LineByLine`); `LoopExists` shows that the function an `IF`-recursion
describes exists, and `Induction` proves a statement about its every value, both
from the library's well-foundedness of the naturals, with sets in the place of
predicates. `ChecksumTells` then follows from `SumRows` depending on the rows
alone. `BuffersFit` says that two loops written separately, one that counts lines
and one that stores them, agree; the induction carries, after every line, how
the state of the one stands to that of the other (`Abreast`). They do not agree on
every file. `Orderly` is what it takes: each section is ended before the next one
opens, the notes (feature row, user code, checksum) come after the sections, and
the only digits after a note are those of the feature row. A file from the
vendor's tool is of this form; nothing in the code checks that a file is.

*RasLine.* The entries are computed from a line in one step, so what is to be
proved is that cutting the text up again undoes `TextOf`, digit by digit: that
reversing the bytes is its own inverse, that a half of the data whose first digit
is not zero survives `StripZeros`, and that the two bytes of a number divide it.
`Value` is a recursive function, and the lines have numbers of up to seven digits;
the lemmas about it give that function explicitly, one place for each digit. The
errors are any of the two record sets, where the run has a few hundred of them.

*TrstWa.* With the types, `PulseIsWhole` is all that is needed: in an invocation
in which nothing has failed, a pulse that is about to end has pulled TRST low.
The waits may be of any length, and the power may come and go any number of times.

Only model-checked, because TLAPS has no rules for fairness here:
`LimitEnforced`, `LimitReleased` and the liveness of `LimitSpec` (its safety is
`ImplementsLimit`), `EventuallyRead`, `EventuallyUnmasked`, `ShownCatchesUp` and
`WaitingIsTaken`. Every invariant and every action property of the passing runs
is a theorem.

## Not modelled

* Formatting of log entries, and the D-Bus helpers without state: their failures
  are outcomes of the actions that call them.
* The words of `internalErrors.hpp` and `mapOfOccur`: only whether there are any
  for a code or type.
* Of flash-utils, `-f` without `-p`, which reads the file and does nothing, and
  the one-byte addressing of the 24C02. Of nvparm, the two representations of a
  value and its CRC16: an entry is a cell.
* Of the CPLD tools, the transfers of the ANLOGIC library, none of which can
  succeed because nothing opens its device; the bits of the JTAG driver.
* `power_manager.cpp` and the `main` functions: straight-line start-up.
* state-logger, ampere-cpu-present, nmi-manager: no state after start.
* The host firmware, the script, libspinorfs, sd-event and systemd are external
  and appear as their outcomes.

## Plan

The modules, runs and proofs planned are in place. What could be added is what
the programs leave to others: the order in which the SMpro driver writes the
halves of the data of an internal error, and the rows an LCMXO3D reads by the
address its checksum gives over JTAG. Both are open in the models because the
repository does not settle them.
