# A TLA+ model of the Amlogic Bluetooth vendor library

The library (`src/aml_libbt-vendor`) is what an Android Bluetooth stack loads to
power up, configure and power down an Amlogic W1, W1U, W2 or W2L chip. The stack
calls `init`, `op` and `cleanup`; the library calls back with `fwcfg_cb`,
`alloc`, `dealloc` and `xmit_cb`. There is no written specification and no test
in the repository: the modules here are read from the code, and the properties
from what its callers rely on and what its comments say.

## The system

| component | code | state | operations | what makes it correct |
|---|---|---|---|---|
| firmware configuration | `hardware.c` | `hw_cfg_cb`, `cnt`, image sizes and cursors, `p_iccm_buf`, `p_dccm_buf`, `amlbt_manf_cnt` | `hw_config_start`, `hw_config_quick_start`, `hw_config_cback` with 14 handlers | each request is answered once; the CPU starts on a whole image; buffers and memory have one owner |
| 15.4 frames to the chip | `hardware.c` `aml_15p4_tx` | `hw_cfg_cb` again | called by the 15.4 thread | does not disturb a configuration |
| 15.4 socket server (W2L) | `vendor_common.c` 1032-1241 | `sessionSocket`, `exit_thread`, thread handle, descriptors | accept, close command, chip function, frame | one server; owns what it closes; POWER_OFF returns |
| UART speed negotiation | `vendor_common.c` `aml_uart_init` | `retry`, `retry_cnt`, both ends' speed, power | write, read, power cycle | success: same speed at both ends; failure: back to the start |
| HCI transport | `vendor_common.c` 240-745 | `count`, `retry_cnt`, the byte stream | `do_write`, `read_hci_event`, `aml_hci_send_cmd`, `hci_write_cmd`, `hci_read_event` | framing; the answer belongs to the command; calls return |
| vendor operations | `interface_uart/*.c`, `interface_usb/*.c` | power pin, driver, files, speeds, `w1_bt_power`, `bt_recovery` | POWER_CTRL, USERIAL_OPEN, USERIAL_CLOSE, FW_CFG, LPM_SET_MODE | no file is lost or used after close; a session leaves no trace; power is cut when and only when it should be |
| driver loading | `vendor_common.c` 82-236 | the stream of `/proc/modules`, tries, the kernel's modules | `driver_check`, `insmod`, `rmmod`, from POWER_CTRL | results that are true of the modules; an end |
| UART port, power pin | `userial_vendor.c`, `upio.c` | `vnd_userial`, rfkill state, `upio_state` | open, close, `set_bluetooth_power`, `power_get`, `upio_set` | |
| entry and chip detection | `bt_vendor_aml.c`, `libbt.c` | `bt_vendor_cbacks`, `amlbt_transtype`, `libbt_interface`, `upio_state` | `init`, `op`, `cleanup`, LPM_SET_MODE, LPM_WAKE_SET_STATE, EPILOG | `op` has the table of the chip that is there; each EPILOG is answered; the pins' nodes follow |
| configuration file | `conf.c`, `config/aml_bt.conf` | `w1u_manf_data`, `APCF_config_manf_data`, `amlbt_manf_cnt`, `amlbt_manf_para`, ... | `load_aml_stack_conf` and its splitters; `hw_cfg_set_waveform_data`, `hw_cfg_set_bd_addr`, `hw_cfg_set_wakeup_params` send what it loaded | the controller gets the rows or records of the file, whole and counted |

How they interact: `op` dispatches to the operations of one chip, chosen once by
`libbt.c`. USERIAL_OPEN runs the speed negotiation and gives the stack a
descriptor. FW_CFG sends a first command through `xmit_cb`; from then on the
stack's HCI thread calls `hw_config_cback` for each command complete event, and
the handler of `hw_cfg_cb.state` sends the next command. USERIAL_CLOSE looks at
`hw_cfg_cb.state` to decide whether to reset the controller, by
`aml_hci_send_cmd`. On W2L, POWER_CTRL also starts and joins the 15.4 thread,
which sends HCI commands of its own and shares `hw_cfg_cb`, `sessionSocket` and
the process's descriptors with the HCI thread.

What is hard in it: one state variable written by two threads; cursors and
buffers in globals that survive aborted configurations; results of `xmit_cb` and
of the power pin that nobody looks at; retries against late answers; a join that
waits for a thread that a client can hold; descriptors reused while another
thread holds their number. `PROJECT.json` lists these hazards at their lines with
the properties that cover them, and say where the code does go wrong and a property
names the case as its exception.

## The modules

| module | models | runs |
|---|---|---|
| `FwCfg` | the abstract promise of FW_CFG: at most one answer to a request, none unasked, none after `cleanup()`; the library may fall mute and then stays mute | property `ImplementsFwCfg` of `fw_cfg` |
| `HwConfig` | `hardware.c`'s configuration state machine, for all chips | through `HwConfigCoex` |
| `HwConfigCoex` (`MCHwConfigCoex`) | `HwConfig` composed with `aml_15p4_tx` | `fw_cfg`, `fw_cfg_coex_states` |
| `HwConfigProofs` | TLAPS proofs about `HwConfig` and, in its second part, about the composition, the refinement of `FwCfg` among them | |
| `Coex15p4` | the 15.4 server thread, its clients and POWER_CTRL | `coex15p4` |
| `Coex15p4Proofs` | TLAPS proofs about `Coex15p4` | |
| `LineSpeed` | the abstract promise of `aml_uart_init`: the three ways it ends, that it ends, and what may still change afterwards | property `ImplementsLineSpeed` of `uart_init`; instantiated by `VendorOps` |
| `UartInit` | `aml_uart_init` against a controller and a line with faults | `uart_init`, `uart_noise` |
| `UartInitProofs` | TLAPS proofs about `UartInit` and the steps of its refinement of `LineSpeed` | |
| `HciTransport` | the readers and callers of HCI events over a byte stream | `hci_transport`, `hci_transport_waits` |
| `HciTransportProofs` | TLAPS proofs about `HciTransport` | |
| `LibEntry` (`MCLibEntry`) | chip detection, dispatch, low-power pins and epilog | `lib_entry`, `lib_entry_table` |
| `LibEntryProofs` | TLAPS proofs about `LibEntry` | |
| `VendorOps` | all operations of all chips over several sessions, crashes and daemons | `vendor_ops` |
| `VendorOpsProofs` | TLAPS proofs about `VendorOps` | |
| `DriverLoad` | `driver_check`, `insmod` and `rmmod` beside a Wi-Fi service | `driver_load` |
| `DriverLoadProofs` | TLAPS proofs about `DriverLoad` | |
| `ManfConf` (`MCManfConf`) | the wake-up data, from the configuration file to the bytes of the command | `wake_data` |
| `ManfConfProofs` | TLAPS proofs about `ManfConf` | |

In every module a definition that nothing uses and that stands before the action or
helper it resembles (`AbortLeaks`, `SentEarly`, `GivesUpEarly`, `AnyNumber`...) is a
plausible bug. Put in place of the original it breaks the property that
`PROJECT.json` names, which shows that the property can fail.

### HwConfig

A variable is a global of `hardware.c`, or the stack's or controller's side of
it. A step is one call into the library, or one answer of the controller.
`HwConfigCback` dispatches on `state` as `hw_config_func[]` does, to one action
per handler; the three ends of `hw_config_cback` are `Advance` (send), `Succeed`
and `Abort`. `HwConfigStart` and `HwConfigQuickStart` are the two forms of
FW_CFG. `alloc`, `xmit_cb`, `malloc`, `open` and `read` may fail wherever they
are called, events may carry an error, `cleanup()` may come with a command in
flight. Firmware bytes are their offsets, so that what the controller holds is a
set of offsets (`ctl`), and contiguity and completeness are set equations.

`HwConfig` is finer than `FwCfg`: the mapping derives `phase` from `cbacks`,
`waiting` and whether anything is in flight. An xmit that fails, or a request on
W1U that ends because its node cannot be opened, maps to `FallMute`.

State 0 (`TEST_WRITE`) is both idle and the first step of a download, as in the
code. A NULL or freed image pointer that is dereferenced is recorded in `fault`;
a NULL dereference ends the process, which `Restart` brings back.

Instance (`MCHwConfigCoex`, which adds the 15.4 frames): all eight chips, one byte of
ROM, chunks of two bytes, images of 1 to 7 bytes (nothing to download, one or several
chunks, a full and a partial last chunk, an invalid header, an image that is too large),
zero to two wake-up records, two requests. Two requests are needed, and enough, for what
a first configuration leaves to a second one; two chunks and a rest for the loops. The
number of 15.4 frames is not bounded. Fairness: the controller answers what it is sent
and the stack delivers the answer, without which no FW_CFG could end.

### HwConfigCoex

Adds `Tx15p4`, which resets `hw_cfg_cb` at any moment and as often as it likes. A call in
the middle of a handler has the effect of one before or after it, because each handler
reads `state` in the dispatch and writes it at its end. The frame's own answer goes to
`aml_15p4_data_cb` (`Coex15p4`).

The run `fw_cfg_coex_states` finds that a frame during FW_CFG puts a W2L
configuration into the download handlers, which the comments of the state table
keep for other chips. `fw_cfg` shows how far it goes: it checks all properties of
`HwConfig` with the frames in, so that no request is answered twice, no buffer is lost,
and a configuration that was spoiled is not reported as done. That a request is answered
at all is another matter: each frame sends the configuration back to `TEST_WRITE`, and
one before every event keeps it there for ever, although the controller answers every
command and the library sends the next. `BusyEnds` says that this is the only way not to
end: a request is answered, or falls mute, or frames come again and again without end.

### Coex15p4

The server's steps are the stretches between two calls that may block. The
descriptor table is part of the state, so that a number that was closed and given
to another file is seen. A client may send the close command, a query, a frame,
a header without its body, part of a header, or hang up.

* `error_fd` is left out: UNIX sockets have no out-of-band data.
* `aml_15p4_data_cb` is left out. On the HCI thread it sends the controller's answer to
  whatever `sessionSocket` names and changes nothing. It does not know who asked: when a
  client has taken the place of another, it gets the answer to the other's frame. No
  property is stated about it, because while the one that asked is still the session
  `NoDescriptorLeaks` leaves nobody else to answer to.
* The body of a frame for a chip without 15.4 stays in the stream, and so does the
  end of a body that comes in parts, because `recv` takes what there is. The server
  reads on inside of it: `Misread` is what it may then find in the next five bytes,
  from nothing over "less than five" and "no header" to any message by chance.
  When it is less than five, the server waits for the end of a header that no
  client has begun (`Misled`), and a POWER_OFF waits with it, as long as the client
  stays and sends nothing.
* `done` leaves `sessionSocket` as it is. A later server then selects on a number
  that is closed, or closes a file that is not its own. `SessionIsOpen`
  holds as long as no server ended with a session (`staleExit`).
* A client that hangs up inside a header leaves the thread spinning (`pc` is
  "spin"); `PowerOffReturns` and `ClientsAreServed` name this exception and `Misled`.
* POWER_OFF may join a thread that was joined before, which ends in nothing or in
  the end of the process (`Restart`).

Instance: two clients, three power cycles, four descriptors. Two clients are enough to close the session
of one by the accept of another and to reuse its number.

Fairness: the scheduler runs the server and the joining thread; a client that has
begun a header finishes it or hangs up. Nothing is assumed of clients otherwise.

### UartInit and LineSpeed

The controller may be off, booting or ready, at either speed, and may answer,
refuse or lose a command; other events and noise come in between, and writes to
the port and to the power pin fail. Answers carry the power cycle they belong to, so
that a late one is recognised. The number of calls is not bounded: one call depends on
the one before it only through what it leaves behind.

The line is a sequence of whole events and of bytes out of frame: noise, the rest of an
answer that was torn, the rest of an event of which `hci_read_event` has given up the
beginning. Of a byte it matters whether it is 0x04 ("type"), which is taken for the
beginning of an event, or not ("byte"). `hci_read_event` is the five actions of `Read`,
one for each way it comes back with something or an error:

* `ReadEvent`: a whole event. Its end may come late, within the retries.
* `ReadCutOff`: the rest of the last event does not come in time. The read fails in the
  header or in the parameters; what it has is compared all the same; what comes later
  stays on the line as bytes.
* `ReadByte`: a first byte that is no type is consumed alone, and the read fails.
* `ReadMisframed`: behind a 0x04 out of frame a header and parameters are made of
  whatever follows. It may end inside an event, whose rest stays.
* `ReadFails`: `read` returns an error.

Nothing flushes the line between attempts, so that each byte that is left can spend an
attempt of its own. `losses` counts what has gone wrong by the attempts it can cost: a
lost command, a late or torn answer, a failed call, an event or a byte in between each
count one, and every byte that a fault leaves on the line counts one more. It counts up
to `MaxLosses` (2) and stands for more after that; one fault leaves `MaxBytes` (2) bytes
at most. Two of each are enough because the property speaks of two losses.

`SpeedsAgree` says what the code relies on with its two exceptions, which
`Mistaken` defines: the status byte of the answer is not compared, and the line is
not flushed between attempts. `OneLossIsAbsorbed` is what the three attempts are for: a
controller left at the wrong speed or without power, and one loss. It is no more than
that, because a single burst of three bytes fails all three. The run `uart_noise` shows
why: the comment in `hci_read_event` says that it reads until it gets to the 0x04, but it
returns at the first byte that is another. The reads of an attempt are 2 instead of
`MAX_READ_EVENT_CNT / 2`: between one read and several lies the whole difference.

`LineSpeed` is what the callers may count on. A call ends in one of three ways:
both ends are at 4 MBaud; the host was mistaken; or everything is back at 115200
with the power on, unless the pin failed. After it, nothing changes but the speed
of a controller that the last attempt did not reset and that still has the command
(`Late`). `ImplementsLineSpeed` checks that `UartInit` does nothing else, including
that each call ends. Fairness: `SF(Sent)` because a failed write is repeated
without being counted, so that the call returns only if writing does not fail for
ever; `WF(Attempt)` because the thread runs.

### HciTransport

Three readers: `read_hci_event` on a tty ("tty") and on a driver's node
("node"), and `hci_read_event` on a tty ("init"). The stream is made of real
bytes, as framing depends on them: the length of most answers is 4, which is also
the byte that begins an event. Parameters of 4 and other values occur. The stack
may have left one command unanswered before.

`AnswersLag` states what `aml_hci_send_cmd` gives instead of matching opcodes: an
answer is not older than the number of calls that went without one. The run
`hci_transport_waits` shows that on a tty it does not wait at all: the tty is
opened `O_NONBLOCK` and `read_hci_event` takes EAGAIN for an error, against its
own tries and comments. The tries are 2 instead of 100 and 10, the events per
call 2 instead of 40 and 20. Fairness: the calling thread runs.

### VendorOps

One operation is one step, with every file, ioctl and pin in it free to fail.
`aml_uart_init` is an instance of `LineSpeed` (`Line`): `Negotiate` takes one of its
three ends and `LateChange` is its `Late`, so that what is shown here follows from what
`UartInit` implements. FW_CFG appears by whether `hw_cfg_cb.state` is 0 (`cfg`) and by
what it does to the files: `FwDownloaded` is the end of a download on W1U over SDIO,
which opens the Bluetooth node into `bt_sdio_fd` without looking at what that names.
`asked` and `repeats` count the FW_CFGs of a session after the first. Between
operations the 15.4 daemons come and go, the user may ask for a shutdown, and the
process may die: its files are closed, the pin, the driver and the controller stay.

Several properties hold with exceptions that are the code's own, and name them:
W2L loses its tty's descriptor when a daemon is there at a close and not at the
open before or after it, and W1U over SDIO loses a node with each FW_CFG that is repeated
within a session (`FilesAccounted`, which counts that no more than these are lost); W1 takes a loaded driver for a chip
that runs at 4 MBaud (`SpeedsMatch`); the USB chips do not reset before
LPM_SET_MODE, no chip resets when a configuration was cut off, and none can be
reached after a mistaken negotiation or a failing pin (`SessionEndsReset`).

`pinFailed` says of the last operation on the pin whether one of its writes failed.

Instance: the eight chips of `libbt.c` (`Interfaces`), three sessions, two repeated
FW_CFGs (`MaxRepeats`), six descriptors. Three sessions let a crash or a lost descriptor
of the first meet the next two. Descriptors are the numbers `1 .. MaxFd`. `OpsAssumption`
asks for more of them than sessions and repeated FW_CFGs together, because each of these
may lose one and a session needs two at most, of which one may be its own loss; a process
that has run out of them is not modelled.

### LibEntry

`VendorInit` is `init()`: the mode of the configuration file, the property, the two
buses, the table. A scan takes any device that is plugged in, none (its directory may
not open), or the empty chip, when a device goes away between the file of its vendor and
that of its product. `LoadConf` allows both modes: the file gives one, or leaves that of
before if it or its line is missing. A device stands for the chip its ids spell, so that
ids with an unknown interface or a family without a table occur too. `seen` is what the
buses and the property have shown to this process; it has no counterpart in the code.

`UpioSet` records the state of a pin before it writes the node, as the code does.
The nodes outlive the process and `upio_state` does not, which is why `upio_init`
must not assume anything (`LastWritten`). `resets` counts the HCI_RESETs of epilogs that
are on their way: the answer to one that the stack has given up may end the next. The
buffers of the stack are left out.

The run `lib_entry_table` shows that `init()` succeeds when no chip was found,
though `amlbt_interface_init` has a branch for that case.

`EpilogEnds` says that an EPILOG whose command was sent is answered, also by a
library without a table and after an epilog that the stack has given up. One whose
command was not sent is never answered: `hw_epilog_process` ignores the result of
`xmit_cb`, and only the stack's own timer (`GiveUp`) ends it. Fairness:
`WF(EpilogCback)`, a command that was sent is answered and delivered.

Instance: two ids for each bus and one name, with one chip on each bus that has a
table and one that has not, and two resets on their way (`MaxResets`): one of the epilog
that waits and one of an epilog before it. No other bound is needed.

### DriverLoad

POWER_ON calls `driver_check("sdio_bt", 20)` on W1 and `rmmod("wifi_comm", 100)` on
the others, and then loads two modules with `insmod(..., 200)`. A step is a system
call or a sleep of 20 ms with what follows it, so that the Wi-Fi service can load,
use and unload modules between any two; the kernel may refuse, and `/proc/modules`
may not open. Reading the list is one step. The modules are those the calls name,
as "wifi", "comm" and "bt"; the service and `insmod` may both load "comm".

`driver_check` is a loop around a stream that it opens once: when `fgets` has
returned NULL, the stream is at its end and stays there, so that the further rounds
see nothing (`eof`, `Sees`). `CheckIsFirstLook` says so of its answer, and of that of
`insmod`, whose 200 ms wait for a driver that comes up are spent in vain.
`ResultsAreTrue` and `FailsForAReason` say what the results mean all the same.
`driver_check(m, 20)` of `rmmod` has one round, and its tries are counted apart from
`ret`; a result of -1 may be that of an earlier try.

Instance: 1, 5 and 10 sleeps, as in the code. Fairness: the thread of `op` runs
(`WF(Step)`); nothing is assumed of the service.

### ManfConf

`load_aml_stack_conf` reads ManfData (records of 6 bytes, for the chips that send
them one by one), W1UManfData (up to 16 rows, the first byte of each being its
length) and Manfcnt (the rows that are wanted). A line is a sequence of rows of
bytes, which is what two digits for each byte and one blank between rows spell; the
two splitters are `W1uManfDataSplit` and `ManfDataSplit`. Neither array is cleared
before a load, a row that is too long goes on in the place of the next one, and what
a shorter line does not overwrite stays. `SetWaveformData` and `SendRecord` are the
handlers that build the command from them. Which handler runs when is `HwConfig`'s;
here a configuration may start, and start again, at any time.

`RowsArrive` and `RecordsOfLine` say that what is sent is what the last file asks
for, whatever was there before, and `LengthIsTrue` that the length byte, 1 and 16
bytes at most for each row, holds the length, unless all 16 rows are selected and
full: then it is 0 or 1. Rows that lie about their own length are in the
instance; the properties do not speak of them.

Instance: the sizes of the code (256, 16, 16, 256, 6), eight values of W1UManfData,
four of ManfData and six of Manfcnt, each chosen for a case that `MCManfConf` names.

## The runs

| run | question | result |
|---|---|---|
| `fw_cfg` | does the configuration keep its promises whatever fails, and whatever 15.4 frames come in between? | 11 properties hold, `ImplementsFwCfg` among them |
| `fw_cfg_coex_states` | is a W2L chip configured by its own states only? | no (finding) |
| `coex15p4` | is the server safe with its descriptors, and does it end and serve? | 5 properties hold |
| `uart_init` | what do success and failure of the negotiation mean, and is that all its callers see? | 4 properties hold, `ImplementsLineSpeed` among them |
| `uart_noise` | does a read go on until it gets to an event? | no (finding) |
| `hci_transport` | do events and answers stay in order? | 3 properties hold |
| `hci_transport_waits` | does a command wait for its event? | not on a tty (finding) |
| `lib_entry` | is the table that of a chip that is there, the record of the pins true, and each epilog that was sent answered? | 3 properties hold |
| `lib_entry_table` | does a successful `init()` leave a table? | no (finding) |
| `vendor_ops` | files, speeds, resets and power over sessions | 6 properties hold |
| `driver_load` | are the results of loading and unloading true, and what is the waiting worth? | 4 properties hold; waiting is worth nothing |
| `wake_data` | does the controller get the wake-up data of the file? | 3 properties hold, with the exception of 16 full rows |

Each module states its `TypeOK`. Only that of `HwConfig` is among the properties of a
run: those of the others say less than the properties beside them, and are there
for proofs to start from.

`CHECK_DEADLOCK FALSE` is said where sessions, cycles or commands are bounded and
the system may simply be finished; `fw_cfg`, `uart_init`, `driver_load`, `wake_data` and
`lib_entry` check for deadlock. Every bound is a CONSTANT and is named in the
module.

## What is proved

Every safety invariant and every action property that a passing run checks is a theorem,
and so is the type correctness of each component. The theorems hold for all values of
the constants that the assumption of the module allows, which is named in each case; the
runs check them at the bounds above, and checked the inductive invariants before they
were proved. `PROJECT.json` lists the theorems with the properties they state.

### The download (the first part of `HwConfigProofs`, from `ConstantsAssumption`)

For every chip set, image size, ROM size, chunk size, allocation limit and number
of requests:

* `TypeCorrect`: `TypeOK` is an invariant.
* `DownloadCorrect`: `DownloadInv`, the inductive invariant, is one. It is no
  property of a run, because the run has the 15.4 frames in, which break it on the
  W2L chips (they set the state of a download beside no download); the theorem is
  about `HwConfig` without them. It is needed
  because neither the order of the images nor the start of the CPU is inductive:
  which bytes the controller holds follows from the state and the cursors only if
  one also knows that there is one command at a time (`OneCommand`), that none is
  left when the library is idle (`IdleIsQuiet`), that cursors and remaining
  lengths add up to the sizes (`CursorsSum`), and what a chunk in flight carries
  (`IccmFlight`, `DccmFlight`). `CtlMatchesState` is the heart of it.
* `CpuSafe`, `DownloadOrder`, `ChunksFresh`, `CommandDiscipline`: consequences.

The proof has one lemma for each kind of step: the two chunk handlers
(`IccmStep`, `DccmStep`), the controller's reply (`ReplyStep`), the start of a
request (`StartStep`), and all steps that do not touch the download
(`OtherStep`, `QuietStep`); `DownloadNext` puts them together.

### The whole configuration (the second part of `HwConfigProofs`, from `ConstantsAssumption`)

These are about `CoexSpec`, so with 15.4 frames at any moment.

* `AnsweredAsPromised`: `CoexSpec` implements `FwCfg`. Its step theorem needs only
  `StackInv` (one command at a time, none when idle, only a registered stack
  waits): every handler comes to one of the three ends of `hw_config_cback`
  (`HandlersEnd`), and each end is a step of `FwCfg` or a stutter.
* `BuffersAreAccounted`: the same three ends, counted in buffers.
* `HeapIsSafe`: with `ImagesInv` (chips that are not downloaded have no image) and
  `HeapInv` (both images are live from the first chunk to the last, in a process
  that was never refused memory).
* `SuccessIsConfigured` and `RecordsAreComplete`: success says something of the whole
  configuration, while each handler knows only its own state. `ConfigInv` is what
  connects them: which operations the controller has been given when a state is reached
  (`DownloadingInv`, `WakingInv`), the one in flight included (`Given`), and that `cnt` is
  the number of records sent. A frame puts a W2L chip into the states of a download;
  these claims are stated so that they survive it.
* `SilenceIsW1U`: needs `ConfigInv` as well, to know which chip is in which handler.

`CoexInv` is the conjunction; each part is kept by itself and those before it.

### Negotiation (`UartInitProofs`, from `UartAssumption`)

* `Typed`, `SuccessMeansFast`, `FailureMeansReset`: by `TypeInv` and `LineInv`. The
  results are not inductive because an answer is consumed later than the controller gave
  it. `ControllerInv` says what an answer on the line means (`Consent`: it is of this
  power cycle or an older one, and in the first case the controller is fast), `CycleInv`
  what the power cycle between attempts has done.
* `TwoLossesToFail` assumes `Attempts >= 3` and a count that reaches two; the code makes
  three attempts. A loss may be paid in one attempt and be felt in a later one: what it
  leaves on the line stays there. `LossInv` therefore counts what is on the line and would
  not be accepted (`Bad`) together with the attempts that have failed: every attempt but
  one has been paid for, and so has each event or byte that can spoil the next. The one
  that is free is the attempt at a controller at the wrong speed or without power, which
  the power cycle puts right: if the controller is deaf again (`Deaf`) and nothing is left
  on the line, that attempt has been paid for as well. Torn and misframed events have to be counted piece by piece, which
  makes this the longest proof of the module.
* `LineSpeedSteps`: initial states and steps of `UartInit` are those of `LineSpeed`.

### Sessions (`VendorOpsProofs`, from `OpsAssumption`)

`Typed`, `FilesAreAccounted`, `NoDescriptorIsStale`, `SpeedsAreMatched`,
`SessionsEndReset`, `PowerIsAlwaysCut`, `WakingIsSafe`. `OpsInv` adds to the types
that W2L loses no more descriptors than sessions have ended (`KeptInv`), that a node that
W1U is still to lose has been counted with the FW_CFG that will lose it (`NodeInv`), that
`userial_vendor.c` keeps the tty under two names that agree, and the Bluetooth
node is closed with its session (`PortInv`), and what W1 may conclude from a driver that is
loaded (`SpeedInv`). `FilesAccounted` counts, so its proof rests on the
cardinalities of `FiniteSetTheorems`.

### The 15.4 server (`Coex15p4Proofs`, from `CoexAssumption`)

`Typed`, `SessionNumberIsTrue`, `ThreadLeavesNothing`, `ServersDoNotOverlap`, for any
set of peers, descriptors and cycles. `CoexInv` has two directions. `FilesInv` goes from files to numbers: an open connection is always that
of `sessionSocket`, and so for the other two files; this holds even after a server has
ended with a session. `OwnInv` goes from numbers to files: a number that the server
keeps names the file it was given for; this is lost by such an end, and only then. `ThreadLeavesNothing` uses the first direction only,
so that it needs no exception for `staleExit`.

### HCI transport (`HciTransportProofs`, from `TransportAssumption`)

`Typed`, `ReadersKeepFraming`, `AnswersAreCounted`, for any numbers of reads, tries,
calls and events. `FramingInv` says that the stream is a sequence of whole
events, `ReaderInv` and `CountInv` where in one of them the reader stands.
`AnswersLag` speaks of an answer taken, and follows from `LagInv`, which says of all
answers still to be read or sent that they are not older than the calls that failed
allow: each call either takes an answer, and the answers come in the order of the
commands (`OrderInv`), or adds one to `failures`.

### Drivers (`DriverLoadProofs`, from `TimeAssumption`)

`ResultsHoldTrue`, `FirstLookDecides`, `FailuresHaveReasons`, for all timeouts and all
the service does. A call knows of the modules only what has happened since it began
(`KernelInv`), and `LookInv` says what a stream that has come to its end has shown: that
the first look found nothing, and the module was away then. `Typed` is about the two
counters (`CountInv`): each try of rmmod sets one of them anew and decrements the other,
in one of two places, and neither falls below 0.

### Entry (`LibEntryProofs`, from `EntryAssumption`)

* `ServesAShownChip`: `TableOfChip` is an invariant. It is not inductive: that no
  chip is put together from two follows only with what `EntryInv` adds, that what
  is remembered between sessions was shown or is empty, and that there is no table
  outside a session.
* `RecordIsTrue`: `LastWritten` is an invariant, which is inductive together with
  the types of the three variables it reads (`PinTypes`).
* `Typed`: that `transtype` is a chip at all rests on `EntryInv`.

### Wake-up data (`ManfConfProofs`, from `LinesAssumption` and `SizesAssumption`)

`Typed`, `RowsAreThoseOfTheFile`, `LengthByteIsTrue` and `RecordsAreThoseOfTheFile`, for all
lines, masks and sizes that the assumptions admit: lines are sequences of rows of bytes that
stay inside the table, which itself fits the buffer and is no larger than a byte can
count. `ManfInv` has a part for each of the two ways of sending.

* Rows: by `RowInv` each row of a line of proper rows is found in its place in the
  table. It holds because what an earlier file has left is either overwritten or not
  looked at, and because proper rows do not reach into each other (`SplitHolds`). The
  handler is a loop over the table. Its invariant is `Gathering(n)`: what is gathered
  from the first n rows is what is asked for among them, the buffer has not run out, and
  a row that was left out has left its room. `LengthByteIsTrue` rests on that room: the
  length wraps only if no row was left out.
* Records: by `RecordInv` the line is at the beginning of the buffer, and what has been
  sent and what is left are whole records, together no more than the line has.

The loop is a recursive function over the rows (`Rounds`), and so is what the property
compares it with (`Asked`). The induction theorems of the library take an operator as a
parameter, which the provers cannot instantiate. The module proves what it needs for
sets in its place, from the least element of a set of numbers (`WFMin`): `Induction`,
and `Recursion`, that a function given by its first value and its steps exists.

### What is only model-checked

* Liveness: `BusyEnds`, `PowerOffReturns`, `ClientsAreServed`, `CallsEnd`, `EpilogEnds`,
  `PowerOnEnds`, and in `ImplementsLineSpeed` that calls end. It rests on fairness and
  ENABLED, which the prover does not reason about.
* The four runs that find a violation: their counterexamples are behaviours, not theorems.

## What is not modelled

The lines of the configuration file other than the mode and the wake-up data, each
of which is a number copied to a variable, and `vnd_load_conf`; the unused `_poll`
readers;
register dumps (`iwpriv_utility.c`, whose register read returns 0); the stubs of
`sysbridge.cpp` and the constructor of `FallthroughBTA.cpp`; code that is
compiled out (SCO, the BT_WAKE timer); generated firmware; prebuilt tools and
daemons; build files. Threads below the callbacks are not modelled: a callback is
one step, except in `Coex15p4` where the code itself has the threads. Three hazards
have no property: `hw_config_cback` checks `bt_vendor_cbacks` and uses it
later, while `cleanup` on another thread sets it to NULL (`hardware.c` 1460);
`aml_15p4_data_cb` answers the client that is there, not the one that asked
(`vendor_common.c` 1047), as described above; and `hw_lpm_enable` gives its buffer back on SDIO and PCIE only (`hardware.c` 1951),
which its one condition says by itself.

## Plan

1. Done: `FwCfg`, `HwConfig`, `HwConfigCoex`, `Coex15p4`, `LineSpeed`,
   `UartInit`, `HciTransport`, `VendorOps`, `LibEntry`, `DriverLoad`, `ManfConf`, and
   their runs.
2. Done: the safety properties of all of them as theorems; the refinement of `FwCfg`;
   the steps of the refinement of `LineSpeed`.
3. Left: `VendorOps` takes `Negotiate` and `LateChange` from `LineSpeed`; that each of
   its steps is one of `LineSpeed`'s, with the power cut by POWER_OFF in between, could
   be stated and proved.
