# Formal models of supvan-cups

TLA+ models, model-checking runs and machine-checked proofs for the Rust
workspace in this repository: a printer application that serves IPP and drives
Supvan/Katasymbol label printers over USB HID, Bluetooth RFCOMM or BLE. Every
definition follows the Rust source; what lies outside it (the printer's
firmware, the IPP framework, D-Bus, the kernel) is modelled from how the source
uses it, and marked external in `PROJECT.json`.

## 1. The system

A page goes through the system like this:

    IPP client -> framework (external) -> print_job -> KsJob -> dither/bitmap/buffer/compress
                                              |                         |
                                          open_uri ---> KsDevice --> Printer::print_compressed
                                              |                         |
                          status poller, media change, identify --> Transport: hidraw | RFCOMM | BLE

| component | state it keeps | operations | what makes it hard | what makes it correct |
|---|---|---|---|---|
| Page print protocol (`supvan-proto/printer.rs`, `speed.rs`) | none across calls: the state is the position in one call, and the printer's | `print_compressed`, `transfer_compressed`, `wait_*`, `stop_print` | the printer is seen through polled registers that lag behind; replies get lost; a failed call leaves the page running; speed decides whether a split page starves | no block overruns the page buffer; Ok only for a page on its label; a retry never prints into an earlier page; the call returns |
| Device access (`supvan-app/device.rs`, `printer_device.rs`) | `bt_cache`, `ble_cache`, the async mutex of each cached printer, `printing` of each `KsDevice` | `open_supvan`, `open_bt`, `dial_and_cache`, `with_printer`, `status`, `material`, `provision` | four kinds of tasks share one socket and one map, with awaits between look-up, check, eviction, dial and insert; links die at any point | exclusive use of a socket; an open call ends; a dead socket is replaced; polls stay out of a transfer |
| Material record (`ipp_server.rs`, `rfid.rs`, `printer.rs`) | `roll_cache`; the printer's record | `apply_media`, `set_rfid_data`, `provision_material`, `poll_status` | the printer commits late and may serve a half-updated record; the poller compares concurrently | a confirmation means the new record; a tag is never written over; the cache converges; no false swap report |
| Job pipeline (`job.rs`, `ipp_job.rs`, `ipp_server.rs`) | `KsJob`: page buffer, ditherer, copies; the job's state in the framework | `print_job`, `run_cups_raster_job`, `run_jpeg_job`, `start`, `write_line`, `end_page`, `transfer_page`, `end` | buffers outlive pages, errors are classified after the fact, held jobs start again | labels in order and whole; Completed means every copy; hold what can be cleared, end what cannot |
| Raster preparation (`dither.rs`, `bitmap.rs`, `buffer.rs`, `compress.rs`, `twocolor.rs`) | the ditherer's error rows | `Ditherer::line`, `raster_to_printer_format`, `split_into_buffers`, packing | boundary arithmetic in u8 and u16 | ink lands where it was drawn; buffers tile the page and bands; packing loses no buffer; packets hold their block |
| Command links (`transport.rs`, `cmd.rs`, `data.rs`, `usb_transport.rs`, `hidraw.rs`, `spp_pipe.rs`, `rfcomm.rs`, `ble.rs`) | receive buffers, sockets, BlueZ's connection and scan | open, send a command or a transfer, await the reply | late, missing and unsolicited replies; a connection attempt that outlives its timeout | a reply is taken for the command it answers, or one can say why not; a call ends; a retry meets no remains of the last attempt |
| Status and material decoding (`status.rs`, `error.rs`) | none | parse | fixed offsets, also applied to a report that answers something else | an error flag is seen; the rest is covered by unit tests |
| Discovery (`supvan-discover`, `list` and `register_supvan` in `ipp_server.rs`) | candidates of one sweep, the transport map | scan, probe, pair, join, register, prune | one printer seen three times under different names; cables and nodes change between scan, probe and open | a queue reaches the printer it is named for with that family's driver; no candidate disappears |
| Command-line tool (`supvan-cli/main.rs`) | none across commands: the position in one | `provision`, `heat-sweep`, `feed`, `probe-reads`, `paper-back`, the test pages | conclusions are drawn from unanswered or belated replies; a sweep goes on after a failed step | what a burned strip, a listed opcode and "nothing moved" really say |
| Mock simulator (`mock.rs`) | queued failure, sticky reasons, recovery deadline | fail, recover | shared with running jobs | a mock failure is held and recovers |
| Battery provider (`battery_provider.rs`) | a channel and a D-Bus object | add, update, remove | a thread beside the runtime | objects follow the printers |
| Dumps, server start, reference scripts, packaging | - | - | - | not modelled, see section 7 |

Interaction is by calls on shared `Arc`s (the cached printer, the caches), by
polling (the status poller runs beside jobs on a multi-thread runtime) and by
the registers and replies of the printer. Nothing is persisted but the
framework's registry of printers; a restart begins with empty caches.

The hazards of this code, at their lines and with the properties that would
catch them, are listed under "hazards" in `PROJECT.json`.

## 2. The modules

| module | models | proofs | runs |
|---|---|---|---|
| `PageContract` | the promise of `print_compressed`, abstractly | | `print_flow` |
| `PrintFlow` | `print_compressed` and the firmware it polls | `PrintFlowProofs` | `print_flow` |
| `DeviceAccess` | opening, sharing and losing the connection | `DeviceAccessProofs` | `device_access`, `no_query_mid_transfer` |
| `MediaRecord` | writing, confirming and comparing the material record | `MediaRecordProofs` | `media_record`, `genuine_kept` |
| `JobRun` | a job from the worker to its labels, through holds and retries | `JobRunProofs` | `job_run`, `clearable_holds`, `mono_fits` |
| `CommandLink` | opening a link, commands, transfers and their replies | `CommandLinkProofs` | `command_link` |
| `PrintBuffers` | the columns of a page on their way into buffers, blocks and packets | `PagePrintProofs` | `page_print` |
| `PageImage` | images as sets of dots: dithering's black, transposition, centring, the cards | `PagePrintProofs` | `page_print` |
| `PagePrint` | the callers that draw a page and print it, and the firmware that burns it: composes `PrintBuffers` and `PageImage` | `PagePrintProofs` | `page_print` |
| `Discovery` | a discovery sweep, the registry and the transport map | `DiscoveryProofs` | `discovery` |
| `StatusReport` | the bits of a status reply and what counts as an error | | `tool_session` |
| `ToolSession` | the commands of `supvan-cli` that write, move or probe: extends `StatusReport` | `ToolSessionProofs` | `tool_session` |

The modules fit together by outcome: `JobRun` keeps of `print_compressed` and
`open_uri` only what they return, `DeviceAccess` relies on the `CallReturns` of
`PrintFlow` for its fairness, `ToolSession` takes one exchange of `CommandLink`
as one step, and `PageContract` is what a caller may rely on. Operators named
"faulty variant" in their comment are changed copies of the definition after
them, kept to show that a property notices such a bug; no action uses them.

### PrintFlow

`pc` is the position in `print_compressed`: `check` (CHECK_DEVICE), `ready`
(`wait_ready`), `start` (START_PRINT), `station` (the wait for the printing
flag), then for each block `room` (`wait_buffer_ready`), `header`, `data`,
`drain`, `buffull`, `settle` (`transfer_compressed` and the pauses around
BUF_FULL) and `after` (the query for the log), at last `completion` and
`verdict`. `tries` counts the attempts of the wait loop the call is in, `next`
is the block of the loop, `asked` the speed `calc_speed` gave, `PrintSpeed` the
20 that replaces it when a page has more than one block. Every command may fail
in the transport (`LinkError`, the `?` of the code); a query may stay
unanswered, which is one attempt, with the link or without (`read_response` of
`rfcomm.rs` takes a failing `recv` for no reply). START_PRINT and BUF_FULL may be
lost or refused with the link up or down, as nobody looks at their reply. `stop_print`
does not appear: `wait_buffer_ready` turns an error flag into an error before the
branch that calls it is reached.

A reply carries the registers of the moment the printer wrote it. One that misses its
wait stays unread in `late`, in the order of the requests, and a later command of the
call, or of the next call on the same link, may read it as its own answer. Which it
may be is a matter of the link (`Passes`): over USB any (`usb_transport.rs:73`-`82`
neither drains nor checks), over BLE one of the same opcode (`ble.rs:177`-`190`), over
RFCOMM any whose caller does not look at it. So each poll reads a reply of some age
(`Hears`), and `astray` remembers that one it acted on was two or more requests old, or
that a block which was not the last of its page went missing with the link up. These
are the two ways in which the protocol cannot keep its word, and the properties except
them by that name; that one late reply, or a lost last block, does no harm is what
they claim.

The printer has one page buffer (`held`), a block on its way into it
(`incoming`), data packets still draining, a head that moves or pauses while a
block is decompressed, and the label. It is external, and says of the firmware
what the comments of `printer.rs` say. `garbled` is a history variable: a block
handed over too early, or laid on the wrong label.

Time is left out but for four assumptions, each in a guard: `SettleData` and
`SettleBlock` (both BLOCK_SETTLE pauses outlast what they wait for),
`RetryAfterPause` (a new page is begun only once the head moves again, as
retries come seconds later) and `ClearFault` (an operator is slower than a poll).

### DeviceAccess

A task (`Pollers`, `Jobs`, `MediaChanges`, `Identifies`) opens the printer and
makes the calls of its `Script`. The points where another task may come in are
the awaits and unlocks of `open_bt` and `dial_and_cache`: `lookup`, `wait` (for
the mutex), `check`, `evict`, `dial`, `insert`. A socket is a number; it is
`Open` while somebody refers to it and `alive` while both ends are there. `conn`
keeps the failed socket in hand until the task has dialled another, as the
`Arc` in the code does, which is why the printer may refuse the dial. Over USB a
connection belongs to its task and nothing is locked. `printing` is the flag of
each task's own `KsDevice`. The printer's links drop, vanish and come back.

### MediaRecord

One `apply_media` at a time (`setter`) beside `poll_status` (`poller`). The
record is a UID class (a tag, `blank`, `half` written, `ours`), a size and the
labels left. `SendRecord` is `set_rfid_data`; whether the bulk write arrives is
a choice. `Confirm` is the polling of `provision_material`, at most
`SETTLE_POLLS` times, for the UUID of a synthetic record, which is the same for
every size. With `SharedPrinter` the tasks exclude each other during the
confirmation (Bluetooth), without it they do not (USB). `over` is a history
variable: what the record was written over. An operator exchanges rolls and asks
for sizes, but not while a record is waiting to be committed.

### JobRun

A document of up to `MaxPages` pages and the copies asked for, fixed in `Init`.
`rows` is `KsJob`'s page buffer with the page each row comes from, `ditherer`
the width it was built for, `labels` what the present run has printed: a page, a
copy and the rows it shows. `TransferPage` is `transfer_page` for one copy with
the errors of `print_compressed`; `Requery` is the status query it makes after
`InvalidResponse`; `Outcome` is `print_job`'s choice between hold and failure.
`Start` is the framework's worker, for a new job and for a held one. At most one
error flag is up at a time. `cause` is a history variable: what was wrong with
the printer when the last page failed.

### CommandLink

The three links behind the `Transport` trait, in one module with `kind` as a
parameter of the state. Over USB the oldest report waiting is the reply and no
opcode is echoed; RFCOMM drains before it writes and takes all that is there for
one reply; BLE takes notifications until one echoes the opcode. `phase` is the
position: the four of opening (`scan`, `dial`, `connecting`, `chars`), then
waiting for a command's reply or between the frames of a bulk transfer. A
request is a number and an opcode, and a reply carries those of the request it
answers, so that a wrong pairing can be seen. The printer answers in order, at
any time after, or never (`owed`, `Answer`, `Ignore`). `bluez` and `scanning`
are what BlueZ goes on doing behind a `Connect` or a scan that timed out. `ScanEnds`
drops the discovery session; `ConnectTimesOut` sends a Disconnect and discards its
result (`ble.rs:242`); `ConnectErrors` sends none (`ble.rs:233`-`236`). Either may
therefore leave BlueZ with a `Connect` still pending (`LeftToBluez`), which ends when
BlueZ likes (`BluezSettles`); `loose` is the history of it.

### PrintBuffers, PageImage, PagePrint

`PageImage` has the pure functions: an image is a set of dots, and
`RasterToColumnMajor`, `CenterInPrinthead`, the two-plane interleaving and the
cards of `gray-ramp`, `two-color`, `test-print` and `heat-sweep` map such sets.
`PrintBuffers` is a loop in three parts, as in the code: `CutChunk`
(`split_into_banded_buffers`: chunk, clip to the band, write header and length in
bytes), `PackBlock` (`compress_buffers`: groups of `BUFFER_MAX_COUNT`, shrunk while
they do not fit; what a group compresses to is a choice) and the framing of
`SendBlock` (packets). What the code casts is cast: the lengths announced to u16, the
count too (`Header`), the index and count in a packet to u8 (`U8`), the columns of a
page with one band to u16. `SizesAssumption` says which sizes fit: up to 65535 bytes
and 255 packets, far more than four print buffers make. A density has the four bits of
the buffer header. `PagePrint` makes a page for each caller (`transfer_page`,
`print_grayscale`, `print_two_colour`, `test_print`, `print_swatch_ladder`). When the
page is out the firmware lays it (`Burn`, external): buffer by buffer, in the order of
the blocks, each line where the last ended and with the trims of its header. The
properties compare what is burned with what was drawn. How the firmware takes the
blocks in during the transfer is `PrintFlow`'s.

### Discovery

`list` is a sequence of steps: `BeginSweep` (the hidraw scan), `Probe` (the name
out of RETURN_MAT, for each path), `Inquiry`, `AutoPair` and `Report` (Bluetooth
Classic), `LeScan`, and `Join` (grouping by name, the merge of the one USB and
the one Bluetooth entry left over, `register_supvan`, the device id). Between any
two of them cables are plugged and unplugged, the kernel hands the lowest free
node to the next device, and the server may restart with an empty map. `open_supvan` is
`ByCable`, the occupant now of the node registered, if one is, and `ByRadio`. Losing
D-Bus in the inquiry (`Inquiry`) or after pairing (`Report`) leaves the list of Bluetooth
candidates empty.
A candidate remembers whom the scan and whom the probe met (`scanned`, `probed`):
history the properties use. `RegistryAssumption` says of `data/models.toml` what
the look-ups rely on: the longest prefix of an advertised name, of a USB model and
of a marketing name leads to the family they are listed with.

### StatusReport and ToolSession

`StatusReport` has the status registers and `has_error`. `ToolSession` walks
`supvan-cli` through its commands. One exchange is one step (`Outcomes`): the reply in
time, late (and then in the way of later reads, on the links that let it) or lost.
`provision` and `heat-sweep` share `Announce` and `Confirm`; a strip burned is
recorded with the heat profile asked for and the one in force. `probe-reads` is
`Control`, `Calibrate`, then `Ask` and `Inquire` for each opcode; `paper-back` is
`Calibrate`, a status, the opcode, a status. The printer commits records when it
likes, and raises an error or a low battery once. `blind` counts the opcodes sent with
the present error up for which no status is asked (CHECK_DEVICE of the control, 0x50
and 0x51 of the calibration, `main.rs:563`-`588`), `after` those of the loop that asks
one after each (`main.rs:614`). `known` is what the printer implements, `told` what it
answers otherwise than an opcode it does not know. RFCOMM and BLE echo the opcode;
over USB every reply but RETURN_MAT's may be the same status frame
(`PROTOCOL.md:110`-`113`, `:171`-`177`), so there `told` is any subset of `known`.
Over BLE replies that answer another opcode are read over and dropped.

## 3. The runs

Runs that pass:

| run | states | what it checks and shows |
|---|---|---|
| `print_flow` | 266702 | `NeverGarbled`: the buf_full flow control and the two pauses keep blocks apart, over each link and with one late reply in the way of every poll; with two, the room poll may see a register of before the last block was taken in. `OkMeansPrinted`: the completion poll is not fooled by a printer that has not started or that stopped early, nor by a last block that was lost or refused. `StartsOnBlankLabel`: a retried page never prints into the remains of a failed one, although nothing stops that one. `CallReturns`. `ImplementsContract`: refinement of `PageContract`. |
| `device_access` | 83472 | `SocketExclusive`: commands of two tasks never share a socket. `OpenReturns`: nobody waits for a mutex for ever. `Reconnects`: after losses have stopped, a working socket is cached again and again, whatever raced before. |
| `media_record` | 127248 | `FirstWriteConfirmed`: on stock without a record of ours, the record confirmed is the one written. `CacheConverges`: whoever writes the cache last, it ends up with the loaded roll. |
| `job_run` | 17484 | `LabelsInOrder`: labels are the pages in order, each as often as wanted, with nothing of an earlier page below a shorter one. `CompletedMeansAll`. `JobEnds`: on a healthy printer a job is neither retried for ever nor forgotten. |
| `command_link` | 516977 | `UsbLag`: over USB, replies are behind by no more than the waits given up on. `StaleExplained`: an old reply is taken for a new one only where the link's check cannot tell. `ConnectClean`: no scan is open when a BLE Connect is issued, and what outlives its attempt is only a Connect that BlueZ kept after an error or a failed Disconnect. `WaitsForAnAnswer`, `CallEnds`. |
| `page_print` | 22765 | `Tiled`, `Packed`, `PacketsWhole`: columns, buffers and bytes are neither lost nor doubled on the way out, and length, index and count announced are those sent. `Centred`, `CardsAsDrawn`: what is burned is what was drawn, on pages wider, narrower and as wide as the head. `PageEnds`. |
| `discovery` | 893596 | `RightPrinter`, `RightFamily`: by radio a queue reaches its printer, by cable too except in the named cases, and it has its driver. `NothingLost`: a candidate is reachable unless another took its key or its queue. |
| `tool_session` | 995712 | `StripsExplained`: a strip burned under the wrong profile was warned of, or overwrote a record of ours. `ProbeStopsAtError`: with an error up go out the control, the two unallocated opcodes and one more, and over RFCOMM and BLE one more for each reply lost or late. `ListedRight`, `UnmovedIsTrue`: what the two probing commands may conclude, and what they may not over USB. `CommandEnds`. |

Runs that end in a counterexample, each for something a comment or document of
the repository says and the code does not do:

| run | statement | what happens |
|---|---|---|
| `no_query_mid_transfer` | `printer_device.rs:72`, `:123`: the flag guards queries during a transfer | each open call has its own flag: over USB a poll goes out during another task's page |
| `genuine_kept` | `ipp_server.rs:467`: refuses when a tag is present | a lost or unreadable material reply passes as no record |
| `clearable_holds` | `docs/DEPLOY.md:105`: not dropped, but held | the reason is asked for afterwards; an unanswered query drops the job |
| `mono_fits` | `dither.rs:149`: `mono` is long enough | a narrower later page has an output row shorter than the ditherer |

Other places where code and text part, seen while modelling and kept in the models
as the code has them, without a run of their own:

- `device.rs:62` removes whatever the entry holds by then, not the socket that did
  not answer (`:45`): the slower of two tasks drops the socket of the faster.
- `ipp_server.rs:537`-`539`: the poller may report our own change when it reads the
  record between its confirmation and the cache entry.
- `ipp_server.rs:513`-`515`: the labels left go back to 480 at a rewrite.
- `job.rs:264`, `dither.rs:121`: the second page starts with the error of the first.
- `models.toml:205` speaks of a marketing prefix for every model; the T80 Pro and
  T80 Max entries (`:322`) have none, so that their model name over Bluetooth gives
  the default driver (`RightFamily` names the case).
- `ipp_server.rs:92`-`96` merges a left-over pair only for want of a name; the code at
  126 does so for a probed USB printer too (`RightPrinter` names the case).
- `printer.rs:293`-`311` takes whatever reply comes for the present registers: with two
  replies late (`usb_transport.rs:73`, `ble.rs:177`) a block is handed over on the
  strength of a register of before the last one was taken in (`NeverGarbled` and
  `OkMeansPrinted` name the case). Nor is a lost BUF_FULL noticed (`:359`-`361`).
- `ble.rs:233`-`236` sends no Disconnect after an error and `:242` discards the result of
  the one after a timeout: a `Connect` may be pending when the next attempt, or the
  caller of the failed open, comes (`ConnectClean` names the case).
- `main.rs:653` says "nothing moved" of an answer like the baseline's, which over USB
  may be the plain acknowledgement of a move (`UnmovedIsTrue` names the case).
- `main.rs:559`, `:632` compare sixteen bytes that include the echoed opcode
  (`PROTOCOL.md:86`): over Bluetooth every answer differs from the baseline
  (`ListedRight` and `UnmovedIsTrue` speak of USB).
- `main.rs:486`-`509` lets 0x35, 0x5C, 0xF0, 0x10 and 0x14 through the deny-list;
  `main.rs:370` does not check densities above 15, which have four bits;
  `buffer.rs:265` underflows for a label shorter than its two margins; two-colour pages
  are not mirrored as the others are.

`CHECK_DEADLOCK FALSE` stands where the system may stop: `job_run` and its two
violation runs (an ended job; a panic is a state in which the run stops, and
`JobEnds` allows for it by name), `command_link` and `tool_session` (the bound on
requests or commands is used up), `discovery` (the sweeps are over), `page_print` (the
page is out). The other runs check deadlock.

## 4. Bounds

- `print_flow`: pages of up to three blocks (a first, a middle and a last one),
  two pages (a page that fails and its retry, or two that follow each other), two unread
  replies (one is harmless, two are not: the exception is reached and not needed sooner),
  budgets of two attempts (one that polls again and one that gives up), mean
  sizes 400 and 2900 (speeds 60 and 15: above and below the split speed). The
  proofs cover every bound.
- `device_access`: a poller and a print worker over both transports, which is
  every pair of long and short use; one more task makes liveness checking slow
  and adds no kind of step. The violation run uses USB only. Exclusion is proved
  for any tasks.
- `media_record`: two sizes (to change one into the other), one tag, two requests
  (a first write and a correction), one exchange of rolls, two polls.
- `job_run`: two pages of five kinds (contone tall and wide; contone short and
  narrow with copies; mono; an unknown depth; unreadable), up to two copies, one
  clearable and one lasting flag, both reports of a lost link. Differences between
  pages show with two; `MaxCopies` 2 reaches "one more copy" and "the last copy".
- `command_link`: all three links, four requests (a transfer of two frames, and two
  commands, the later of which may meet what the first left), two openings, the three
  connection attempts of the code.
- `page_print`: a head of 16 dots (and one of 19, no whole number of bytes), 4 dots to
  the millimetre, buffers of five lines, so that every card meets margins, band ends
  and buffer ends; a raster page is one black pixel, at each border and in the middle,
  on pages narrower and wider than the head. The sizes of
  the run stay far below the limits of u16 and u8; the theorem goes up to them.
- `discovery`: three printers (two share a descriptor serial; one is on Bluetooth only),
  two nodes (so that one is reused), two sweeps and two upsets (an exchange of cables
  is an unplug and a plug; a failure of D-Bus is one too), prefixes and models from `data/models.toml`.
- `tool_session`: two heat profiles, one sweep of both, one built-in opcode, one asked
  for by `--also` that the deny-list lets through (24) and one it does not (44), two
  commands, one late or lost reply, one error or low battery, two confirmation polls.
  One slip is enough to shift every later answer over USB.

## 5. Fairness

- `PrintFlow`: weak fairness of the call (the runtime polls the task and every
  await in it has a time limit: 2 s for a reply, the attempts of a loop), of
  draining and of taking a block in (the settle assumption). None of the head, the
  faults or the operator: a printer may stay silent, and the call returns.
- `DeviceAccess`: weak fairness of each task's steps; strong fairness of taking a
  mutex, since tokio's mutex serves its waiters in order of arrival and "free again
  and again" must be enough; the poller opens the printer for ever, as the framework
  does. Not the other tasks' opening, nor the printer.
- `MediaRecord`: weak fairness of both tasks and of the commit of a record received.
- `JobRun`: weak fairness of the run, the retry of a held job included (the
  framework's worker). Not of the printer: `JobEnds` is conditional on its health.
- `CommandLink`: weak fairness of the steps of a call, each of which is bounded by a
  timeout in the code. Not of the printer's answers: `CallEnds` holds without them.
- `PrintBuffers`: weak fairness of the loop. `PagePrint`: of that and of `Burn`, as a
  printer that has a whole page lays it; that it does so without an error is
  `PrintFlow`'s concern. `ToolSession`: weak fairness of a command
  once given; not of the operator, the commit or the error. `Discovery`: none, as only
  safety is stated.

## 6. What is proved

TLAPS proves every safety invariant and every safety property of steps that the
passing runs check, and the refinement, for every value of the constants that
satisfies the named assumptions of the modules:

| proofs | theorems (the property of the runs) |
|---|---|
| `PrintFlowProofs` | `TypeCorrect`, `FlowControl` (`NeverGarbled`), `CompletionIsTrue` (`OkMeansPrinted`), `StartIsClean` (`StartsOnBlankLabel`), `PageRefinement` (`ImplementsContract`) |
| `DeviceAccessProofs` | `TypeCorrect`, `SocketsAreExclusive` (`SocketExclusive`) |
| `MediaRecordProofs` | `TypeCorrect`, `FirstWriteIsConfirmed` (`FirstWriteConfirmed`) |
| `JobRunProofs` | `TypeCorrect`, `LabelsAreInOrder` (`LabelsInOrder`), `CompletedIsAll` (`CompletedMeansAll`) |
| `CommandLinkProofs` | `TypeCorrect`, `UsbKeepsUp` (`UsbLag`), `StaleRepliesExplained` (`StaleExplained`), `OpensClean` (`ConnectClean`), `WaitsAreAnswered` (`WaitsForAnAnswer`) |
| `PagePrintProofs` | `TypeCorrect`, `BuffersTile` (`Tiled`), `BlocksPack` (`Packed`), `PacketsCarryAll` (`PacketsWhole`), `PagesCentred` (`Centred`), `CardsComeOut` (`CardsAsDrawn`) |
| `DiscoveryProofs` | `TypeCorrect`, `ReachesItsPrinter` (`RightPrinter`), `DrivesItsFamily` (`RightFamily`), `LosesNothing` (`NothingLost`) |
| `ToolSessionProofs` | `TypeCorrect`, `SweepExplained` (`StripsExplained`), `ProbeStops` (`ProbeStopsAtError`), `ListsRight` (`ListedRight`), `UnmovedTrue` (`UnmovedIsTrue`) |

The assumptions, and where the code gives them:

- Bounds and budgets are numbers (positive where the code's are), `SafeSplitSpeed` is
  at least 20, the marker for "no one" is not a task, tags are not the names of the
  other UID classes, pages have a height and a width.
- `PrintFlow`: a reply carries the registers of the moment the request reached the
  printer, the printer answers in the order of the requests, and the settle and retry
  pauses of section 2 outlast what they wait for.
- `PrintBuffers`: the sizes that compression gives are below 65536 and 255 packets
  of payload (`SizesAssumption`): a group is four print buffers of 4096 bytes at most
  and the payload 500 bytes (`compress.rs`, `data.rs:14`), so that even a group that does
  not compress stays below half of either limit.
- `PagePrint`: a line fits in a print buffer (`stride * planes`, `buffer.rs`); rows are
  u16; a page cut by `split_into_buffers` is no shorter than its two margins
  (`buffer.rs:265` underflows there, see section 3); densities are the 0 to 15 that the
  command line documents (`main.rs:64`; 16 and above share their low bits with another);
  `PagesAreJobs` ties the pages of the tiler to the callers that draw them.
- `Discovery`: a USB descriptor's serial may be shared but is no other printer's name,
  and `RegistryAssumption` above. TLC evaluates it on the prefixes of the run, which are
  taken from `data/models.toml`.
- `ToolSession`: the built-in list of opcodes holds neither of the two unallocated ones
  nor `CMD_PAPER_BACK` (`main.rs`), and a sweep has at least one profile. A printer
  answers the two unallocated opcodes alike; what it answers the others over USB is left
  open.

The invariants are not inductive as they stand. For `PrintFlow`, that no block
is garbled depends on what the firmware holds at the moment BUF_FULL goes out,
several steps after the poll that saw room. `IInv` therefore says, of
every state that is not `astray` (`OnCourse`): `OneBlock`
(blocks are in the printer only during a page, one at a time, and the one there
comes next on the label: `Fits`), `RoomStays` (the buffer stays empty from the
poll to BUF_FULL, as only this call fills it), `CleanStart` (what a failed call
left is over when `wait_ready` succeeds, which needs `RetryAfterPause` because a
paused head looks idle) and `OnTrack` (without an error flag and while the
link stands, blocks laid plus blocks in the printer are the blocks handed over,
and the page goes on until the last is laid). `OnTrack` at the end of the block loop, with an idle printer
and an empty buffer, gives `laid = nblocks`, which is `OkMeansPrinted`. All this would
hold of the registers read at once; for a reply one request old there is `LateVouched`:
what the reply before the last one says, and a poll would act on, is still so
(`Vouched`), because only the call itself fills the buffer and begins a page, and because
an unlooked-at query (`QueryAfter`) lies between a block and the next poll for room. The
proof has one lemma per action. The action property and the refinement follow
from `IInv` and a case split on the action, with `PageContract`'s actions as the
targets.

For `DeviceAccess`, `OwnerKnown` (a task that uses a socket is the owner of its
mutex) is inductive: two users of one socket would both be its owner. Its types
need a count: a task about to dial holds no new socket, so the cache, an old socket
for each task and a new one for each other leave a number free (`SocketFree`). For
`MediaRecord`, a record of ours that is served in place of another kind must be
the pending one, so `PendingIsWanted` (a record under way is the one last asked
for) and `OursIsNew` carry `FirstWriteConfirmed` from the write to the
confirmation; without the restriction to first writes it is false, as the UUID
does not tell two sizes apart.

For `JobRun`, `Progress` says at each point of a run which label was the last
(`PageOut`, `CopyDue`) and what the buffer shows (`BufferShows`; blank between
pages). A label is then appended after its predecessor and shows its own page;
`PageOut` of the last page, when a run ends, is `CompletedMeansAll`. For
`CommandLink`, `RequestIsLast`, `InStep` (replies come in the order of the
requests, none is invented) and `DrainedAtWrite` (what RFCOMM had received before a
write is gone) tie a reply taken to the state in which its request went out. `OpenClean` is
`ConnectClean` with the phases in which a `Connect` may be pending; every other one is
`loose`. `WaitsForAnAnswer` speaks of a step: a request
written is among those owed (`WriteOwes`), and only `Ignore` takes one away without
a reply.

For `PagePrint`, `AtColumn`, `AtBuffer` and `AtPacket` say where each of the three
loops stands: everything before it is tiled, packed or sent. `Covered` is the other
half of `Tiled`, that no column is skipped; `OneBandCut` gives the chunks of a page
with one band exactly (full ones and a rest), which the regions of the test pattern
are compared with. `Inside` and `AtBlock` say that the firmware's position is within
the blocks, and `AsCut` what it has burned there: the union of what each buffer laid
so far leaves (`MarksOf`), at the column the last of them reached. When all is burned,
`AllCut` and `BurnedAsDrawn` turn this into: a dot is burned iff it is ink of the page
between the margins, at its own line and with the trims of the band it lies in.
`Centred` and `CardsAsDrawn` are then facts about the page alone, one lemma for each
card: the arithmetic of centring in a head wider or narrower than the page and of
whole or broken bytes (`CentredInk`, `Middle`), the interleaving of two planes
(`TwoColourHolds`), the bands of the ladder (`LadderHolds`) and the test pattern's
regions (`TestHolds`).

For `Discovery`, `Apart` (a node has one printer behind it) holds because the kernel
hands out free nodes only. `SeenTrue` says what a candidate tells of the printer
scanned (serial, model) and of the one probed (its name), `EntryTrue` carries this
through grouping, merging and the slug into the map and the device id: the key of an
entry's candidate has the entry's slug unless the merge joined it (`lone`). The exceptions
that `RightPrinter` and `RightFamily` name are those in which `scanned` and `probed`
differ, the node has a new occupant, or the merge joined two printers. That the
longest prefix exists (`LongestPrefix`) needs well-founded induction over lengths. `NothingLost`
holds of the fold in `Join` because a candidate falls out of a group, or a group out
of the map, only when another takes its place.

For `ToolSession`, the replies not yet read decide what the tool takes an answer for.
`Unread` bounds them by the replies that went astray, `OursServed` says that a record of
ours among them is the one served, and `AtWrite` and `TakenTrue` follow the profile from
the announcement over the commit to the confirmation, which is `StripsExplained` for the
next strip. For the probes, `ErrorInv` counts: from some reply on, all that is unread
shows the error, and each reply before it lets one more opcode through. `BlindBound`
counts those before the first status by where the control and the calibration stand. `BaselineTrue`
keeps the baseline an opcode's that does not exist, from which an answer differs iff its
opcode is `told`, with `AtCalibration` for where the
command stands in its list.

Only model-checked: liveness, which is outside what the prover does: `CallReturns`,
`OpenReturns`, `Reconnects`, `CacheConverges`, `JobEnds`, `CallEnds`, `PageEnds`,
`CommandEnds`.

## 7. Not modelled

- The mock simulator (`mock.rs`), an aid for development without a printer.
- The battery provider: a thread that mirrors a channel on D-Bus, with a constant
  percentage.
- Dumps, environment variables, bootstrap: no control depends on them.
- `open_ble_addr` and the BLE cache: the same code as `open_bt` over another map.
- The fixed offsets of status, material and firmware replies and the bytes of the RFID
  record: pure functions with unit tests; `ToolSession` and `CommandLink` model what
  they make of a reply that answers something else.
- Which grey pixels the halftone inks (only black ones are followed), LZMA (a group
  compresses to any of some sizes), checksums, jpeg scaling.
- The printer reasons and gauges that `poll_status` derives; the commands of the CLI
  that only print what they read (`probe`, `material`, `discover`).
- The framework (IPP, spooling, retries, persistence): external, used in `JobRun`
  and `DeviceAccess` as far as the code relies on it.
- Reference scripts and packaging.

## 8. Plan

1. The safety half of the liveness properties, where there is one: that a call, an open
   or a command is never in a state from which it has no step, and that each loop has a
   measure that its steps lower.
2. An abstract specification of the exchange of `CommandLink` that `ToolSession` takes as
   one step, with the refinement proved.
3. The mock simulator with its holds; the poller's printer reasons.

## 9. Running

    tlc -config MCPrintFlow.cfg MCPrintFlow.tla
    tlapm PrintFlowProofs.tla

and likewise for the others; `PROJECT.json` pairs each run with its module and
configuration, each property with a mutated definition that violates it, and
each definition with the source lines it models.
