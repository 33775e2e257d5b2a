# Verification of escpost

TLA+ models of escpost, the TLC runs that check them on small instances, and
proofs that TLAPS checks for every value of the constants. The models are
translated from the source; `PROJECT.json` names, for each definition, the lines
it stands for.

Run from this directory:

    tlc -workers 2 -config PrinterMonitorSafety.cfg MCInventory
    tlapm InventoryProofs.tla

## The system

escpost is a command line program, the web server `escpost serve` starts, a
browser extension that lets granted web pages print through that server, and a
JavaScript SDK for those pages. A receipt renderer (ESC/POS bytes to images and a
trace) is underneath all of it.

| Component | Source | State it keeps | Operations | Hard part |
|---|---|---|---|---|
| Printer inventory monitor | `features/printers/monitor.rs` | subscriber count, generation, task handle, `Notify`, retained snapshot, collection mutex | `subscribe`, `next`, drop, `request_refresh`, the background task | abort at any await, wake-ups that must not be lost, tasks of an old session |
| Inventory collection | `features/printers/list`, `inventory.rs` | none (reads the file, probes, USB devices) | one collection; matching tables with devices | failure part way; twins without serial numbers, four matchers |
| Printer registration | `features/printers/add` | the registration file | `add_printer`, `execute`, the questions of `printers add` | save, then wake, then answer; devices that move between two questions |
| Printer configuration | `configuration.rs` | `printers.toml`, its lock file, temporaries | load, locked mutation, atomic write | crash between steps, several processes |
| RAW capture | `features/capture/cli.rs` | per connection: buffer, `receiving` | accept, read, idle timeout, finalize | concurrent renderings, failure, timeouts |
| Job store | `web/job_store.rs` | current job, error, generation, counters, watch channel | `begin_capture`, `end_capture`, `replace_captured`, `set_error` | counters in step with the tasks |
| Job endpoints | `web/jobs.rs` | none | current document, sheet, input | ids that become stale |
| Jobs page | `frontend/.../use-current-job.ts` | the shown document | poll, merge, unmount | answers merged into an old document |
| Status stream | `web/status.rs`, `status-stream.ts` | a task, a channel of one event | send, wait, reconnect | blocked sends, shutdown |
| Web host | `web.rs`, `web/origin.rs` | shutdown channel | serve, stop with grace | open streams at shutdown |
| Printing | `features/printing` | per-printer locks, job sequence | resolve, lock, transfer | cancelled callers, stale targets, timeouts |
| Discovery | `discovery.rs`, `features/printers/discover` | announced set, progress, event queue | sweep, stream, cancel, list | concurrent probes, own addresses, closing event, Ctrl+C |
| Telemetry | `telemetry/` | consent file | consent, send | first run, opt out |
| Profiles | `escpost-profiles` | none at run time | resolve, check | inheritance |
| ESC/POS interpreter | `escpost-render`: `command.rs`, `state.rs`, `text.rs`, `graphics.rs`, `symbols.rs`, `trace.rs` | printer state, pending line, surface, sheets, trace | one per command | framing over arbitrary bytes, limits, a line that is buffered, two readings of one command |
| Symbols | `escpost-render`: `barcode.rs`, `databar.rs`, `qr.rs`, `surface/` | none | one encoder per symbology | planners, check digits, compaction |
| Rendering command, Python binding | `features/render`, `crates/escpost-python` | none | one rendering | none: one pass over one input |
| Inventory and discovery pages | `frontend/src/api`, `frontend/src/app` | resource, event source, scan state | open, event, error, cancel | events of an old scan, stale classification |
| Extension inventory stream | `browser-extension/src/inventory-stream.ts` | subscriptions, authorization, stream, timer | subscribe, unsubscribe, revoke, reconnect | promises that settle late |
| Extension relay | `relay.ts` | subscriptions, port, owner origin, reconnection | subscribe, unsubscribe, lose port | ports that die between steps |
| Extension daemon selection | `daemon.ts`, `daemon-port.ts` | remembered port and its write queue | health, list, print | stale ports, lost answers |
| Extension grants | `registration.ts`, `chrome/`, `firefox/` | revision, registered scripts | drain | events during a pass, two writers |
| Extension popup | `popup/` | the shown site and grant, revision | refresh, click, tab events | answers for another tab |
| JavaScript SDK | `sdks/javascript/src` | pending requests, subscriptions | request, reply, time out | late replies |

The interactions: a handler that registers a printer writes the file that the
monitor's collections read, then calls `request_refresh`. The capture tasks write
the job store, which the job endpoints read under its lock and the status stream
follows through a watch channel. The relay connects a page's SDK to the worker,
whose streams read the server's inventory events, which are subscriptions of the
monitor.

What makes each correct, and where each can go wrong, is listed with source lines
under `hazards` in `PROJECT.json`. The ones no property covers yet carry the
reason.

## Modules

| Module | Extends | What it models |
|---|---|---|
| `InventoryFeed` | | what the monitor promises a watcher, without tasks, locks or wake-ups |
| `PrinterMonitor` | | `monitor.rs` with the registering handlers and the registration files; `ImplementsFeed` is the refinement to `InventoryFeed` |
| `MCPrinterMonitor` | `PrinterMonitor` | the symmetry set of its runs |
| `UsbPrinters` | | which device a USB table means: `printers add`, list, discover, and the transfer of a job |
| `MCInventory` | `MCPrinterMonitor`, `UsbPrinters` | the monitor that streams the list, and what a row of it stands for |
| `InventoryProofs` | `PrinterMonitor`, `UsbPrinters`, `TLAPS` | the inductive invariants of both and the theorems |
| `JobCapture` | | the capture tasks and the job store |
| `JobViewer` | `JobCapture` | the page that polls the store, and its fetches by id |
| `JobsProofs` | `JobViewer`, `TLAPS` | the inductive invariants of the capture and of the page, and the theorems |
| `StatusStream` | `JobCapture` | the event stream, the browser that holds it, and Ctrl+C |
| `PrinterRegistry` | | what the registration file promises: one table per name, nothing lost, whole registrations |
| `PrinterConfig` | | `configuration.rs` as the processes that share the file run it; `ImplementsRegistry` is the refinement to `PrinterRegistry` |
| `MCPrinterConfig` | `PrinterConfig` | processes, registrations and the documents a file may start with |
| `PrinterConfigProofs` | `PrinterConfig`, `TLAPS` | the inductive invariant, the theorems and the refinement |
| `PrintJobs` | `PrinterRegistry` | `POST /api/print`, with printers being registered meanwhile |
| `PrintJobsProofs` | `PrintJobs`, `TLAPS` | the inductive invariant and the theorems |
| `DiscoveryTargets` | | which addresses a scan probes: subnets, adapters, exclusions |
| `DiscoveryScan` | `DiscoveryTargets` | one discovery operation as a value: its probes and the events of one poll |
| `DiscoveryPage` | `DiscoveryScan` | the response that owns a scan, the page's connections and what it shows |
| `DiscoveryCommand` | `DiscoveryScan` | `printers discover`, with Ctrl+C and a closed output |
| `DiscoveryProofs` | `DiscoveryPage`, `DiscoveryCommand`, `TLAPS` | lemmas about targets and polls, the inductive invariants, the theorems |
| `WorkerStreams` | | the extension worker's event streams, one per page port |
| `StreamRelay` | `WorkerStreams` | the page's subscriptions and the relay between page and worker |
| `PageRequests` | | health, list and print, from the page over the relay to the server |
| `GrantRegistration` | | the registration passes that follow the granted origins |
| `GrantPopup` | `GrantRegistration` | the popup on the active tab, whose clicks grant and revoke |
| `ExtensionProofs` | `PageRequests`, `GrantPopup`, `StreamRelay`, `TLAPS` | the inductive invariants and the theorems |
| `ReceiptPrinter` | | what each operation does to the imitated printer |
| `CommandDescriptions` | | what the trace says of a command's bytes, read a second time |
| `EscPosInterpreter` | `ReceiptPrinter`, `CommandDescriptions` | the rendering of a job, command by command, with its trace |
| `ReceiptProofs` | `EscPosInterpreter`, `TLAPS` | what every operation and every command keeps, and the theorems |
| `Code128` | | the planner and the encoder of Code 128 and GS1-128, and a scanner |
| `Code128Proofs` | `Code128`, `TLAPS` | what a plan writes reads back: the lemmas and the theorem |
| `BarcodeDigits` | | digits, check digits and modules |
| `DataBar` | `BarcodeDigits` | the four kinds of GS1 DataBar, and a scanner |
| `LinearSymbols` | `DataBar` | EAN, UPC, ITF, Code 39, Code 93 and Codabar, and a scanner |
| `MCCode128`, `MCLinear`, `MCReceipts` | the modules above | data for the barcodes, jobs and printer profiles |
| `MCJobs` | `JobViewer`, `StatusStream`, `MCReceipts` | what happens to the jobs of the virtual printer |
| `MCDiscovery`, `MCPrinters` | `DiscoveryPage`, `DiscoveryCommand`, `PrintJobs` | printers found, and printed to |
| `MCExtension` | `PageRequests`, `GrantPopup` | the extension's requests and its grants |

The parts of `MCInventory`, `MCJobs`, `MCPrinters`, `MCDiscovery` and `MCExtension` share only what
they read: a behaviour is of one part and the others rest, so that one run covers
them without multiplying their states.

### PrinterMonitor

One step is one stretch of code between two synchronisation points.
`subscribers`, `generation`, `refresh` and `task` are `struct State`;
`snapshots` is the retained value of the watch channel; `collection` is the holder
of the collection mutex. `tasks[g]` is the background task of generation g, with
the permit of the `Notify` made for it, and where in `run` and
`collect_and_publish` it stands.

| Action | Code |
|---|---|
| `Receive`, `Join` | `subscribe`: the receiver and the retained value are taken before the state mutex, the count and the task under it |
| `NextSnapshot` | `Subscription::next` |
| `DropSubscription` | `Drop for Subscription`: the last one aborts the task |
| `AcquireCollection`, `CheckActive`, `ReadConfiguration`, `FinishProbes`, `Publish` | `collect_and_publish`, split at the mutex and the awaits |
| `IntervalElapsed`, `Notified` | the `select!` of `run` |
| `CancelTask` | an abort takes effect at an await and releases what the task held |
| `SaveRegistration`, `FindRefresh`, `NotifyOne`, `Answer` | `add_printer` and `request_refresh`; the `Notify` is found under the mutex and used after it |
| `RegisterFromCli` | another process registers a printer |

A registration file is the number of registrations it has received, so an
inventory is named by what one read of the file showed. Rows, ranks and the USB
inventory are abstracted to that; `warning` says that a collection failed and the
rows shown are the older ones. The two-attempt probe is inside `FinishProbes`.

### UsbPrinters

`ports` says where each device is plugged in, so the order in which the code sees the
devices; `tables` is `printers.toml`. A device has what survives a reconnection: its
model and perhaps a serial number, and by its model the interfaces and endpoints.
`Classified` (discover), `Merged` (list), `Unconfigured` (add) and `Reachable`
(print) are the four matchers, each translated from its own function. `adding` is the
`printers add` command with what it read before its questions; a device may move
between any two of them.

| Action | Code |
|---|---|
| `BeginAdd`, `DiscoverHost` | `run`, up to the first question; `--discover` searches before the file is read |
| `ChooseTransport`, `EnterHost`, `ChooseUsbPrinter`, `EnterName`, `GiveUp` | the questions of `resolve_add`, each followed by what needs no answer |
| `Save`, `AddFromPage` | `execute`, over the file as it is then; the page names a device of some earlier discovery |
| `Plug`, `Unplug` | the world |
| `GrantUsbPermissions` | `apply_at`: a rule with other content is left alone, udev may apply a rule at once or when a device is plugged in |
| `BeginTransfer`, `EndTransfer` | `NusbTransport::send`: the only device that matches, or an error |

### JobCapture

A job is named by its place in the order in which jobs completed, and its bytes
are the chunks of one connection from one cut to the next. `connections[c]` is a
`capture_job` task: `counted` is its local `receiving`, the buffer is the chunks
after `taken`. Rendering runs on the blocking pool, so the renderings of two
connections overlap; a rendering returns, fails or panics.

| Action | Code |
|---|---|
| `Accept`, `ReadChunk`, `EndOfStream`, `ReadError`, `IdleElapsed` | `accept_jobs`, `capture_job` |
| `BeginCapture`, `EndCapture`, `StoreJob`, `StoreError` | `JobStore` operations, one write-lock section each, with `publish_runtime_status` |
| `RenderEnds` | the outcomes `finalize` tells apart |

### JobViewer

`page` is the resource of `useCurrentJob`, `answers` the responses under way.
`Poll` takes the answer from the store as it is at one moment; `ShowAnswer` is the
merge in `setResource`; `Remount` is a page that unmounts, aborting its request.
A document's URLs stand for the job it was made from (`Document.job`), which is
what `ResourcesMatchDocument` compares a fetch with.

### StatusStream

`stream` is the task that `events` spawns: it borrows the status, sends it into a
channel of one event, and waits for a change; both awaits watch the shutdown
channel. `changed` is the watch receiver's unseen mark. The browser reads, closes
and reopens at any moment. One stream at a time: streams share nothing but the
store.

### PrinterConfig

`files` holds the contents of every file ever created; `destination` says which one
`printers.toml` names and `temporaries` which one each temporary name names, so
that a rename changes a name and an open file stays what it was. A document is the
sequence of its tables, the unit in which it is written and read; comments and
formatting stay where they are because `add_printer_table` appends. What a table
says is abstracted to what `parse` tells apart: connections a registration may
write (`Registrable`), those of a transport that `parse` skips (`Unrecognized`),
and those that make it fail (`Malformed`).

| Action | Code |
|---|---|
| `Begin` | the look at the file of `printers add` before its prompts (`StoppedEarly`), then directory and lock file |
| `TakeLock`, `ReadExisting` | `mutate_configuration` up to the closure of `add_printer_table` and its refusals |
| `Create`, `NameTaken` | `create_new` under process id and counter |
| `WriteTable`, `Publish` | `write_all` piece by piece, then the rename |
| `Fail`, `RemoveTemporary` | any call fails; what the failure cleans up, and the cleaning failing too |
| `Return` | the lock file is closed with the function |
| `Crash` | a process dies with its registrations, the system frees its lock, the next one may get the same process id and counts from 0 |
| `OpenFile`, `ReadTable` | `load`, which takes no lock |

### PrintJobs

`requests[r]` is one `print_job` and the task it spawned. A target is resolved from
the registry of `PrinterRegistry`, then the request waits for the mutex of the
name (`printer_locks`; `ticket` is its place in the queue of a tokio mutex, which is
external), and the transfer runs in a task that owns the guard. `Disconnect` is the
HTTP connection closing: the handler is dropped at its await, a spawned transfer
goes on. `wire` is what each printer was handed; a payload is `MaxPieces` pieces.
`Break` covers every error, timeout and panic, at any point and after the last
piece too.

The two compose over `PrinterRegistry`: `PrinterConfig` implements it, `PrintJobs`
runs with it.

### Discovery

`DiscoveryScan` is the operation of `discover/mod.rs` over `discovery::scan`: what
`prepare` refuses, which probes are in flight (at most `MaxConcurrentProbes`), and
the events of one poll, which may join several answers in any order. An address has
`AddressBits` bits; a machine is its adapters, with aliases, netmasks that are not
contiguous and networks too large to scan.

| Module | Action | Code |
|---|---|---|
| `DiscoveryPage` | `Discover`, `PollNext`, `Probe`, `ResponseEnds` | the handler of `discover/http.rs` and its `DiscoveryStream`: one queued event per poll, woken by the events it leaves |
| | `StartScan`, `CancelScan`, `Dispatch`, `ConnectionError`, `ConnectionBreaks` | `discovery-stream.ts` and the page's scan state; an EventSource that breaks must not start a scan again |
| | `AddResult`, `AddElsewhere` | a result is registered from the page, or a printer elsewhere |
| `DiscoveryCommand` | `PollScan`, `StopScan`, `Interrupt` | the command's `select!`, the lines it lists, the hint and the status it ends with |

### The extension

`WorkerStreams` and `StreamRelay` are one system: the page's SDK (`callbacks`,
`shown`), the relay (`relayed`, `port`, `reconnect`) and the worker (`owned`,
`attempts`). Messages between them are queues, in order; a port that dies loses
what is on the way. A step is one handler or promise continuation, so an
authorization, an attempt to open a stream and a timer may each end after what they
were started for is over. Grants are removed, the worker dies, the server stops and
a connection breaks, `MaxTroubles` times.

`PageRequests` is a request from `transport.ts` over the relay to `DaemonClient`: it
reads the remembered port, looks for the server among the ports when there is none,
calls it, and forgets a port that failed, through the queue of writes of
`daemon-port.ts`. The server moves between ports (`Move`), an answer is lost after
the server accepted the bytes (`Loses`), and the page times out (`TimeOut`). `calm`
is the history of requests that nothing disturbed.

`GrantRegistration` is `registration.ts`: passes read the grants, read the
registered scripts and write, each an await; `stale` is the comparison of
revisions. `GrantPopup` adds `popup.ts` on Firefox: `Refresh`, `TabEvent`, `QueryTab`,
`Contains`, `Click`, `Mutate`, and the passes its clicks run, which no revision
guards.

### Receipts

`ReceiptPrinter` has one operator per operation of `state.rs`, `text.rs`,
`graphics.rs` and `symbols.rs`, from a printer to a printer, because operations
compose: a character may first feed a line. Dots are not drawn; a surface is its
height and the regions each command marked. `EscPosInterpreter` has an action per
branch of `execute` (text, the control bytes, ESC, GS, what is unsupported) and
`FinishJob`; commands after ESC and GS are disjuncts with their framing, so one that
is cut short, of the wrong length or not supported fails the job as in the code.
Beside executing, every command adds an entry to the trace: what
`CommandDescriptions` reads in its bytes, its style, and the regions it painted.

`Code128`, `LinearSymbols` and `DataBar` translate the encoders and add what the code
does not have: a scanner, written from the symbology, that takes the modules or the
symbol values apart again. The properties compare what it reads with the data the
command carried. In `DataBar` the tables of checksum weights are powers of three and
the rows of weights follow from the finder sequences; both were compared with every
entry of the code's tables.

## Runs

| Run | Bounds | What it shows |
|---|---|---|
| `monitor_safety` | 2 streams, 1 handler, 1 file, 4 generations, 1 registration; 3 USB devices of one model on 2 ports, 2 interfaces each, 2 names, 9 ways to call `printers add`, 3 moves | one collection at a time, views never go back, and the refinement of `InventoryFeed`; the matchers agree on which devices are configured, jobs never reach another device than the one a name was registered for while that one is plugged in |
| `monitor_liveness` | 1 stream, 1 handler, 4 generations, 2 registrations | an answered registration reaches the open streams with no help from the interval, a stream gets a snapshot of its own session, probing stops |
| `monitor_selected_file` | 2 files | violated: with `--config` the handler saves to a file the monitor does not read |
| `jobs` | 2 connections of 2 chunks with the idle timeout, of 1 chunk under a page or a stream; 2 printers of 30 dots; any 2 commands of some 60, any 3 of those that print; 7030 barcodes and all short data of Code 128 | the status counts the open captures, no byte is lost or in two jobs, receptions end, the page never goes back and catches up, a fetch by id never answers another job, a reading browser ends with the final status; a line that has not begun is empty, sheets stay within the limits, the trace says what is on paper and names what was executed; barcodes scan back (of Code 128 those with no brace behind SHIFT), and Code 128 data without upper bytes is as short as it can be |
| `capture_latest` | 2 connections of 1 chunk | violated: overlapping renderings store an older job over a newer one |
| `printer_config` | 3 registrations in 2 processes with 1 process id, 2 names, 1 reader, 1 crash or failed removal, 1 I/O error | nothing registered is lost, no half document is read, a file that loads stays so, the lock is handed on, and the file operations implement `PrinterRegistry` |
| `printers` | a machine of 4-bit addresses, 2 scans, 2 probes at once, 1 broken connection, 1 printer registered meanwhile; 3 print requests for 2 names, 2 pieces per payload | the page shows exactly the machines that answered, once, never itself; new results are not registered; a successful listing is whole; running scans end; jobs on one printer do not mix, an answered job is printed, callers are answered |
| `extension_streams` | 2 subscriptions, 2 ports, 2 attempts, 1 trouble | one event stream per port, no snapshot without a grant, an answer for every subscriber once the server stays up |
| `extension` | 2 requests, 2 ports, 1 move, 1 loss; 2 tabs, 2 origins, 2 popup passes, 1 failure, 2 acts | a print reaches the server at most once, a calm request finds the server; the popup at rest tells the truth, the registration follows the grants |
| `extension_revocation` | as above | violated: a pass of the popup registers a revoked origin |
| `code128_braces` | all data of up to 4 bytes out of 5 | violated: a brace after SHIFT is doubled |
| `databar_dollar` | a dollar sign between two characters | violated: a dollar sign reads as a z |

Bounds, and why they are enough:

* Four generations let two streams open three sessions after a first one, so a
  task of a retired session can be anywhere while the next session starts, runs
  and ends. Two sessions at a time are what the code can confuse: a task checks its
  own generation against the newest one only. Generations beyond the bound are a
  guard of `Join` (`MaxGeneration`).
* One registration per file already distinguishes a snapshot read before and after
  it; `monitor_liveness` has two, so that one is saved while another is being
  collected. `MaxRegistrations` bounds the saves.
* Three devices of one model, of which one has a serial number and one needs a udev
  rule, are the least with which a twin without a serial number can replace another,
  and be confused with the third; two ports let two be plugged in at once in either
  order, three moves (`MaxMoves`) unplug one in between. Models are told apart by
  equality only, so one is the hard case. The nine arguments are the wizard, selectors
  that fit one device or several, and one of each refusal.
* Two connections are the least with which captures, renderings and stores
  overlap; two chunks per connection (`MaxChunks`) are the least that can be cut in
  two jobs. The viewer and the status stream need two jobs to see one replaced.
* The printers are 30 dots wide and take two cut sheets, so two or three commands
  reach the end of a line and every limit (`MaxSheets`, `MaxHeight`, `MaxDots`,
  `MaxPayload`). The two profiles differ wherever a profile lets them. Commands of
  each kind are taken whole, cut short, of the wrong length and unsupported.
* Barcode data is chosen by what the encoders branch on: every system, lengths
  around every boundary, digits that walk in steps, all the UPC-E numbers of two
  digits, data that reaches each of the fourteen Expanded methods, both sides of
  each look-ahead of the general field, and lengths around the end of a symbol
  character. Code 128 gets all data of up to four bytes over one byte of each kind.
* One process id for all processes is the worst case for temporary names: every
  restart reuses it. The file starts missing, with a printer and a table of a
  skipped transport, or invalid. Three registrations over two names collide on a
  name and still leave one that adds; `MaxInterruptions` and `MaxFaults` bound
  crashes, failed removals and I/O errors to one each, so that a crash leaves a
  temporary and a later registration runs into it.
* Three requests let two wait for one name while the third prints under another
  name for the same printer; two pieces are the least that can be mixed.
* Four-bit addresses hold a network of four, an alias whose netmask covers itself
  alone, and one too large; two probes at once with two targets that share a machine
  make an answer arrive twice. `MaxScans` lets a second scan follow a cancelled one,
  with events of the first on the way (`MaxBreaks`, `MaxAdded` are one).
* In the extension two subscriptions are what one port shares, a second port and
  attempt are what a reconnection needs, and one trouble of each kind falls at any
  moment. Two requests are what the remembered port is contended by; the popup's
  acts (`MaxActs`), failures and passes likewise.
* Deadlock checking is off only where the system may rest: connections that are
  done, a rendered job, a command that exited, a stopped server, a page nobody
  touches, a monitor nobody calls any more because every generation is used up.

## Fairness

* The runtime polls every task that can move: weak fairness per task (`TaskStep`,
  `StreamTask`, `ServerStep`) and per registering handler (`HandlerStep`). The
  interval of the monitor gets no fairness, so its wake-ups alone have to carry a
  registration.
* A rendering returns (it is a loop over finite input on the blocking pool) and the
  idle timer of a silent connection fires: `WF(IdleElapsed)`.
* Clients owe nothing: connections may stay open and silent, a browser may stop
  reading. `StatusStreamCatchesUp` alone assumes a browser that reads, and says so
  in its own statement (`ReaderFairness`).
* File operations return and the advisory lock goes to some registration that
  waits: weak fairness of each registration's step (`FairConfigSpec`). Crashes and
  faults get none. It says nothing of which waiting registration gets the lock.
* A connection attempt, a probe and a write end at the latest with their timeouts
  (`PrintFairness`, `WF(Probe)`). A USB write and its flush are
  taken to end likewise, inside nusb. Callers owe nothing.
* The browser dispatches the events it received and delivers messages of open
  ports; promises of the browser settle; the worker's timers fire (`Fairness` of
  `DiscoveryPage`, `FairRelay`). A server that stays up publishes. That it stays up
  is a premise of `SubscribersAreAnswered`, not fairness.
* The jobs page's timer fires (`WF(Poll)`), and requests do not fail or get aborted
  for ever (`SF(ShowAnswer)`): the page polls on after a failure. Both are premises
  of `ViewerCatchesUp` (`PageFairness`).

## Disagreements

Five are runs whose one property states what a document says.

1. `monitor_selected_file`: `POST /api/printers/add` saves to the default file even
   when `serve --config` selected another, so the monitor it wakes reads a file
   without the new printer.
2. `capture_latest`: `finalize` stores jobs in the order their renderings end, so
   the viewer can go back to an older job.
3. `extension_revocation`: on Firefox the popup's pass writes grants it read before
   a revocation; the relay stays registered until the next permission event.
4. `code128_braces`: the planner doubles a brace even after SHIFT, where the encoder
   takes one byte: data 01 7B 01 fails, 01 7B 41 loses the A.
5. `databar_dollar`: `$` in GS1 DataBar Expanded is written as 231, whose eight bits
   begin with the seven of `z`.

Met on the way, without a run of their own:

* A page polled between `replace_captured` and `end_capture` keeps a document without
  `input_url`, and so hides the download until the next job or a reload
  (`use-current-job.ts:31`, `web/jobs.rs:125`).
* `printers discover` tallies a printer before its line is written: when the write
  fails and Ctrl+C follows, the hint names a printer that was never listed
  (`discover/cli.rs:162`, `:277`).
* A job that begins with a cut, or has two in a row, pushes a sheet without height,
  which `encode_png` refuses: the whole rendering fails.
* `trace.rs` says the first command carries the style the job starts with; the style
  recorded is the one after the first command. The described data of an odd ITF
  barcode includes the digit that is dropped before encoding.
* A UPC-E or GS1 check digit supplied with the data is printed unverified; FNC1 in
  place of the first digit of a DataBar GTIN underflows a byte (a panic in a debug
  build, modelled as the release build wraps); Code 39 data of a lone `*` prints a
  single start character; the Code 128 planner is not minimal once upper bytes occur
  (`barcode.rs:799`).
* A popup may show "Not allowed" after a grant elsewhere; the worker's `list` fails
  while another HTTP server holds the remembered port; subscriptions of a page whose
  grant was removed stay on a port the worker closed (`Orphaned`); the SDK's README
  says the first callback receives the retained snapshot, which a denied or
  unreachable one does not.
* A printer registered elsewhere after a scan was prepared is still listed as new
  (`unseen`).
* `add/http.rs:56` says the command's `ambiguous_without_serial` compares the device
  with every other one connected; `usb_add_targets` (`add/cli.rs:592`) compares it with
  the unconfigured ones, so a device without a serial number that is added beside a
  configured one of its model, saved with its serial number, gives no warning.
* The warning (`add/operation.rs:6`) says printing may reach the wrong device while two
  are connected; `require_unique_device` refuses to print then, which is what
  `JobsReachChosenDevice` shows. It may reach a twin while the chosen one is unplugged.
* `printers discover` shows the second of two identical devices without serial numbers
  as new and hints at `printers add`, which does not offer it: a table without a serial
  number matches both.

## Proofs

`InventoryProofs` proves, for any finite set of streams, any handlers and
files and any bounds:

* `TypeCorrect`, `OnePollerLives`, `CollectionsExclude`: the invariants of
  `monitor_safety`. None is inductive alone. The invariant adds that the holder of
  the collection mutex is exactly the task that stands in a collection, that only
  the newest generation's task may be unaborted, that no generation above the
  newest was born, and that `subscribers` is the cardinality of the open
  subscriptions (with the finite-set lemmas for adding and removing one).
* `ViewsMonotonic`: a subscription never hands out an older read. It rests on the
  order retained snapshot <= published snapshot <= what a collection under way has
  read, which in turn rests on mutual exclusion.
* `MonitorImplementsFeed`: the initial state maps to the feed's, and every step to
  a feed step or a stutter. What a task publishes lies between the registrations
  when its session began (`floor`) and now, because the check of the generation and
  the publication are under one mutex.

Assumed are only the named assumptions of the modules: the streams are finite, the
two files are files, the bounds are natural numbers.

`JobsProofs` proves, for any finite set of connections, any number of
chunks, with or without the idle timeout: `StatusIsExact`, `BytesAreKept` and
`CaptureTypeCorrect`. The invariant adds what a task's place says of its local
variables: a connection is counted exactly from `begin_capture` to `end_capture`,
its buffer is empty unless it is counted, and after a job was taken from the
buffer nothing is left in it until the next read. Without the last, the idle
branch's `receiving = false` could leave bytes that are not counted. The store's
counter is then the cardinality of the counted connections.

It also proves `FetchesMatch` and `ViewerMonotonic` of the page, from the same
invariant and two facts about the page: whatever refers to the store's id stands
for the store's job (ids grow by one with every job stored, so none is used
again), and there is at most one answer under way, no older than what is shown.

`PrinterConfigProofs` proves, for any processes, process ids, registrations,
readers, crashes and faults: `AddedStays`, `WritersOwnTheirFiles`,
`ReadersSeeWholeFiles`, `FileStaysGood`, `ConfigTypeCorrect` and the refinement
`ConfigImplementsRegistry`. The invariant says that exactly the registration with
the lock is between `lock()` and its return; that temporary names name different
files, none of them `printers.toml`; that what a registration read under the lock
is still the file's text, and its own file holds a first part of that text with the
new table after it; and that a reader has a first part of a file nobody writes any
more. The rename then makes the file's text exactly the old one with one table of
a new name after it, which is `Register`, and every other step leaves it alone.
Assumed is that registrable connections parse (`ConnectionAssumption`), which is
what `Request::new` checks, and that the file does not start with a name twice,
which TOML refuses.

`PrintJobsProofs` proves, for any requests, names and printers:
`TransfersHoldTheLock`, `JobsAreNotMixed`, `TargetsAreCurrent`, `LocksAreBounded`
and `PrintTypeCorrect`. `JobsAreNotMixed` is the deep one: the pieces of a request
that is not sending any more stay contiguous because whoever sends to the endpoint
holds the lock of the only name that denotes it, or has claimed the USB interface.

`InventoryProofs` also proves `JobsReachTheirDevice`, for any devices, ports, names and
commands. The invariant says that the device a name was registered for matches the
table of that name, and that the command keeps the device and the connection it is
about to save together through its questions. A job then goes to the only device that
matches, so to that one if it is plugged in. Assumed is that the devices are finitely
many.

`WaysToMatchAgree` states `MatchersAgree`, from two more parts of that invariant: a
port holds one device, and a table names a route of a device. Discover and list are one
loop over different things in order (`InTurn`): by induction over its turns
(`TurnKeeps`) the things that had theirs precede the others, what they claimed is what
matches them, and one is shown exactly if a table matches it and nothing that precedes
it (`ShownFoundFree`). A table that matches a device matches just the interface it
names (`InterfacesMatch`), so the loops over devices and over interfaces end alike,
because all interfaces of a device follow those of the devices before it. Assumed
are finitely many devices and interfaces numbered by a byte (`RoutesAssumption`).

`AnswersAreKept` is the promise of `POST /api/print`: an answered job id means that the
whole payload reached the printer of the name asked for, in order and once, and no
other printer. `HandedInv` says it while the transfer runs: the numbers of a
request's pieces on a wire are `1..sent` on its target's wire, in that order, and none
anywhere else; and the target is the registered one as long as the request lasts.

`DiscoveryProofs` proves `ShownIsWhatAnswered`, `NewResultsAreUnregistered` and
`SuccessfulListingIsWhole`, for any machines, named networks, printers on the USB bus and
any number of concurrent probes. From the scan up:

* `ScanInv`: an address to probe is untried, being probed, answered or joined, in one of
  them only, and `done` is the number of the joined ones.
* `PollSays`: what a poll adds to what is under way are the printers that were not
  announced before, each once, then a count that stands for all joined probes, then, if
  nothing is left, the closing event. `LaterPoll` joins in any order, so this is an
  induction over the order, which the proof does by hand (`LeastNumber`, `UpTo` and
  `StepByStep`: a set of numbers has a least one), as it does for the other recursive
  functions (the adapters detected, the events a command lists, the sizes of the networks
  that add up to the shown total).
* `NamedAddressesAreProbed`: the addresses of the targets that `validate` keeps are those
  `AddressesSwept` names, the reader's understanding of sweeping a network.
* `PageInv`: exactly the connection of the running scan is open; every printer announced
  is a row of the page or under way, once, and marked as the scan's configuration has it;
  the counts shown are the scan's once what is under way has arrived; the closing event is
  the last one. The invariants the run checks are not inductive without it: an
  event is on its way when the page cancels, starts again or registers a printer.
* `CommandInv`: until a write fails or the reader of the output leaves, what was announced
  was printed.

`ExtensionProofs` proves, for any requests, ports, moves and losses,
`PrintsAtMostOnce` and `CalmRequestsSucceed`. `PrintInv` relates a request's place to
what the server may have accepted: before the call nothing, and a print never gets back
from an invalidation to a call. `CalmCall` follows an undisturbed request: a scan has the
server's port still before it, and the remembered port is outdated at most once. For any
origins, tabs and passes it proves `RegistrationFollowsGrants` and
`RestingPopupTellsTruth`: a pass that read after the last event holds the grants as they
are, and a task of the popup that is the newest one holds the active tab's site.

For any subscriptions, ports, attempts and troubles it proves of the printer streams
`OneStreamPerPort` and the action property `SnapshotsNeedGrant`. `PortInv` says that of a
port's attempts that are not settled only the newest is not aborted, that it is held only
by an open port with subscriptions and no timer, and that an open port that streams or
has a permission implies that the grant was not removed since.

Assumed, beside bounds that are natural numbers and sets that are finite: a USB device is
enumerated once (`UsbListsOnce`), the machines' adapters and the networks asked for are
addresses and subnets of `AddressBits` bits (`MachinesAssumption`, `QueriesAssumption`,
`CommandAssumption`), and a popup's first revision is 1 (`PopupAssumption`). Each is a named assumption that TLC evaluates in the runs.

`ReceiptProofs` proves, for any bytes, any profiles that pass their checks, any limits
and any answers of the encoders, `LineStartIsEmpty`, `SheetsStayWithinLimits`,
`TraceTellsPaper` and `TraceNamesCommands`. The invariant of the printer, `Good`, has four parts beside its types:

* the line is empty while it is unbegun, which every operation that begins one or
  feeds one restores;
* the roll and the sheets are within the limits, where the dots of all sheets are a
  sum that grows by the area of the roll when it is cut (`DotsOfSheets`, by hand as in
  `DiscoveryProofs`);
* `Filed`: what is marked on the line or the roll is of a command filed under the sheet
  that is being composed, and what is marked on a sheet is filed under that sheet. It
  holds because only an unbegun, and so empty, line lets the paper be cut;
* `Kept`: what the trace told as committed is on a sheet or on the roll, which is higher
  than nothing.

An operation is `Quiet` (it marks the roll with nothing of the command at hand) or has a
`Result`: a command that marks the roll leaves it on the sheet it found, so the entry
written after the command files it where it is. `FinishedTells` puts these together:
each command is filed once (`Numbered`), so what is marked on a sheet leads back to one
entry, and `finish` corrects exactly the entries whose line was printed later.

`TraceNamesCommands` compares the two readings of a command: the interpreter's, which
executes it, and the one `trace.rs` makes of the bytes that were executed
(`CommandDescriptions`). An entry's bytes are the slice of the job from where the
command began to where it ended (`IsSlice`), and `Named` says of an executed command
that this slice read again names it with the parameters it was executed with. There
is one lemma for each command and its conditions (`ESC`, `GS`, tab stops, both barcode
functions, graphics behind either header, the QR functions), put together by
`NamedByEsc` and `NamedByGs`; text, line feeds, justification, code tables and printed
QR symbols are described by the interpreter itself and are not read twice.

Assumed of receipts are that a job is a sequence of bytes, that profiles are checked as
`validate_runtime_profile` does (`IsProfile`), and that limits are natural numbers.

`Code128Proofs` proves `UnshiftedScansBack`, the part of `SymbolsScanBack` about Code
128, for any data and any GS1 payloads (`PlannedDataScansBack`): unless the planned way
puts a brace behind SHIFT, which is the defect `code128_braces` shows, the encoder accepts
the plan, a scanner reads the data and the checksum holds. The steps are those of the
code:

* `PlanInv`: the rows the planner has so far hold, for every set and latch, one of the
  `Sensible` choices: a control symbol, a pair of digits in set C, or a character of a set
  that has it, with the FNC4 its half of the bytes needs. Costs do not matter.
* `Says` relates the explicit text to the reader: some code of the text from a position
  on, read by a scanner of a given set, latch and pending FNC4, adds given tokens to what
  it has read. Each piece the writer writes has a lemma (`SaysSet`, `SaysHalf`,
  `SaysCharacter`, `SaysBehindShift`, `SaysControl`, `SaysPair`), and `ChoiceSays` puts
  them together for one choice. `SaysBehindShift` needs the exception: the encoder takes
  one byte after SHIFT, and a brace is written as two.
* `PlanSays` goes backwards over the places of the plan, whose text (`IsPlanText`) and way
  (`IsPath`) are the functions `Explicit` and `Followed` choose. That such recursive
  functions exist, and what they are at each place, is `RecursionExists`, an induction by
  hand over the least number (`LeastNumber`, `UpTo`, `DownFrom`).

Assumed are payloads of bytes (`PayloadsAssumption`).

Model-checked only are the rest of `SymbolsScanBack`, the linear symbols and DataBar,
whose modules and bits a scanner takes apart at positions that depend on all of the data
before them, and `Code128IsShortest`, which compares the plan with a search through all
sequences of symbols.

Some of what is proved is not run, because the theorem says it for every instance:
the type invariants, `OnePollerLives`, `WritersOwnTheirFiles`, `TransfersHoldTheLock`,
`TargetsAreCurrent` and `LocksAreBounded`.

Only model-checked as well: every liveness property (`RegistrationReachesStreams`,
`StreamsGetFreshSnapshot`, `ProbingStops`, `ReceptionEnds`, `ViewerCatchesUp`,
`StatusStreamCatchesUp`, `RegistrationEnds`, `RunningScansEnd`,
`CallersAreAnswered`, `SubscribersAreAnswered`), because liveness under fairness
and ENABLED are out of the prover's reach.

## Not modelled

Presentation (panels, annotation geometry, the popup's rendering, output
formatting), argument handling and the words of prompts, and build-time code
(profile pack, license bundles). Fonts, pixels, the tables of characters and QR
matrices are data: a surface is its height and marked regions, and what a QR encoder
answers is an input. The bars of Code 39, Codabar and Code 128 are tables; their
symbol values are compared instead. Telemetry and the routing and origin check of the
web host have little state and are `not_modelled` in `PROJECT.json`, each with its
reason; of profiles only the check of their values is modelled.

`escpost print` sends from its own process without a lock, so it may mix with a job
of the server; `printers.toml` edited by hand while a registration holds the
advisory lock, or while print jobs wait, is not modelled either; nor is a server
that stops in the middle of a transfer.

Of `printers add` the profile and the port are left out, and so is a USB device that
changes its interfaces; transfers are one at a time here, `PrintJobs` has several.

A restart of the server under an open page is not modelled: job ids restart at 1,
and a page keeps the document it has for an id it already shows. The page's parsing
of numbers in a subnet is stricter than the server's (`+24`, `024`), which no run sees
because subnets are values here. Chrome's grants, kept in storage, appear only as
the answers they give the worker.

## Plan

Done: the monitor and its refinement; the identity of USB printers; capture, viewer and status stream;
configuration and printing; discovery; the extension; receipts and barcodes.

Left, in order:

1. The inventory page's reconnecting stream, and the consent file of telemetry.
