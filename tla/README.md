# A verification development for aioenetd

TLA+ models of the daemon in this repository (`src/`, a TCP server for the
eNET-AIO16-16F data acquisition board), configurations that check them with TLC,
and proofs that the TLA+ proof system checks. Paths without a directory are
relative to `src/`.

## 1. The system

`aioenetd` listens on two ports. A *control* client sends messages, each a bundle
of data items ("DAC_Output1", "ADC_StreamStart", ...), and gets one reply for each
message; an *ADC* client connects to the other port and receives the blocks of
samples of a stream. The threads:

| thread | code | what it does |
|---|---|---|
| main | `main`, `exit_handler` (aioenetd.cpp:273-361) | starts everything, waits for a signal, takes everything down |
| control listener | `ControlListenerThread`, `HandleNewControlClients` | accepts a client, sends the hello message, starts its receiver |
| ADC listener | `AdcListenerThread`, `HandleNewAdcClients` | accepts an ADC client and tells it its connection id |
| receivers, one per control client | `threadReceiver`, `ProcessMessages`, `GotMessage` | cut the byte stream into frames, **construct** the data items, queue the message |
| ActionThread | `ActionThread`, `RunMessage`, `SendResponse` | takes messages from `ActionQueue`, **runs** each item's `Go()`, replies |
| ADC worker | `worker_main` (adc.cpp:78) | copies completed DMA blocks to `ring_buffer` |
| ADC logger | `log_main` (adc.cpp:35) | sends the blocks to the ADC client |

### Components

| component | state | operations | hard parts | what makes it correct |
|---|---|---|---|---|
| ADC pipeline | `ring_buffer`, semaphores `empty` and `full`, mutex, `AdcLoggerTerminate`, driver's DMA buffer | start, copy, send, cancel, close | two threads and the interrupt wait; a logger that dies; a signal in `sem_wait` | no unsent block is overwritten; each is sent once, in order; the session ends |
| ADC stream control | `AdcStreamingConnection`, `AdcWorkerThreadID` | `ADC_StreamStart` (constructor *and* `Go`), `ADC_StreamStop` | claimed on one thread, run on another, released by a third, no lock | one stream at a time; blocks go to the client that claimed it; the claim is given back |
| Control server | `ActionQueue`, descriptors, receivers' buffers | accept, receive, parse, queue, run, reply, close | descriptor numbers that are reused; a client that leaves with messages queued | bundles are atomic, replies go to their own client, in order |
| Message parsing and execution | a `TMessage` | `FromBytes`, `parsePayload`, `GotMessage`, `RunMessage` | one of several items failing, while parsed or while run | replies keep positions; errors show; a rejected message runs nothing |
| Framing | a receive buffer | `ReceiveFromSocket`, `ProcessMessages` | `recv()` splits and joins anywhere | frames are taken whole, in order, without delay |
| Shutdown | `done`, `ActionQueue`, the threads | signal, `exit_handler` | four threads that have to notice | every thread that is joined ends, and the card is reset only after that |
| Configuration store | `Config`, the files under `/var/lib/aioenetd` | seed, load, apply, set, save | crashes between two files; failing writes | seeding is completed; what was written before it was confirmed survives |
| ADC scans on request | channel range and trigger registers, FIFO | `ADC_RawAll`, `ADC_CountsAll`, `ADC_VoltsAll` | timeouts that leave conversions under way | values belong to their channels and to this scan |
| Register and DAC items | the card's registers, SPI buses, `Config` | `REG_*`, `DIO_*`, `DAC_*`, `ADC_Range*`, `ADC_Differential*` | read-modify-write; busy buses; DAC outputs converted when constructed, written when run | a bit item changes one bit; outputs are current |
| Upload and update | a file in `/home/acces`, one stream and one name | `SYS_UploadFileName`, `SYS_UploadFileData` | one session that all clients share; writes that fail and errors that stick to the stream | data goes to the file named last; a file closed without an error is complete |
| BRD and CFG items | `Config`, identification registers | `BRD_*`, `CFG_*` | members of `Config` derived from the model string by two parsers | what is derived fits what uses it |

How they interact: receivers and the ActionThread share `ActionQueue` (a mutex and a
condition variable, `safe_queue.h`); `ADC_StreamStart` is the bridge between the
control side and the pipeline; everybody reads `Config` and `done`; all hardware
access goes through `apci.cpp` to the APCI driver.

## 2. Modules, and the order of the plan

1. **AdcPipeline** - worker, logger, driver.
2. **AdcStream** EXTENDS AdcPipeline - the claim and the clients on top of it. Its run
   checks, and AdcStreamProofs proves, that every step of it is an AdcPipeline step
   (`PipelineSpec`): that StreamStart and StreamStop use the pipeline only as AdcPipeline
   assumes, until a claim is raced for.
3. **RequestServer** - what the control side promises its clients, abstractly;
   **ControlServer** - how it is done; `KeepsPromise` is the refinement
   (`Promise == INSTANCE RequestServer WITH ...`).
4. **TMessage**, **Framing** - one message, one byte stream.
5. **Shutdown**, **ConfigStore**, **Upload** - the life of the process and what survives it.
6. **AdcScan**, **CardItems** - the data items that work on the card.

The proofs are in modules of their own, each of which EXTENDS what it is about:
**AdcStreamProofs** (AdcPipeline's proofs, and after them AdcStream's, which rest on them),
**ControlServerProofs**, **TMessageProofs**, **FramingProofs**, **ShutdownProofs**,
**UploadProofs**, **ConfigStoreProofs**, and **CardProofs**, which EXTENDS both AdcScan and
CardItems: the two have no name in common (AdcScan's are `ScanInit`, `ScanSpec`, ...).

Each specification but RequestServer has an `MC...` module and a `.cfg` of the same name.
Operators with the comment `FAULT (X)` are faulty variants of X that the properties are
meant to catch; no specification uses them.

### How state and actions correspond to the code

* **AdcPipeline**: `wpc` and `lpc` are program counters through `worker_main` and
  `log_main`, one action for each step between two accesses to shared state. `first`,
  `num`, `i`, `started`, `rd`, `empty`, `full`, `ring` are the variables of adc.cpp; a
  block is its number. `dslot`, `produced`, `finished`, `dmaOn`, `cancelled` are the
  driver's. The mutex is not a variable: it is held across a state change only during
  `send()`, where `lpc = "sending"`. `AdcStreamTerminate` is assigned in four places and
  read in none, and is left out. `interrupted` says that a signal made `sem_wait` fail
  (EINTR; handlers are installed without SA_RESTART, aioenetd.cpp:395): the worker then
  copies without a free slot, so the ring's invariants are stated for sessions that
  were not interrupted - the server is on its way out then.
  Assumed of the driver: the ring is reset when the transfer size is set; an interrupt
  that comes early is remembered; a cancel may or may not be (apci.cpp:91 cancels device
  index 0 while the worker waits on index 1, adc.cpp:131).
* **AdcStream**: `conn`, `workerId`, `loggerConn` are `AdcStreamingConnection`,
  `AdcWorkerThreadID` and the logger's copy. `parsing` follows each receiver through the
  constructor of StreamStart: test (`CheckFree`) and assignment (`TakeClaim`) are two
  steps, as nothing locks them, and the item is queued or, with `Rejects`, dropped; with
  `EmptyStarts` an item may carry no connection id, or the id -1 (`Named`; the code takes
  any integer), and then takes no claim. The
  ActionThread's `Go` is the steps `GoSize`, `GoThread`, `GoId`, `GoDma`. Two history
  variables: `raced` (two receivers have passed the test together, or a start took no
  claim: ADC_.cpp:55-60) and `orphaned` (the start for which the claim was taken came to
  nothing).
* **ControlServer**: `fdTable` is the kernel's table: lowest free number first. Frames
  are request numbers with a kind. A receiver closes its descriptor twice
  (aioenetd.cpp:962, 977), and both are modelled. Clients connect whenever they like.
  The history variable `reused` remembers that an `accept()` has handed out a number that
  a receiver, a queued message or the ActionThread still named (`InUse`). `Readers` are
  the clients that read what they are sent; to any other one that stays, `send()`, on a
  blocking socket without timeout (aioenetd.cpp:1152), may never return (`SendReturns`).
  ADC connections are left out.
* **TMessage**: a data item is what the code makes of it ("ok", "code", "throws",
  "refused", "unknown", "badlen", "overrun", "scrap"); the actions are the loop bodies of
  `parsePayload` and `RunMessage` and the stations between them. Reading past the end in
  `isValidMessageID` (24 entries of a vector of 7) makes `listed` a free choice for MIds
  that are not in the list.
* **Framing**: bytes are numbers, frames are intervals; a frame out of step is read with
  an arbitrary length.
* **Shutdown**: program counters of main, listeners, ActionThread and worker around the
  flag `done`. A receiver runs the items of its hello message itself, on the card
  (aioenetd.cpp:645-657, 948): `greeting` counts the receivers that do. After that they
  only add to the queue, and nobody joins them.
* **ConfigStore**: one field stands for all members treated alike; `todo` is the list of
  keys whose files are still to be written, `tmp` that the temporary file of the first is
  written and not renamed; what is written is found when it is (`Wanted`, `Contents`);
  `Crash` is possible between any two steps. Reading all files is one step; the
  directory sync is taken to work; the host name and the subtree `config.user`, which
  nothing writes, are left out, as are calibrations made with `REG_Write1`. A model
  string is what its parsers see in it (sound or not, with DACs or not, the number in its
  block, its options); `DacCount` and `ChannelCount` are the two parsers, the first with
  the conversion of -1 to a `__u8`.
* **Upload**: the stream is `open`, `bad` (its error state) and `pending` (its buffer),
  a file is the sequence of data items that has reached it. `Close`, `Open` and
  `WriteData` are what libstdc++ and the file system do, failures included; `CloseLast`,
  `OpenNamed`, `GoData` and `GoEnd` are the branches of `UploadFilesByDataItem`, in
  messages of any client. `Crash` loses the buffer. `named` and `asked` remember the
  last name item and the data items run since.
* **AdcScan**: `pc` goes through `ADC_AcquireScanRaw`; samples carry their channel and,
  for the properties, the number of the scan that started them. Since the code zeroes
  the oversample register and then reads it, the averaging branches are never taken
  and are not modelled. How `AdcRawToVolts` writes a value down is not modelled
  (its table gives gain code 2 as 2.0 V where the comment above says 2.5 V).
  A scan while a stream runs is not modelled.
* **CardItems**: a register is the set of its 1 bits; a read-modify-write is two steps.
  `REG_ClearBits` and its kind are a bit item for each of their bits at once. A DAC
  output remembers with which version of each setting its counts were made; the output
  in volts, which reads all three settings, stands for both. That a write to a busy SPI
  bus may be lost is an assumption about the card, and the reason the code waits.
  `WaitUntilRegisterBitIsLow` heeds 100 looks: the 101st gives up whatever it shows.
  Bit numbers of 32 and more, which the items do not refuse, are undefined shifts and
  left out.

## 3. What the runs check

All runs pass except the last two, each of which exhibits a disagreement between the
code and its comments. TLC explores every state of every instance that passes.

| run | instance | states | what it shows |
|---|---|---|---|
| MCAdcPipeline | 2 slots, 4 blocks | 143 k | the two semaphores account for every slot (`TokenAccounting`), no unsent block is overwritten (`UnsentBlocksIntact`), blocks are sent once and in order (`SendsInOrder`); every copied block is sent (`EveryBlockSent`), a waiting worker gets a slot (`SlotComesFree`), a closing session ends (`CloseCompletes`), so does a cancelled one whose source is not ahead of the worker (`CancelEndsSession`) |
| MCAdcStream | 1 slot, 1 block, 2 receivers and 2 connections (symmetric), queue of 1, rejected messages, StreamStarts that name no connection | 1.3 M | `StreamsDoNotOverlap`, `LoggerServesClaimant`, `PipelineSpec` until a claim is raced for; `ClaimHasReason`, `OneWorkerAtATime` always |
| MCControlServer | 2 clients, of which 1 reads, 2 descriptors, 2 items, 2 requests, 3 kinds | 447 k | `BundlesAreAtomic`, `RepliesFollowRuns`; until a descriptor in use is handed out, `MisdeliveredByReuse`, `ReceiversKeepApart` and the refinement `KeepsPromise`; unless a `send()` blocks for good, `EveryRequestAnswered` |
| MCTMessage | up to 4 items of 8 kinds | 80 k | `PositionsMatch`, `AllItemsRun`, `ErrorsShowInMId`, `RejectedRunsNothing`; the reply to a well formed message has an item for each of its items (`SoundAnsweredInFull`) |
| MCFraming | 3 frames, header of 2 bytes, payloads 0, 1 and oversize, any `recv()` | 946 | `FramesAsSent`, `NoFrameWaits` |
| MCShutdown | 2 messages, 1 hello message at a time | 14 k | the card is reset only when the ActionThread and the listeners have ended (`MessagesAtRest`); a signal ends the process (`SignalEndsServer`) |
| MCConfigStore | 2 values per setting, 2 models, 1 failing write, any number of crashes | 4.2 M | seeding is completed after a crash (`SeededWhenStamped`), a DAC range, model or serial number that was answered survives (`PersistedSettingsSurvive`), a clean exit keeps all of `Config` (`CleanExitKeeps`) |
| MCAdcScan | 3 channels, 2 scans | 36 k | `ValuesMatchChannels`, `ScanIsCurrent`, `AwaitsOwedSamples`, `ScanEnds` |
| MCCardItems | 2 registers of 1 and 2 bits, 1 client, 3 items, 2 looks | 786 k | `BitItemsDoOneBit`, `SettledOutputsCurrent`, `MessagesEnd` |
| MCUpload | 2 clients, 2 paths (symmetric), 4 data items, 2 failing calls, any number of crashes | 288 k | data goes only to the file named last (`OpenIsNamed`), a file closed without an error is complete (`ClosedFilesComplete`) |
| MCControlServerTwice | 3 patient clients that all read, 2 descriptors | | violates `RepliesAreOwn` |
| MCConfigStoreModel | as MCConfigStore, 5 models | | violates `HelloPassesGuard` |

**Why the bounds are enough.** Two slots make the ring full, empty and wrap around, and
four blocks go round twice; the proofs cover every size. Two receivers are what a race
takes. For the claim the ring is of no importance, so that one slot does, and a queue of
one lets one start wait while another is constructed and a third runs; once a claim has
been raced for, no property of MCAdcStream and no guard looks at what the ring and the
logger hold, and its `VIEW` leaves that out. Two clients with
two messages of two items give every interleaving of bundles; and are enough
for a descriptor to be handed out again; a third client is needed only to get hold of one
that was closed twice. One of the two clients may stop reading. Four items give one item before,
at and after each of two failures. Three frames give an oversize frame first, last and
between two others; `recv()` may return anything from one byte to several frames. Two
scans let one inherit what the other left behind, three channels give empty, partial and
full ranges. Three card items are a setting, an output and one more; the wait is
exhausted at 2 looks as at 100. An upload takes a name, data that stays in the buffer and
data that pushes it out; four data items are two for each of two uploads, and of two
failures one may hide the other.

**Restrictions that a property needs**, each a named constant, premise or history
variable: `LateStart = FALSE` in MCShutdown (no StreamStart is still queued when the signal
comes); in AdcStream the properties about the claim say `raced \/ ...`, and in
ControlServer those about who gets what say `reused \/ ...`: they hold until the thing has
happened that breaks them, and show that nothing else does. `EveryRequestAnswered` has the
premise that no `send()` blocks for good (`SendStalls`), `CancelEndsSession` the exception
of a source that has a block ready whenever the worker looks (`NextBlockReady`; a cancel is
seen in `apci_wait_for_irq` alone, adc.cpp:126-131). Without them the properties fail:
section 6. `SettledOutputsCurrent` is a property of one client: it holds
for outputs constructed while no setting is queued or being run; a second client may slip
a setting in before them.

**Deadlock** is checked in MCConfigStore and MCUpload. In the other runs the cfg turns it
off since the system really may stop: the clients' requests, blocks and items are bounded
and are used up, the process ends, or (MCAdcPipeline) a worker waits for good for a dead
logger.

**Type invariants.** `TypeOK` of AdcPipeline is checked by its run. Those of the other
modules (`TypeOK`, in AdcStream `StreamTypes`, in AdcScan `ScanTypeOK`) are proved (section
4) and kept out of the runs, which spend their time on what could be wrong.

**Fairness.** Threads are scheduled: weak fairness of worker, logger, ActionThread and
receivers (`Fairness`, `FairSpec`). The logger's `send()` returns because ADC clients read
or go away. Of control clients only `Readers` do: in ControlServer the ActionThread's
`send()` to another one is fair only once that one has left, and what follows from it is
said in the premise of `EveryRequestAnswered`. A listener's `select()` times out after a
second (aioenetd.cpp:565). Nothing else is assumed of clients, and nothing of signals, the
hardware, the SPI buses, the ADC, or crashes; a receiver in the middle of its hello message
may stay there. `CloseCompletes` and `CancelEndsSession` say in their premise what else the
code needs (a logger that has begun its loop).

## 4. What is proved

Every theorem is proved for every value of the constants, from the assumptions that the
modules name (`SlotsAssumption`, `ClientsAssumption`, ...). Each rests on an inductive
invariant, for none of the properties is inductive as it stands.

**AdcStreamProofs**, of AdcPipeline, from `SlotsAssumption` (at least one slot) and
`MaxBlocksAssumption`: `PipelineTypeOK`, `TokensAccounted`, `UnsentIntact`, `InOrder`
(`SendsInOrder`), `OnlyCompleted`. All follow from `Inductive`: `Spec => []IInv`, where

    IInv == ControlInv /\ TokenAccounting /\ RingPosition /\ UnsentBlocksIntact
    ControlInv == TypeOK /\ DriverOK /\ BatchOK /\ ThreadsOK /\ StartOK

That the slot the worker copies into is none of the unsent ones takes two facts: that
there are at most `Slots` unsent blocks less one (`TokenAccounting`: the worker holds a
token of `empty`), and that the driver's slot is where the worker's run of blocks
continues (`RingPosition`), as nothing in the code compares the two indices: the worker
takes its index from the driver, the logger counts its own. `RingPosition` in turn needs
that the batch announced is still in the DMA buffer (`BatchOK`), that driver counters keep
apart by at most the ring (`DriverOK`), that a session starts with both indices at 0
(`StartOK`), and who exists when (`ThreadsOK`). `ControlInv` is proved first, by the
actions of worker, logger and environment; the other three conjuncts relative to it.
Arithmetic modulo `Slots` is in lemmas on `Wrap`.

The same module, of AdcStream, for any receivers, connections and queue: `StreamsApart`,
`LoggerServes`, `ClaimReason`, `OneWorker` (the four properties of MCAdcStream of these
names), `StreamsUsePipeline` (`StreamSpec => PipelineSpec`: the composition refines
AdcPipeline) and `StreamsKeepPipeline`, which carries the theorems about AdcPipeline
over to the composition. `StreamInv` says of the threads what holds whoever races
(`StreamTypes`, `ThreadsOK`, `WorkerKnown`, `ReasonOK`) and, unless `raced`, that there is
one claimant: `Exclusive` counts the starts that are checked, claimed, queued or run
(`CheckedOK`, `OneStart`), and ties the claim to them and to the worker (`ClaimOK`,
`ReadyOK`). What makes it inductive is that a claim is given back only by a worker about
to end, whose logger has been joined.

**ControlServerProofs**, for any number of clients, descriptors, items and requests, and
clients that come and go at any time: `ServerTypeOK`, `KeptApart` (`ReceiversKeepApart`),
`OwnReplies` (`MisdeliveredByReuse`), `BundlesRunWhole` (`BundlesAreAtomic`),
`RepliesAfterRuns` (`reused \/ RepliesFollowRuns`), and `PromiseKept` (`KeepsPromise`: the
refinement of RequestServer). Nothing is assumed of the order in which descriptors are
closed and handed out. What depends on it is proved to hold until an `accept()` hands out
a descriptor that is in use: that is the one event behind every misdelivered reply, and
descriptors that are closed twice or handed out again do no harm before it. `FreshStep`
says what a step is that is not such an `accept()`. The argument has seven layers; but for
the first two, each holds as long as `reused` does not, relative to those before:

    Base      types; a thread has a descriptor, the ActionThread in action a message
    Batch     the items that have run are whole messages, but for the one in hand: this
              needs nothing but the ActionThread, and holds of any descriptors
    Desc      no two receivers that have not ended have the same descriptor, and what
              the table says of one is its connection or nothing: a second close() hits
              nobody
    Own       frames in a socket or buffer are their client's, and a queue item names
              a descriptor that means its client or nobody
    InOrder   a request moves from socket to buffer to queue to ActionThread; what is
              further along has the smaller number, and so has all that has run or is
              answered
    Runs      the items of the message in hand have run up to `item`, none of those
              of a message not yet taken; all that has run is in whole messages
    Greeted   the hello message is the first that a connection receives, and nothing of
              a client is under way before it

The refinement maps a client's unanswered requests to the set of their numbers, wherever
they are (`WaitingMeans`). `Held` requests are in the queue or in hand, `Received` ones in
the socket or the buffer. All steps within the server leave that set alone (`PromiseSame`
and the `...KeepsPromise` lemmas); `RequestSubmits`, `ResponseAnswers` and the three
`...Departs` lemmas take one action of RequestServer each. `InOrder` is what makes the
request in hand the oldest, and what is dropped with a connection the newest.

**TMessageProofs**, for frames of any length: `TMessageTypeOK`, `ReplyPositions`,
`EveryItemRuns`, `ErrorShown`, `RejectedNotRun`, `AnsweredInFull` (`SoundAnsweredInFull`). The invariant is
`Shape` and one conjunct for each station of a message, which says how far it has come.

**FramingProofs**, for any frames and any header length: `FramingTypeOK`, `QueuedAsSent`,
`WholeFramesTaken`. `InStep`: the front of the buffer is where the last frame queued ends.

**ShutdownProofs**, for any number of messages and receivers, late starts included:
`ShutdownTypeOK`, `ResetAfterMessages` (`MessagesAtRest`). `Joined`: what `exit_handler`
has waited for has ended and stays so. It waits for neither the receivers nor the ADC
worker, and nothing is proved of these.

**UploadProofs**, for any clients, paths, messages and failures: `UploadTypeOK`,
`OpenStaysNamed`, `ClosedComplete`. `NothingLost`: as long as the stream is good, what is
in the file and what is in the buffer are together the data items run since the name.

**ConfigStoreProofs**, for any settings, models and number of failing writes:
`ConfigTypeOK`, `SeedingKept` (`SeededWhenStamped`), `CleanExitKept` (`CleanExitKeeps`) and
`PersistedSurvive` (`PersistedSettingsSurvive`), of the settings that are written before
they are answered: the DAC ranges, the model and the serial number. The assumption is that the default values are
values of their fields and that a torn file is not one. The layers, each relative to
those before:

    Base      types, and which function may have which keys left to write
    Seeding   factory holds defaults only; while no write has failed, a key is in the
              tree being seeded or still to be written
    Saving    the same of what is written from Config; and what a clean exit left in
              the files stays there until the next start has loaded it
    Survival  what LoadConfig would find of a persisted setting (`Stored`) is a value
              that a client may find set, and is what a running process has in Config,
              or, between the two steps of TDAC_Range1, what it is about to put there

`Survival` is why TDAC_Range1 must write the file before Config, and the reason for the
premise that no write fails in the case of the model and the serial number: `Answer` takes
what is in Config for stored, which `Saving` alone says.

**CardProofs**, of AdcScan, for any number of channels and scans: `ScanTypes`,
`MatchingValues` (`ValuesMatchChannels`), `CurrentScan` (`ScanIsCurrent`) and `OwedSamples`
(`AwaitsOwedSamples`). The assumption is that `Missing` is no sample.

    ScanBase  types; the channel range of `cfg` is that of the registers from the reading
              to the answer, one sample is expected of each channel, and none that was
              collected is invalid
    Current   unless there were late conversions, the samples collected, in the FIFO and
              under way are no more than expected; and if as many, they are, in this
              order, those of the range, converted for this scan
    Owed      if nothing came between, they are as many, and all valid: the discarded
              conversion has been, or will be, the first since the reset

`Current` needs the drain: what earlier scans left behind is gone when this one is started.
`Owed` needs the discarded conversion, which takes the invalid sample upon it.

Of CardItems, for any registers, widths, messages and settings: `ItemsTypeOK`, `BitItems`
(`BitItemsDoOneBit`) and, under `SingleClient`, `SettledCurrent` (`SettledOutputsCurrent`).

    Base      types; between its read and its write a bit item's `value` is what is in
              the register (the trigger register apart, which the ADC worker writes)
    InOrder   an output constructed with no setting under way has none before it in its
              message, in the queue or in hand until it is written, and holds the
              settings in force

While a setting is run, `InOrder` leaves no such output anywhere behind it
(`SettingInOrder`): this is why `Config` may change. `SingleClient` is needed where a
receiver queues its message, which must not come before another receiver's output.

**Only model-checked**: all liveness (fairness and ENABLED are out of the prover's reach),
and that an R reply follows the run of all its items even after a descriptor in use was
handed out (`RepliesFollowRuns` without `reused`).

## 5. Findings shown by a run

* **MCControlServerTwice** - a receiver thread closes its descriptor twice
  (aioenetd.cpp:962, 977). In between the number may be handed out; the second close takes
  it away from its new owner, and the next client to get it receives the other's
  replies, although every client waits for its own.
* **MCConfigStoreModel** - `enet_ai_parse_dac_count` says "On error, *num_dacs is set to
  -1" (DataItems/BRD_.cpp:344) and assigns it to a `__u8` (358): after a `BRD_Model` that it
  refuses there are 255 DACs. `SendControlHello` (aioenetd.cpp:625) builds an item for each,
  and for channel 4 the guard of DataItems/DAC_.cpp:221 throws, on a receiver thread and
  outside its `try` (aioenetd.cpp:948): the process ends. A clean exit before that saves
  the 255, and the next start loads it.

## 6. Claims that the code does not keep

Each of these is a definition in its module, stating what a comment or document in the
repository says. TLC finds each violated on the instance of the module's run, with the
changes given; put the name under INVARIANTS or PROPERTIES of the cfg to see the trace.

| claim | module | says | settings | what happens |
|---|---|---|---|---|
| `CanceledWorkerCloses` | AdcPipeline | adc.cpp:135 "we do want to close this thread" | as is (PROPERTY) | a logger scheduled late resets `AdcLoggerTerminate` (adc.cpp:37) after the worker set it; the join never returns |
| `BusyMeansStreaming` | AdcStream | ADC_.cpp:65 "already streaming" | as is, or `Rejects = FALSE` | a rejected message leaves its claim behind; and a StreamStart run between adc.cpp:180 and 181 creates no worker and keeps the claim |
| `IdMeansRunning` | AdcStream | ADC_.cpp:93 "running" | as is | the id is assigned after `pthread_create` returned, perhaps after the worker has ended |
| `StreamsNeverOverlap` | AdcStream | ADC_.cpp:66 "ADC Busy already on Connection" | as is | two receivers pass the test of ADC_.cpp:58-60 together, and the second `Go()` resizes the DMA buffer under the running worker; so does a StreamStart with the id -1, or one of length 0, which passes the length check (TDataItem.cpp:550): it claims nothing, and the next one is refused nothing |
| `RepliesAreOwn` | ControlServer | aioenetd.h:13 "which client is all this from/for" | as is | a client leaves with a message queued, the next one gets its descriptor and its reply |
| `ReadersAreAnswered` | ControlServer | README.md:72-74 every message gets its response | as is (PROPERTY) | `send()` (aioenetd.cpp:1152) blocks and has no timeout: one client that stays connected and stops reading holds up the only ActionThread, and with it the replies to all others |
| `OversizeIsReported` | ControlServer | TMessage.h:89-92 | as is | the X reply to an oversize frame is a local variable queued by reference, its connection is closed (aioenetd.cpp:867-875) |
| `SyntaxErrorsStopActions` | TMessage | TMessage.h:89 "before any Actions are taken" | as is | parsing stops at an item of wrong length with a code that nobody reads; the items before it are run |
| `BadSumsAnsweredX` | TMessage | TMessage.h:93 | as is | a wrong checksum is answered with MId 0 |
| `XNamesTheError` | TMessage | TMessage.h:91 "a single TDataItem of type SYS_Error" | as is | with its text the item is longer than DIdDict allows; the X reply is empty |
| `FailedItemsMarked` | TMessage | TMessage.h:106 | as is | the same for SYS_ItemError when `Go()` throws |
| `BadParametersSkipped` | TMessage | TMessage.h:101 "is skipped" | as is | constructors throw while parsing; the whole message is rejected |
| `CardUnused` | Shutdown | aioenetd.cpp:353-355, the card is taken down last | as is | a receiver created before the signal may still run the items of its hello message, which read the card, and the ADC worker may still be in its loop; neither is joined |
| `SignalEndsServer`, `DoneStays` | Shutdown | aioenetd.cpp:565 "see if we should exit" | `LateStart = TRUE` | a worker that starts after the signal clears `done` (adc.cpp:80) |
| `CalibrationInUse` | ConfigStore | config.h:8 "currently in-use or about to be" | as is | `ApplyConfig` (aioenetd.cpp:288) comes before `OpenDevFile`; its writes go nowhere |
| `EverySettingSurvives` | ConfigStore | config.h:7 "All configuration that should be stored non-volatile" | as is | the ADC's scale, offset and calibration (ADC_.cpp:345, 391, 442, 488, 543, 611) and the submuxes (BRD_.h:224, 338, 424) are answered as set and are in `Config` only: a crash before a clean exit loses them |
| `DacsFitModel` | ConfigStore | BRD_.h:93 "update Config.Model, persist" | as is | the model is saved at once, the number of DACs only at a clean exit, and seeded under another key |
| `RefusedItemsShow` | Upload | README.md:103-110 "Create File operation failed" makes an E | as is | `Go()` catches the exception and logs it; the reply is an R |
| `UploadsStayApart` | Upload | one file, one upload | as is | the data items of a second client go to the file that the first one named |
| `NoStaleSamples` | AdcScan | ADC_.cpp:830 "drain any stale FIFO data" | as is | conversions still under way after a timeout arrive after the drain |
| `OversamplesKept` | AdcScan | ADC_.h:230 "already configured [...] oversamples" | as is (PROPERTY) | every scan zeroes the register, for good |
| `OutputsCurrent` | CardItems | TDataItem.cpp:175 "configured for the DAC range" | as is | outputs are converted when constructed: a range or calibration queued before them, even in the same message, is not yet in `Config` |
| `WritesFindBusIdle` | CardItems | REG_.cpp:188 "DAC / DIO SPI busy checks" | as is (PROPERTY) | only REG_Write1 and the DAC outputs wait |
| `OffStaysOff` | CardItems | adc.cpp:165 "turn off ADC start modes" | `MCWidth` giving "trigger" two bits (PROPERTY) | the worker's write falls between an item's read and write and is lost |

Two more that no definition is needed for. A source that always has a block ready is never
stopped: the worker looks for a cancel only when it finds no block (adc.cpp:126-131), and
`AdcStreamTerminate` is read nowhere. `CancelEndsSession` makes an exception of it
(`NextBlockReady`) rather than rely on `MaxBlocks`, which ends every source. And the
timeouts of the SPI bus and of the ADC's conversion, which README.md:104 and 107 list among
the Operational Errors that make the response an E (README.md:108-110), are answered with
an R: the code writes to the bus after 100 looks at the busy flag, and a scan that timed
out leaves its item without data and without a result code (ADC_.cpp:994-1000).

## 7. Not modelled, and why

* Formatting, `AsString`, logging, encodings of payloads; `test.cpp`; the web front end and
  the vendored HTTP server (not part of the daemon).
* `Update`, `Revert` and `update_symlink_atomic` (DataItems/SYS_.cpp:21-124) cannot run:
  they wait for an upload to /home/pb/... (SYS_.cpp:171), and `sanitizePath` lets only
  paths under /home/acces/ pass.
* `CFG_Hostname` and what it does to /etc/hostname, /etc/hosts and the kernel: it works on
  files of the system, which other programs read and write.
* `BRD_Reset`, identification reads, ADC base clock: single register accesses.
* A start that fails (no device, no port), a listener that ends because `accept()` failed,
  and ADC connections that run out of descriptors (they are never closed,
  aioenetd.cpp:577): ControlServer leaves ADC connections out.
* Partial `send()`: the code treats every result except EPIPE as success.
* The growth of `ActionQueue`, which nothing bounds.
* The averaging branches of a scan, which are never taken (section 2), and a scan while
  the ADC streams.

## 8. What could come next

1. A scan while the ADC streams, by composing AdcScan with AdcPipeline's driver.
2. ADC connections in ControlServer, with the descriptors that they keep.
3. A proof that with several clients `SettledOutputsCurrent` holds of the outputs that no
   other client's setting overtakes.
