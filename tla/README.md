# Formal models of the LED strip controller firmware

TLA+ modules for the application code under `src/App` (STM32G474, one
foreground thread, interrupts, no RTOS), the TLC configurations that check them
and the TLAPS proofs of what they check. Paths below are relative to `src/`.

## 1. The system

One *foreground* thread runs `v_app_main`: it initialises, then loops over
`v_app_polling_task` (one job, the PLAY sequencer, the synthesizer's service)
and the debug menu. *Interrupts* preempt it anywhere: the console UART, the DMA
channels of the LED strips, of the microphone and of the speaker, and the 1 ms
timer. The two sides meet in three places: byte rings, the job queue, and state
flags that both read and write. The flash is used by the foreground only, and
there the adversary is the loss of power and the failing operation.

| Component | State | Operations | Interacts through | What is hard | What makes it correct |
|---|---|---|---|---|---|
| Byte queue (`uart_stream/queue.c`) | buffer, head, tail | put/get of one byte, block put/get (reset and release, of a queue at rest, are not modelled) | one producer, one consumer, no lock over a block | both block operations at once | bounded FIFO |
| UART stream (`uart_stream/uart_stream.c`) | two rings, TXEIE, error count; the USART's FIFOs, TC, ORE | tx byte/multi, blocking forms, flush, is_tx_busy, rx byte/multi, the ISR | ISR and foreground; USART | lost wake-up, loops that wait on the ISR, two-step reads, overruns | every accepted byte reaches the line in order; losses leave a trace |
| Job queue (`Src/jobs.c`) | ring, `u8_full` | init, add, get (clear has no caller) | ISRs add, the loop gets | one byte is flag and saturating counter | FIFO that accounts for refusals |
| Microphone (`Src/i2s_audio_in.c`, `Src/audio_in_service.c`) | driver state, HAL state, ping-pong buffers, running flag | init, start, stop, half/complete/error interrupts, chunk job | DMA, job queue | buffers freed under DMA or under a queued job | DMA target allocated; a chunk is intact while promised |
| LED strips (`Src/led_strip_control.c`) | handles, registry, in-progress flag, UART gState, DMA | create, update, set_pixel_buffer, destroy, DMA interrupts | HAL and its DMA interrupts | completion signalled early or late | buffers outlive their transfer; registry exact |
| Partition table (`spiflash/spiflash_part.c`) | sector 0, table in RAM, guards | load, save, create, delete, erase, provision, format, set_mounted | flash device | erase-then-program, compaction, placement | disjoint partitions, no wrong table accepted |
| Boot and VFS mounts (`Src/filesystem.c`, `Src/vfs.c`) | mount slots | boot, mount, unmount, format | partition table, littlefs | a mount that the table does not know of; formatting at boot | a guarded partition is left alone; boot keeps files |
| VFS descriptors, system calls (`Src/vfs.c`, `Src/syscalls_vfs.c`) | descriptor table | open, read, write, seek, close | mounts | unmount under an open file | a descriptor's file system is the one it was opened on |
| Host transfer (`Src/fs_shell_hrn.c`) | packet number, retries, open file | put, get | the console UART, host script | lost ACK, repeat, timeout against late answer | the file equals what was sent, or an error is reported |
| Synthesizer, I2S output (`Src/synth_engine.c`, `Src/i2s_audio_out.c`) | envelope, pending note, stream state | set_tone, stop, fill (ISR), start, drain | DMA interrupt | non-atomic updates seen by the fill | a note requested sounds, if nothing it does not control hits it; every stop becomes idle |
| PLAY sequencer (`Src/play.c`) | instance, repeat/call stacks, timeline | start, stop, poll | tick, synthesizer | re-entry, wrap of ticks, stacks | notes in order, each once; a text that ends comes to its end |
| Main loop, flush pump (`Src/app_main.c`) | ready gate, in-flush flag | polling task, `__wrap_fflush` | everything | re-entrancy | a flush returns within its cap |
| Terminal, menus, harness, RTC, logging, utilities | – | text and register access | console | – | not modelled, see section 8 |

## 2. Modules

| Module | Models | State and actions against the code |
|---|---|---|
| `ByteFifo` | what a byte ring promises | bounded FIFO; a block is appended or removed at once |
| `ByteQueue` | index arithmetic of `queue.c` | one operator per static helper; `IndexMod` is 2^16; sums wrap as the casts do |
| `ByteQueueSpsc` | one queue between producer and consumer | `Put`, `Get`: the single-byte calls. `PutBlockBegin/Copy/Publish`, `GetBlock…`: snapshot, one byte of the copy per step, publication |
| `UartStream` | the driver over two rings and a USART | `Isr…`: the steps of `v_uart_stream_service` in source order, each status-register read a step; `Fg` calls advance only when the ISR is not running; `ShiftLoad`, `ShiftDone`, `Arrive`: the hardware |
| `JobQueue` | the calls of `jobs.c` as operators | each is a body between `DISABLE_INTERRUPTS` and `RESTORE_INTERRUPTS`, hence atomic |
| `LossyQueue` | what the job queue promises | accept, refuse and count, report, take |
| `MicStream` | capture driver + service + `gx_job_queue` with both interrupts that add to it + polling task | one action per capture interrupt and per `v_job_add` of the timer's; `u8_job_get` split by its outcomes (`PollReport`, `PollJob`); API calls split where an interrupt can matter; a job carries the buffer and half it points at |
| `LedStrip` | strips, registry, HAL flags, DMA | `UpdateEncode`, `TransmitClaim`, `TransmitStart`, `UpdateFlag`: the steps of an update; `DmaHalf`, `DmaEnd`: interrupts; `Destroy`, `DestroyAbort`, `DestroyFree` |
| `FlashPart` | partition table, boot, mounts | `SaveStep`: erase, then one page each; `SaveFails`, `PowerCut` at any of them; `Boot…`: `x_fs_system_init`; the host's and VFS calls |
| `FileDelivery` | what a transfer promises the person at the host | chunks arrive; "done" is said only of a whole file, and nothing touches it afterwards |
| `FileTransfer` | one PU or GT: device, host, line | a step of the sender or the receiver is one action with the side as parameter (`SendPacket`, `TakePacket`, …); `Dev…` and `Host…` where C and Python differ; `Spoilt`: what the line does |
| `SynthOut` | synthesizer over the double-buffered output | `SetToneLook`, `HotRelease`, `HotPending`, `Cold…`: `v_synth_engine_set_tone` store by store; `Stop…`; `HalfInterrupt`: the DMA interrupt with the fill; `SaiError` |
| `Play` | the sequencer over `SynthOut` | `Poll…`: `v_play_service` by phase; `Exec…`, `OpenRepeat`, `Repeat…`, `Stray…`: a token each of `b_play_exec_next`; `Then…`: what follows a stop; `Start`, `Stop`; `Tick`: a half's time |
| `Reading` | what a text says, apart from when it is played | a walk over the tokens, `NextPlace`; the matching of brackets and the pass count, which the sequencer uses too |
| `PlayMC` | scores for `Play` | texts with the notes a reader expects of them; TLC evaluates that these are what `Reading` reads |
| `…Proofs` (eight) | theorems of `ByteQueueSpsc`, `UartStream`, `LedStrip`, `MicStream` (`JobQueueProofs` has what its job queue needs), `FlashPart`, `FileTransfer` and `Play` | section 6 |

`UartStream` composes two rings over the arithmetic of `ByteQueue`;
`MicStream` composes the capture, the timer and the main loop over the one job queue of the firmware, with the operators of `JobQueue`; `Play` is the sequencer,
the synthesizer and the output in one state machine, because the code nests them: `set_tone`
polls the application while it waits for the drain, and that poll is the sequencer's. `calls` is
that nesting, a stack of calls in progress. `ByteQueueSpsc` and `UartStream` (its transmit side,
from the calls to the line) are each shown to implement `ByteFifo`, the queue in `MicStream` to
implement `LossyQueue`, and `FileTransfer`, as long as no header has been damaged, to implement `FileDelivery`.

### Abstractions

A byte, job or chunk is its number in the stream, so that loss, duplication and reordering
are all visible. In `UartStream` the copy loop of a block call is one step: `ByteQueueSpsc`
checks it byte by byte.

In `FlashPart` a CRC is the list of entries it was computed over, so it is taken to tell two
lists apart; one low partition stands for `nvm` and `data`; a file system is its region and
whether it holds files; addresses are small and wrap at `Wide`, as 32-bit ones do. The host replaces, reloads,
deletes and erases with whatever is mounted, and a mount whose region has gone goes on writing to it
(`WriteFile`). What delete and erase respect is the guard (`GuardProtects`), and a VFS mount does not raise
that: see the finding `flash_mounted`.

`LedStrip`'s callers create only on handles that are not registered and (unless
`GrowWhileSending`) do not resize a strip while it sends. `MicStream`'s allocator may
refuse; the LED driver's refusal leaves the handle zeroed. `MicStream` claims a chunk's life only within
the session and the buffer that captured it: a chunk job of an earlier `init` points into
freed memory, and nothing in the code takes it out of the queue.

In `FileTransfer` an item on the line is a packet, a byte or a line of text; a chunk is its
position in the file, 0 the empty payload that ends it. The CRC covers the payload alone, so
damage in the header can pass it: the mishap `header`. A receiver that has lost the start of a packet skips the rest
of it, and stops at a byte of it that looks like SOH or CAN; what it skips is below 263 bytes, and the limit of 400
at which the host gives up skipping (`xfer.py:176`) is not modelled. A time limit expires only in silence, unless the mishap `late`
lets it: both programs answer in milliseconds and wait seconds. The junk a lost or aborted
transfer leaves behind is read by the device's command loop (`DevReadsJunk`).

In `SynthOut` time is counted in halves of the output's buffer (256 frames, 7.7 ms), for the
tick too. The envelope keeps what the control needs: zero, part, full, and which way it goes.
An attack or a release ends within one half, both together do not. A release always starts at a
half's first frame, so it crosses zero inside a half and a half never ends at exactly zero
with the slope still up; a read of the gain and the store of the slope computed from it are one step,
so the torn order of those two is not in the model. `spoilt` records
four things the properties make allowance for, each of which the code permits: `race`, a half that falls due
between two stores of `set_tone` or `stop` (a comment at `synth_engine.c:28` calls the state "protected by atomic blocks";
it is not); `fault`, an error of the SAI or a refused resource; `reentry`, a poll nested in the drain wait that starts a note
inside the start of another; `ignored`, a strict fault whose result `b_play_exec_next` does not look at. The first two are forgotten
when the next note is asked for. All are explored. `DmaBuffersLive`, `PlaysScore` and `TypeOK` make no allowance for any of them;
`NoPop` excuses a re-entry (the outer call may find the output busy and cut the inner one's tone at full gain); `ToneSounds` excuses the
tone that a race or a fault hits, and any after a re-entry; `Finishes` excuses races, re-entries and ignored faults.

In `Play` a score is its tokens; a note keeps its duration and the sounding part of it. Octave,
key, tempo, articulation and label names are data and left out; a text the
preparser refuses is a choice (`ThenRejected`). The shortest note is taken to be 31 ms, as
`play_config.h:81` computes, except in the score `Hasty`.

## 3. Runs

| Run | Configuration | Question | Result |
|---|---|---|---|
| `spsc` | size 5, index width 16, 14 bytes | do interleaved block operations keep the stream? | yes; implements `ByteFifo` |
| `uart` | rings of 3, FIFO 2, 5 bytes each way (one direction at most 1 while the other is beyond it), drain timeouts | does every accepted byte reach the line, does every call return, does "done" mean on the line; do overruns lose silently or stop reception? | they do; they do not |
| `mic` | 3 job slots, counter to 3, 4 halves, 2 inits, 3 starts, 1 tick of 2 jobs | can DMA hit freed memory, does a handler have the time of a half; are the order of jobs kept and refusals accounted for, does the loop always get through? | no; yes; yes, implements `LossyQueue` |
| `led` | 2 strips, 2 UARTs, registry 2, frames up to 8 | buffers, registry, a destroy that returns | hold |
| `led_half` | as `led` | does the flag cover the transfer? | no: finding |
| `flash` | 7 sectors of 2, 5 entries, 2 mounts, 3 calls, 1 power cut, failing operations | can the table be corrupted, overlap, or lose its guards; does a raised guard protect its partition? | no; yes |
| `flash_wipe` | as `flash`, 2 calls | does boot keep files? | no: finding |
| `flash_mounted` | as `flash`, 2 calls, no cut, no failing operation | do delete and erase refuse what is mounted? | no: finding |
| `host` | PU and GT of 3 chunks, numbers modulo 3, 3 tries, 3 mishaps of 8 kinds | can a success be reported of a file that is not whole before a header is damaged, can an end hang, is damage repaired? | no, no, yes; implements `FileDelivery` that far |
| `host_retry` | PU of 2 chunks, one byte lost | is a packet that is sent again accepted? | no: finding |
| `play` | 13 scores and one encore, stacks of 2, ticks modulo 16, drain wait 5 halves, 2 silent halves, 1 late half, 1 fault, calls 3 deep | is each note asked for once and in order, does it sound, without a pop (but for `spoilt`); does the DMA keep its buffers; does a piece whose text ends end in silence? | yes |
| `play_rest` | one legato note and a rest, no fault | is a rest silent? | no: finding |

Why the bounds are enough. A ring of 5 with 14 bytes wraps both indices twice
and has blocks in both parts of the copy; the index width leaves the ring's sums just
inside it (the proofs cover all others). Rings of 3 and a FIFO of 2 fill, wrap and
overrun within 5 bytes. Six jobs offered to three slots with a counter that sticks at 3 go
through full, counted, saturated, reported and drained states, with the indices wrapped (the proofs cover
all sizes). Four halves are two rounds of ping-pong; two inits free and reallocate once; three
starts cover restart after stop and after an error. Two strips compete for two UARTs and two registry
slots, and counts 1 and 3 with 2 or 3 bytes per pixel shrink, grow, and exceed the limit.
The flash run boots, changes the table three times, with at most one cut and any
failing operations: five entries need more than one page, so that a save can stop
after the erase, after the header page, or later; three changes are delete, create
in the freed place and one more.

Three chunks and the end are four packets over numbers modulo 3, so that a repeated or damaged number can
meet its like a round later; three mishaps are as many as there are tries, so a sender can be
brought to give up, at any packet. Ticks modulo 16 wrap within every score, starting 3 before
the wrap; the drain wait is longer than a drain
(3 halves), so that it expires only when a nested poll has started another tone, which `Hasty` brings about; the scores of `PlayMC` have each construct,
each fault and each overflow once, and two texts that do not end by themselves (`ForEver`, `LeavesOpen`), of which `Finishes` claims nothing; the notes of `Hasty` are shorter than a drain. Frames 3 deep are a
poll, inside a wait, inside a poll; a fourth would repeat the second.

Deadlock is checked in `play` and `play_rest`. Elsewhere it is not, because the history bounds
(`Max…`) let the modelled environment stop, or because both programs are done; a deadlock of the
code itself would be a call that does not return, and `CallsReturn`, `DestroyReturns`, `Empties`,
`BothComeBack` and `Finishes` state that they do.

## 4. Fairness

* `UartStream`: weak fairness of the USART's shifting (hardware), of the ISR
  (an enabled, pending interrupt is taken and its loop goes on) and of the call in
  progress (the foreground runs when no ISR does). No call has to be made and no byte has to arrive.
* `MicStream`: weak fairness of what has begun (the timer's interrupt, a call, a handler), and strong fairness of the poll of the
  job queue: the main loop comes round to `v_app_polling_task` whatever calls it makes in between. No interrupt has to come.
* `LedStrip`: weak fairness of the call in progress, which includes that `HAL_GetTick`
  reaches a finite timeout. Not of the DMA: `DestroyReturns` holds if no interrupt ever comes.
* `FileTransfer`: weak fairness of each program: neither is suspended for good, and a read with a
  time limit ends. No fairness of the line: it may spoil whatever the bound allows.
* `Play`: weak fairness of the foreground (the main loop polls, a call goes on) and of `Tick` (the
  timer and the DMA run). Nobody has to start or stop a piece, and no fault has to happen.

## 5. Findings

* `led_half`: the DMA handlers call the completion callback on every interrupt, the
  half-transfer one included: the strip counts as idle half way through its frame.
* `flash_wipe`: a littlefs partition whose mount fails at boot for any reason is formatted.
* `flash_mounted`: a VFS mount does not raise the guard that delete and erase look at, so both go ahead under a mounted
  file system.
* `host_retry`: the receiver acknowledges a repeated packet and then ends the transfer for its
  number; one lost ACK ends a PU or a GT. (No wrong success follows, as long as no header is damaged: `DeliversWhole`.)
* `play_rest`: a rest does not stop the synthesizer; after a note of full duty the tone goes on through it.

`PROJECT.json` quotes the lines they disagree with. More that the models show and no line of
the repository denies: a damaged header can have a wrong file called a success (with a late answer and a packet dropped
before it, a PU of three chunks stores the first of them twice); a piece that reaches the end of its text inside a repeat under the
normal policy warns at every poll and stays RUNNING (`play.c:2885`), as a `goto` back plays for ever, which is what it is for
(`play-v1-implementation-plan.md:1169`); the flush clears TC, so that an idle line may be reported busy until
something else is sent (the other direction is `DoneMeansOnWire`); a GT is a success for the host when its
acknowledgement of the end is lost, although the device then reports a failure (`OkIsConfirmed` is
of PU); and a sequencer polled from the drain wait of its own `set_tone` may start the next note inside the
start of this one, whose tone then comes last and stays (`reentry`).

## 6. Proofs

The theorems are about every value of the constants that the named assumptions allow: ring sizes,
FIFO depths, numbers of strips, entries, chunks, tries, nesting levels, and all of the history bounds, so that
they speak of runs of any length. Each component's module of proofs has one inductive invariant (or a chain of them,
where one part is used to show the next), a lemma per action, a step over `Next`, and the theorems.
The invariants were checked by TLC on the component's run before they were proved.

| Component | Theorems | Beyond the constants' assumptions |
|---|---|---|
| byte queue | `QueueTypeOK`, `QueueInOrder`, `QueueConserved`, `QueueSnapshotsConservative`, `QueuePendingNeverOverwritten`, `QueueImplementsFifo` | `BlockSumsFit` |
| job queue | `JobTypeOK`, `JobQueueImplementsLossyQueue` | – |
| UART stream | `UartTypeCorrect`, `UartDoneMeansOnWire`, `UartRxStream`, `UartLossLeavesTrace`, `UartTxImplementsFifo` | `SumsFit` |
| LED strips | `LedTypeCorrect`, `LedFrameInside`, `LedRegistryExact`, `LedDmaSourceAllocated` | the last: `~GrowWhileSending` |
| microphone | `MicDmaTargetLive`, `MicPingPongSlack` | – |
| flash | `FlashLoadIsKnownTable`, `FlashGuardFollowsLabel`, `FlashGuardProtects`, `FlashEntriesDisjoint`, `FlashTypeCorrect` | `RequestsFit` for the last three |
| file transfer | `FileTypeCorrect`, `FileDeliversWhole`, `FileOkIsConfirmed`, `FileRepairsDamage` | – (the second claims nothing once a header is damaged, the last is of garbled payloads only) |
| sequencer and synthesizer | `PlayTypeCorrect`, `PlayDmaBuffersLive`, `PlayNoPop`, `PlayToneSounds`, `PlayPlaysScore` | the last: `AllRead` (what `NoPop` and `ToneSounds` excuse is said below) |

### Byte queue

`BlockSumsFit` says that index + block length fits the index width; nothing in the code enforces it, a ring
of more than half the width would break it, and all rings of the firmware are far below.
None of the properties is inductive. The invariant `IInv` (`QueueInvariant`) adds what ties the
parts together: where each side's snapshot is relative to its index; that the k-th
pending slot, counted modulo the size from the tail, holds byte number *delivered + k*; and that
the slots a block write has filled so far hold the numbers after those. The argument is modular
arithmetic: `QAdvance` is addition modulo the size (`AdvanceIsModular`), `QNext` and
`BlockSlot` are cases of it, advancing twice adds (`AdvanceTwice`), and advances of fewer than
size steps from one index differ (`AdvanceInjective`), so a write beyond the pending slots
touches none of them. Then there is one lemma per action (`…KeepsIInv`) and `StepKeepsIInv`
over all of them; `StepSparesPending` does the same for the action property. For the refinement the
abstract queue is two runs of the stream (`Run`): what has been taken, and what is pending after it; publishing a
block appends a run of *n* (or takes it), a single byte is a run of 1, and all else stutters.

### Job queue

The queue is that of `MicStream`, and its invariant a part of `MicInv`. The ring is ambiguous when head equals tail, and `Ring` is what resolves it: `full # 0 => head = tail`,
so that the number of pending jobs is the size exactly when the byte is not zero
(`CountInRing`). `TypeOK` follows; the refinement needs it at every step. Pending slots are
addresses counted from the tail, all different (`SlotsDiffer`), so an add changes none of them and extends
the sequence by one (`AddAccepts`), a fetch is the tail of the sequence
(`TailIsShift`, `TakeRemovesOldest`), and a report or a refusal leaves it alone
(`ReportKeepsJobs`, `AddRefuses`). `StepRefines`: the steps that touch the queue are steps of `LossyQueue` (`AddRefines`, `PollRefines`), all others stutter.

### UART stream

`SumsFit` is `BlockSumsFit` for both rings. A byte is followed as a member of one sequence: on the transmit
side the shift register, the FIFO and the ring's contents in a row (`Pend`), on the receive side what has been handed
over, the ring and the FIFO (`RxHeld`); each step of the ISR moves the border between two of these and leaves the
row alone, so that the ring's arithmetic appears only in the lemmas on `RingContents`. `IInv` (`UartInvariant`) is the
types; `IsrInv`, that what the ISR has read of the status register still holds when it acts on it, because the
hardware only adds to it; `TxBlockInv` and `RxBlockInv`, what a half-done block call may rely on while the ISR runs
between its steps; `TxCount`; `DrainInv`, that TC means nothing on its way, and that a call which has seen the ring
empty finds it so; `ErrorInv`, that every count stands for a dropped byte; and the two stream
properties themselves. The refinement of `ByteFifo` maps a call's publication to the abstract put and the last
bit's leaving to the abstract get; everything in between stutters.

### LED strips

`LedInv` is the type invariant, the registry against the handles (`RegistryInv`), what a call in
progress has made sure of (`CallInv`: its strip lives, and between the abort and the freeing its channel is off), who started a
running channel (`OwnerInv`), and `FrameInsideBuffer`. `RegistryExact` counts slots, and a slot found by `CHOOSE` is the least
free one (`LeastExists`). `DmaSourceAllocated` holds if no caller resizes a strip while it sends; without that it is
false, which is a listed hazard (`led_strip_control.c:598`).

### Microphone

`MicInv` says in `CaptureInv` that the calls which free or replace buffers run only where the DMA does not, and in
`ChunkInv` what a queued chunk job is worth: its half keeps its sound while at most one more has come, because that one goes
to the other half. It speaks of all the entries of the job ring, the taken ones included, and so needs nothing of where its
head and tail are. `MicPingPongSlack` is about one more half's time and the session that captured the chunk; a later handler, and
a job that outlives its buffer, are a listed hazard.

### Flash

Four layers. `Base` ties sector 0 to the table in RAM at every page of a save, whichever of them power is cut at:
what is programmed so far is a prefix of what is meant, so a load accepts nothing else than a table that was being
saved. `GuardInv` adds what a save that may yet fail takes back: the entry just created, last, its
guard down. `PlaceInv` is about addresses; `RequestsFit` says that the device's size plus
a requested size plus a sector, and a requested start plus a size plus a sector, stay below `Wide`. A request beyond that
makes a 32-bit sum of the code wrap (the hazard at `spiflash_part.c:278`), and nothing is claimed of it. `TypeOK` is in
this layer because it says that entries are whole sectors. A search for free space ends where it should because a finite set of
ends has a greatest element (`AutoPlaceIsFree`).

### File transfer

`TypeInv` and `EndInv` (who has said what about the end) hold of every behaviour. On them stand three arguments.

* `FileDeliversWhole`: as long as the receiver is in the transfer, the sender is at its position or one behind with the
  acknowledgement on its way, and no packet on the line is older than the one before that (`PacketInv`; `OpenInv` for the
  opening, `FileInv` for the file). Numbers modulo 3 or more then tell a new packet from a repeated one. It holds until
  the line damages a header, and claims nothing afterwards: the CRC covers the payload alone, and a late answer, a dropped packet
  and a damaged number together store a chunk twice and end in success.
* `FileOkIsConfirmed`, damaged headers included: while nothing is late a PU goes in lock step. `Lock` says for each place of the
  device what can be on the line and what the host can believe: one item at a time in the transfer, and the host
  believes in the end of it only while the device holds the packet that says so.
* `FileRepairsDamage`: `Track` lists the phases of a behaviour in which only payloads are garbled, fewer than there are tries
  (`Begins`, `Transfers`, `Closes`), with what each side is doing and the one item that is on its way. Two things
  follow: somebody always has something to read, so no time limit expires (`Awake`, `NoTimeouts`); and a try of either side
  is paid for by a garbled packet, so nobody gives up (`NoSurrender`). Such a behaviour can then only end in success on both sides.

### Sequencer, synthesizer and output

The three are one state machine, in which a call of `set_tone` may contain a poll and the poll another call.
`IInv` (`PlayInvariant`) is `TypeInv`, `DmaInv` (the DMA runs exactly while the driver is not idle), `AloneInv` (without re-entry
there is one call at a time), `NoPop` and `SoundInv`. The last says how far each call has come with its tone (`CallSound`), and
for the wait in `set_tone` that the time it has waited and the silence still to be played add up to no more than the silence of a
drain (`Draining`): so it never expires, on any clock, wrap included, given `DrainWait > SilenceHalves + 1`. A sequencer
step is reduced to what it leaves to the synthesizer (`PlayMove`), so that the text matters only for the types: jumps stay
inside it, and both stacks within their depth. `NoPop` allows for re-entry alone, and so is proved across races with the
interrupt and faults; `ToneSounds` is of a tone that nothing has `Harmed`: no half
that fell due between the stores of `set_tone` or `stop` that gave or ended it, no fault after it, and no re-entry before it. What happened to
earlier tones does not excuse it.

`PlayPlaysScore` is for scores whose notes are what their text says (`AllRead`): there is a set of places, closed under the walk of
`Reading`, at which the notes fit. The walk knows no clock, no poll and no call in progress. `ReadInv`, on top of `IInv`, says that
whenever the sequencer has tokens to go on with (`Underway`), it is at a place of that walk, whatever the synthesizer under it is doing;
that only a call waiting for the drain has another inside it (`WaitsBelow`), so that no token is read twice when a nested
call returns; and that "ended" was said, or is about to be, with no note left. A loop that never ends has no finite list of notes and
so falls outside `AllRead`; the scores that TLC plays are within it (`NotesAreRead` in `PlayMC`). Since the walk is a second
transcription of the token rules by the same hand, what the theorem shows is that time, polls, faults and nesting add nothing
to them; that the rules give the intended notes is what the literal lists of `PlayMC` are for.

### What the proofs assume

The `ASSUME`s of the modules, which TLC evaluates on every run. Those on sizes only exclude zero and mean things like "the wait is
longer than a drain" or "a jump leads to a label". The bounds `Max…` are natural numbers and nothing more.

### Only model-checked

All invariants and refinements that the passing runs check are stated by a theorem. What is not: the liveness properties
(`TxDrains`, `CallsReturn`, `ReceptionContinues`, `Empties`, `DestroyReturns`, `BothComeBack`, `Finishes`), under the fairness of section 4. The violations of section 5.

## 7. Plan

1. Done: byte queue, UART stream, job queue, microphone, LED strips, partition table with boot
   and mounts, file transfer, synthesizer and sequencer; the theorems of section 6.
2. `FlashPart` with sizes near `Wide`; the pump under `fflush` over `UartStream`; the first steps of a
   liveness argument that are safety (what each step towards an end uses up), as theorems.

## 8. Not modelled

VFS descriptors and the newlib system calls: calls of one thread handed to littlefs; the state they
share with the rest, the mount slot, is in `FlashPart`, and an unmount under an open file is listed as a hazard.
The one-line commands of the file shell, encoding of pixels, level-meter and synthesis arithmetic, note and
key tables, labels and tempo of PLAY: data, not control. Terminal library, menus, test-harness protocol,
note player, test tones, calendar, logging, utilities: text and register access without state others
depend on. SPI framing, HAL, CubeMX code, littlefs, TLSF and Berry are vendored or generated; where a model
leans on them (what an interrupted program leaves behind, what `HAL_UART_Transmit_DMA` tests and sets) the
definition says so. The share of the repository's lines the models stand for is small for that reason: most
of those lines are these libraries.
