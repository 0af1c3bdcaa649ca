# UNIAUD32: a TLA+ verification project

UNIAUD32.SYS is the 32-bit audio driver of OS/2, eComStation and ArcaOS. It
puts a modified ALSA core and the ALSA card drivers (`alsa-kernel/`) on top of
a layer that imitates the parts of the Linux kernel they need (`lib32/`), and
connects both to the OS/2 kernel (`drv32/`). Clients are the 16-bit driver
UNIAUD16.SYS, which calls through inter-device communication (IDC), and
programs that use the DLL's ioctls.

The modules here are translated from the code; paths below are relative to
the repository's root, which `PROJECT.json` calls `src/`.

- [1. The system](#1-the-system)
- [2. What makes it hard](#2-what-makes-it-hard)
- [3. The modules and the code](#3-the-modules-and-the-code)
- [4. The runs](#4-the-runs)
- [5. The proofs](#5-the-proofs)
- [6. Behaviours met while modelling](#6-behaviours-met-while-modelling)
- [7. What is not modelled](#7-what-is-not-modelled)
- [8. Plan](#8-plan)

## 1. The system

| Part | Code | State | Operations |
|---|---|---|---|
| Private heap | `lib32/malloc.c` | used and free list of blocks, `uMemFree` | `malloc`, `free`, `compact`, `HeapInit`, `HeapCheck` |
| Page memory | `lib32/memory.c` | list of base addresses, count of pages | `kmalloc`, `kfree`, `krealloc`, `ksize`, `__get_free_pages`, `vmalloc`, `ioremap` |
| Interrupts | `lib32/irq.c`, `drv32/irq.c` | `arSlots`, the hooked lines | `request_irq`, `free_irq`, `process_interrupt` |
| Resource manager | `drv32/rmhelp.c` | `Resource_stt`, `AdapterHandle` | `RMRequestIO`, `RMRequestMem`, `RMRequestIRQ`, `RMDeallocRes`, `RMCreateAdapterU32` |
| PCI and power | `lib32/pci.c` | `pci_devices` | scan and probe, suspend, resume, unregister |
| Time | `lib32/timer.c` | `jiffies` and its remainder | the tick, delays |
| Locks | `lib32/spinlock.c`, `semaphore.c`, `waitqueue.c` | the interrupt flag | `spin_lock` is `cli`; the rest are stubs |
| Initialisation | `lib32/ossidc.c` | the exit calls of the cards | `OSS32_Initialize`, `OSS32_Shutdown` |
| Dispatch | `drv32/dispatch.c`, `idc.c`, `lib32/ossidc.c` | open files | decode a packet, lock it, call one operation |
| Wave handles | `lib32/sound.c`, `ioctl.c` | `opened_handles` | `OSS32_WaveOpen`, `OSS32_WaveClose`, `UniaudCloseAll` |
| Wave operations | `lib32/sound.c` | none of their own | prepare, start, stop, pause, `OSS32_WaveAddBuffer`, status |
| Waits | `lib32/ioctl.c` | `substream_int`, `control_id_changed`, `unlock_all` | `WaitForPCMInterrupt`, `WaitForControlChange` |
| MIDI handles | `lib32/soundmidi.c` | handle, its stage | open, close, read, write |
| Mixer | `lib32/soundmixer.c` | none between calls | query, set |
| PCM core | `alsa-kernel/core/pcm_lib.c`, `pcm_native.c`, `pcm.c` | `snd_pcm_runtime`, DMA area | state machine, pointers, transfer, silence |
| Control core | `alsa-kernel/core/control.c` | elements, event queues | add, remove, `snd_ctl_notify`, read |
| Rawmidi | `alsa-kernel/core/rawmidi.c` | a ring for each direction | open, read, write, receive, transmit, drain, close |
| MPU-401 | `alsa-kernel/drivers/mpu401/mpu401_uart.c` | mode bits | open, close, trigger, interrupt |
| Sequencer | `alsa-kernel/core/seq/` | pools, queues | enqueue, dispatch |
| Cards | `alsa-kernel/core/init.c`, `device.c` | cards, devices | register, disconnect, free |
| Card drivers | `alsa-kernel/pci`, `isa`, `hda` | registers | trigger, pointer, interrupt handler |

How they interact. A request arrives through IDC or an ioctl; the dispatcher
calls one `OSS32_*` or `Uniaud*` operation; that one builds Linux `file` and
`inode` structures and calls the ALSA core's file operations, which call the
card driver. In the other direction the OS/2 kernel calls `ALSA_Interrupt`,
which walks the handlers of a slot (`process_interrupt`); the card driver's
handler calls `snd_pcm_period_elapsed`, which moves the pointers, may stop the
stream, and notes the substream in `substream_int`, where a thread in
`WaitForPCMInterrupt` finds it. Everything allocates from the private heap.

Concurrency. OS/2 runs one thread in ring 0 at a time, and it keeps the
processor until it blocks; the only place of this code that blocks is
`KernBlock` in the two waits. A spin lock disables interrupts
(`lib32/spinlock.c:55-80`), semaphores and wait queues return at once. What
interleaves is therefore: a call with the interrupt handler wherever no lock
is held, a call with the DMA engine everywhere, and the waits with all other
calls. The modules take their grain of atomicity from that.

## 2. What makes it hard

- *Pointers.* The card tells a position within the buffer, the core
  reconstructs a count of frames that wraps at `boundary`, with a heuristic on
  the jiffies for missed interrupts, and one OS/2-specific branch compares
  signed with unsigned numbers.
- *Underruns.* The stream may run dry at any point of a write whose copy is
  done without a lock, while the interrupt overwrites played frames with
  silence.
- *Calls of several locked sections.* RESET, the write and the close of a
  reused handle let interrupts in between their sections.
- *Clients that do not close.* UNIAUD16 opens a PCM again without closing it;
  handles are shared, flagged and identified by an address that is reused.
- *Shared interrupt lines*, requested and freed in any order, with failures
  that are not undone.
- *Lists that are edited while they are walked*: `compact`.
- *A table that is written by the interrupt while threads scan it*:
  `substream_int`.
- *Rings whose pointers move before the bytes do*: `rawmidi.c` claims a part of
  the ring under the lock and copies without it.
- *Blocks that are known by another address than the kernel gave*: DMA memory
  that is moved to the next 64 KB, with a list to find the way back and a heap
  that may have no room for the list.
- *Probes that fail half way*, with regions and interrupts already taken, while
  other cards are registered with the same tables.
- *Handles that are freed and used again*: a MIDI stream id is an address and a
  magic number.

`PROJECT.json` lists 40 hazards at their lines, each with the properties that
would catch it, and a note where they cover it in part or not at all.

What makes each part correct:

- heap: blocks never overlap, none is lost, a held block is never changed, the
  loop that runs with interrupts disabled ends;
- stream: the engine runs exactly in the state RUNNING, the pointers are
  exact, accepted frames are played as they were written, nothing is played
  twice, calls return;
- interrupts: a registered handler is reached, an unregistered one is not, a
  pending interrupt is serviced;
- handles: a substream in use is in the table exactly once, and is released
  exactly once;
- waits: an interrupt wakes one wait, none is missed, every wait ends;
- page memory: a block has a region of its own, DMA memory does not leave a
  frame, what is freed is given back and nothing else is;
- MIDI: an id reaches the stream it was opened for; bytes keep their order; no
  handler runs on a closed direction; what was written is sent;
- cards: a failed probe leaves nothing of its card behind, an accepted card
  stays until its own driver removes it.

## 3. The modules and the code

| Module | Models | Proofs |
|---|---|---|
| `Heap` | `lib32/malloc.c` | `Memory_proofs` |
| `Allocator` | abstract: what callers expect of `malloc` and `free` | |
| `HeapClients` | `Heap` with what its callers asked for; implements `Allocator` | `Memory_proofs` |
| `PageMemory` | `lib32/memory.c` over the kernel's pages and the heap | `Memory_proofs` |
| `PcmStream` | one playback substream: `pcm_lib.c`, `pcm_native.c`, `sound.c` | `PcmStream_proofs` |
| `Playback` | abstract: what a client expects of a playback stream | |
| `PcmClient` | `PcmStream` with the frames of its client; implements `Playback` | `PcmStream_proofs` |
| `IrqSlots` | `lib32/irq.c` with the hooks of `drv32/irq.c` | `IrqSlots_proofs` |
| `WaveHandles` | open and close in `sound.c`, `ioctl.c`, `drv32/strategy.c` | `WaveHandles_proofs` |
| `Waits` | the waits of `lib32/ioctl.c`, the note of `snd_pcm_period_elapsed` | `Waits_proofs` |
| `MidiHandles` | `lib32/soundmidi.c` | `MidiHandles_proofs` |
| `Rawmidi` | `core/rawmidi.c` on `mpu401_uart.c` | `Rawmidi_proofs` |
| `PciDevices` | `lib32/pci.c`, `drv32/rmhelp.c`, the cards of `lib32/ossidc.c` | `PciDevices_proofs` |
| `Sums` | sums over finite sets, for `Heap` and `PageMemory` | |

The `MC*` modules give constants a value where a cfg cannot. A definition
whose name ends in a suffix (`Swallow_NoHeader`, `StopSlot_LastOnly`) is a slip
of the definition that follows it: each property is known to fail when the
definition is replaced by its slip.

### Heap

`ulSize[a]` is the size field of the header at offset `a`. The used list is a
set, since its order is never observed; the free list is a sequence, since its
order decides what `malloc` takes and what `compact` merges. `malloc` and
`free` run with interrupts disabled and are one step; each turn of `compact`'s
loop is a step, with nothing else enabled, so that its end can be stated. The
code's cursor is a pointer to a list element; in the model it is a position:
after a merge one element has left the list, and the element that
`pmb->pmbNext` named is at the cursor's own position. The counter is taken
modulo `ULONG_MOD`.

`Allocator` says what a caller may expect: it is granted bytes that nobody
holds, as many as it asked for, in the region, at whole dwords, and they stay
its own until it gives them back. Nothing is said of lists, headers, first fit
or merging. `HeapClients` adds the history variable `wanted` (what each caller
passed to `malloc`) and maps the heap to it: the pointer of a caller is behind
the header, what it holds is the size of the block. A step of `compact` and a
`malloc` that fails are stuttering steps of the allocator.

### PageMemory

`mem` is everything below the callers: `vm` the kernel's regions, `list` the
entries of `BaseAddr`, newest first as in the code, `heap` the free blocks of
the private heap, `used` the counter of pages; `missed` records for the
properties which regions got no entry because the heap was full. `blocks` is
what callers hold. The routines call one another, so they are operators from a
memory to a memory, or to the set of memories that the kernel's choice of an
address and a physical offset allows; the entry points are the actions. Units
are kilobytes: a page of 2, a frame of 8, so that DMA blocks of one and two
pages lie everywhere in a frame and one of a whole frame has to begin it. A
virtual address whose physical one the kernel cannot tell (`NoPhys`) takes the
code's error paths. `IsHeapAddr` of the code includes the address right behind
the heap; `HeapEnd` is the page of the address space that begins there. `kfree`
of a block at `HeapEnd` reaches `free`, which finds nothing: the block is then
`lost`, held by nobody, with its region and its entry left. `ksize` of pages without an entry returns any number, as it
returns a variable that was not assigned.

### PcmStream

`rt` is the `snd_pcm_runtime` with the DMA area, the engine and the ghosts;
`irq` the period interrupt; `call` the operation in progress with its local
variables.

- A locked section is one step; a call of several sections has one step for
  each: `OSS32_WaveAddBuffer` is STATUS, PREPARE, then the write's entry, copy
  and commit for each chunk; the close of a reused handle is the three
  sections of RESET and a PREPARE.
- The engine (`DmaFrame`) plays a frame at a time at any moment; at the end of
  a period it raises the interrupt. An interrupt that is raised during a
  section (`raised`) must be taken before the next section starts (`due`).
- Time: a jiffy is the time of a frame. `elapsed` is `jiffies -
  hw_ptr_jiffies`, capped where larger values are no longer told apart. A
  pause sets `hw_ptr_jiffies` back, hence `elapsed = Long`.
- `hw_ptr`, `appl_ptr`, `hw_ptr_base` and `hw_ptr_interrupt` wrap at
  `Boundary`, a multiple of the buffer as in the code, only smaller.
- `OSS32_WavePause` passes 0 to `SNDRV_PCM_IOCTL_PAUSE` and
  `OSS32_WaveResume` passes 1, as in `sound.c`.
- Ghosts: `pos` (frames the engine played), `lag` (of these, since the last
  read of the position), `queued` (accepted and not played), `starved`, and
  the marks `fresh`, `old` and `silence` of the DMA area. They record; no code
  reads them, except that the position the card reports is `pos` modulo the
  buffer.
- Taken from how `lib32` sets the parameters: playback, non-blocking file,
  `start_threshold` 1, `stop_threshold` the buffer, silence to the boundary,
  `CONFIG_SND_PCM_XRUN_DEBUG` off. `lib32` does not use drain, mmap, linked
  groups, forward or rewind. Suspend and capture are not modelled.
- The card may refuse a trigger: a refused start leaves the stream PREPARED
  and ends the write that asked for it (`XferStartFails`); a refused push of a
  pause has already updated the pointer and set the jiffies back
  (`pause_refused`); the undo actions bring the engine back. If the update of
  that push finds an underrun, the engine stays off: the stop within it clears
  `trigger_master` (`pcm_native.c:1524`, `1205`), without which
  `snd_pcm_undo_pause` (`1632`) triggers nothing.

### PcmClient and Playback

`Playback` says what the client of a stream may expect. It offers frames; they
are accepted behind the frames that wait, or refused; the stream plays the
oldest one and never another; when there is none it plays silence, and from
then on, until it is prepared again, nothing is promised (`dry`). A write that
is in progress when the frames run out may be heard in part: the card reads
what was copied before it is committed. A stop keeps what waits, and only a
stream that is stopped or made ready forgets it. Nothing is said of rings,
pointers, periods or interrupts.

`PcmClient` adds to `PcmStream` three history variables that no action of the
stream reads: `area`, the frames that lie in the DMA area, `offered`, those of
the chunk that was copied and not yet committed, and `heard`, the frame that the
card played last. They are mapped as they are, except that the queue is the
part of the ring from the card's position on, as long as `queued`; `dry` is
`starved`. An update of the pointers, the silence that the interrupt writes
and the sections of a call that move no frame are stuttering steps.

### IrqSlots

`request_irq` and `free_irq` run with interrupts enabled, so the slot's
assignments are separate steps and the dispatcher runs between any two. The
resource manager and the kernel may refuse a line. A device's handler claims
an interrupt when the device asserts its line; the line is level triggered.
`free_irq` finds its slot by line and its entry by user data, as the code does.

### WaveHandles

The table `opened_handles` with `handle`, `FileId` and `reuse`; `inode` is the
memory of a handle (`None` when `kmalloc` may give its address out again);
`substreams` what each PCM has open; `clients` what each client was given and
has not closed. Calls run to their end, so a call is a step. `Forget` is the
client that loses a stream without closing it. `StratClose` is the end of a
file, `UniaudCloseAll` the ioctl.

### Waits

Each slot of the scan in `WaitForPCMInterrupt` is a step, and so are the
comparison (`Scan`) and the clearing (`Found`), because the interrupt may
write the table between them; `running` is the thread in ring 0. `KernBlock`
gives the processor away for a millisecond (`Block`, `Wake`). `interrupts`,
`wakes`, `pending` and `due` are ghosts.

### MidiHandles

`owner`, `magic` and `fileOf` are the memory at each address: whom the heap
gave it to, whether the magic number is still there and which file structure.
`kfree` leaves the contents; other users of the heap overwrite them
(`OthersTake`). `opened`, `ports` and `subs` are the ALSA side. The open is one
step for each way it ends: success, no OPL3 synth (the file is released), and a
refusal by a later ioctl (only the handle is freed). `got` and `read` are
history.

### Rawmidi

A reader and a writer, one on each direction, as `lib32` opens them. The two
loops of `rawmidi.c` are the same action `Claim` for both directions: under the
lock `appl_ptr` and `avail` move, then the copy (`CopyIn`, `CopyOut`) runs with
interrupts enabled. `mode` holds the four mode bits of the MPU-401, `tx` and
`rx` what its FIFOs hold. A close takes the steps of `close_substream`:
trigger off, drop, the driver's close, free. Bytes are numbered modulo twice
the ring, so that a byte differs from the one a lap before it in the same cell.
`hooked` is false for a card without an interrupt.

### PciDevices

`scan` is where `OSS32_Initialize` stands: the driver of `cardcalls`, the last
device of the scan, the slot that is filled, the region that is asked for.
Everything runs at boot in one thread; what varies is what fails. `rm` says for
each region and interrupt whether the resource manager has given it to the
driver or to an adapter; `Resource_stt` is the code's list, `unlisted` the
history of handles that never got on it. `Matches` and `Claims` are the two
ways the code compares a device with an `id_table`: with the class when it
probes, without it when it unregisters. The assumption that no driver claims
what a later one matches is what the order of `cardcalls` gives: the HD audio
driver with its `PCI_ANY_ID` entries comes after the others.

A probe may look for other devices of the bus with `pci_get_device`, which is
`pci_find_device` here (`Seeks`): `ali5451.c:2100` and `2106`, `via82xx.c:2221`,
`cmipci.c:3093`, `cs46xx_lib.c:3576`, `hda_intel.c:1949`, all of them after the
probe has asked for its regions. The action `pci_find_device` puts the device in
the first empty entry, which may be the probed card's own if its devfn is 0;
the probe then goes on with the other device's data. `ByVendor` are the devices
that are asked for by vendor alone (`snd_pci_dev_present` for `cmipci.c`): they
are never found in the table and are entered again each time. The devices
looked for are assumed to be no cards, as bridges and graphics adapters are;
for the search by vendor that is an assumption on the bus, whose first device
of the vendor is then not a sound card.

## 4. The runs

Passing runs:

| Run | Shows | States |
|---|---|---|
| `heap` | blocks disjoint and tiling the heap, `HeapCheck`'s sum and the counter exact at every step, `compact` ends, `Allocator` implemented | 15,793 |
| `page_memory` | blocks own their regions, DMA blocks stay in their frame, the list tells the truth and no region is lost, except for a block right behind the heap, the counter never wraps | 937,892 |
| `pcm_stream` | a card without pause, all calls, over the boundary: `hw_ptr` and avail exact, nothing replayed, `Playback` implemented | 1,425,517 (symmetry) |
| `pcm_pause` | pause, reused handles closed by RESET and PREPARE, refused triggers, late interrupts, before the boundary: the engine follows the state, `hw_ptr` exact, the queue intact, every call returns | 214,018 |
| `irq_slots` | registered handlers stay reachable, no line hooked to an unused slot, every interrupt serviced | 16,899 |
| `wave_handles` | the table sound and complete, no flag left behind, sharing only by the reuse flag | 69,349 (symmetry) |
| `waits` | one wake per interrupt, no pending interrupt missed, every wait ends | 132,456 |
| `midi_handles` | until the first read: an id reaches its own stream, busy ports and subscriptions belong to open streams, no block stays marked as a handle (the file and port that a failed FM open keeps are outside, section 6) | 15,931 (symmetry) |
| `rawmidi` | both rings keep their bytes, closed directions are quiet, the UART mode lasts, calls return | 326,958 |
| `pci_devices` | handles listed once, failed probes return what they took and leave no entry but those of devices they looked for, every card keeps its entry and has its exit call | 814,800 |

Runs that end in a counterexample, each to a sentence of the repository:

| Run | The sentence | What happens |
|---|---|---|
| `page_realloc` | `memory.c:735`: the contents are preserved up to the lesser of the new and old sizes | `ksize` unlinks the entry it reads; the next `krealloc` of the block works with a size that was never assigned |
| `rawmidi_output` | `mpu401_uart.c:440`: Tx FIFO full - try again later | the timer that would try is empty on this port; the byte stays |

Bounds, and why they are enough:

- *heap*: room for six smallest blocks; `compact`'s worst case needs four
  blocks around the freed one. The requests are nothing, one word, a size
  that is not aligned, one that leaves a rest below the threshold, and one
  beyond the heap.
- *page_memory*: two blocks at once, an address space of two frames, a heap of
  two entries: a moved DMA block, a second try that succeeds, and an entry that
  finds no room all happen. The first page follows the heap (`HeapEnd`), so that
  blocks of every kind are lost there or not. `MaxUsed` bounds the drift of the
  counter (section 6): it ends new calls once more than a frame is charged.
  `page_realloc` needs one more entry and fewer addresses, and no page that
  follows the heap.
- *pcm*: two periods (three with pause) of two frames; the buffer is then
  partly played, partly queued, partly silent in all ways. `MaxLag` is below a
  buffer: the core cannot tell a lag of a whole buffer from none, and the
  jiffies heuristic is exercised from half a buffer on. `MaxPos` lets
  `pcm_stream` cross the boundary, after four buffers; `pcm_pause` stops
  before it (see section 6).
  Two frames that differ are enough to see one lost, repeated or swapped.
  The smallest write larger than a period and the exact period are the request
  sizes: with them a write is split by the end of the ring.
- *irq*: three devices on two lines and two slots: a shared line, a slot that
  is reused by the other line.
- *handles*: two clients, two PCMs of one substream, two addresses; a busy
  open and a reused address need two of each.
- *waits*: two threads, two substreams, a card, three slots; two interrupts
  for each substream make duplicates in the table and never fill it.
  `MaxInterrupts` bounds the run only.
- *midi_handles*: two clients and addresses, three files: a failed open can
  keep a file while both clients hold another.
- *rawmidi*: rings of two bytes, a transmitter of one, a receiver of two, calls
  of one byte and of more than the ring: a call wraps, laps and is cut short.
- *pci_devices*: four devices and a table of three, six regions and interrupts
  of two cards on a list of four, exit calls for three cards, one device with
  devfn 0, one that two drivers claim: each limit is reached and passed. Each
  driver looks for one other device: one whose ids match the other driver, one
  that is asked for by vendor.

`CHECK_DEADLOCK FALSE` stands where all may be quiet: a bound is reached and
no client calls, there are no handles left to give out, or the driver has
shut down.

Fairness:

- `Heap`: `compact` goes on, as it runs with interrupts disabled.
- `PcmStream`: a call in ring 0 goes on, the processor takes a pending
  interrupt, a running engine plays. No client has to call.
- `IrqSlots`: a request in progress goes on; the kernel calls the ISR of a
  line that is asserted. `Serviced` is stated under the condition that devices
  stop raising new interrupts at some time: without it the first device of a
  shared line may keep the others waiting, which no software can help.
- `Rawmidi`: the wire takes the bytes of the transmitter, an interrupt that is
  due is taken, a call in progress goes on. Nobody has to call, nothing has to
  arrive.
- `Waits`: a thread in ring 0 goes on (weak); a blocked thread whose
  millisecond is over gets the processor although it is not ready at every
  moment, since another thread may be in ring 0 (strong). The OS/2 scheduler
  raises the priority of starved threads.

## 5. The proofs

All are for every value of the constants that satisfies the named assumption
of the module (`HeapConstants`, `PageConstants`, `StreamAssumption`, `IrqAssumption`,
`HandlesAssumption`, `WaitsAssumption`, `MidiAssumption`, `RawmidiAssumption`,
`PciAssumption`), which TLC evaluates for the instances of the runs. Where a
theorem needs more, it says so as a hypothesis: `Timely` of the stream and
`HasRoom` of the table of notes. Every invariant and every safety property of
the passing runs is the conclusion of a theorem.

**Heap** (`HeapTypeOK`, `HeapBlocksDisjoint`, `HeapTiled`,
`HeapLiveBlocksKept`). The invariant is `TypeOK`, `BlocksDisjoint`, `Tiled` and
`CursorOK`, and each needs the others: a merge keeps blocks disjoint only
because adjacent blocks have nothing between them, the tiling is kept by a
split only because the new header is within the old block, and `CursorOK`
(the cursor is never at the head) is what makes the two blocks of a merge
different. Lemmas named `...Effect` reduce an action to what it does to the
set of blocks; the geometry is then argued about sets and sizes without the
list.

**Heap as an allocator** (`HeapImplementsAllocator`). `ClientSpec` implements
`Allocator`: `Init` maps to `Init`, a `malloc` to `Grant` with the block it
takes, a `free` to `Release`, every other step to a stutter. The
heap's own invariant suffices, before and after the step: the history variable
constrains nothing. `MallocTakes` is the core: whether the block was split or
taken whole, one block joins the used ones, it is at least as large as the
request, and the others keep their sizes. `Unheld` then follows from
`BlocksDisjoint` of the next state, since blocks are apart with their headers.

**The heap's accounts** (`HeapAccounted`). `Accounted` is an invariant of its
own beside that of the heap, and says of each moment, the turns of `compact`
included, what the sum of the blocks and the counter are. `Sums` defines a sum
as the number of units that the blocks hold, which is a cardinality: a split, a
merge or a change of list then adds or removes a finite set that is apart from
the rest, and `FiniteSetTheorems` gives the new number. That takes the place of
an induction over the blocks.

**Page memory** (`PageBlocksOwned`, `PageDmaInFrame`, `PageRecordsTrue`,
`PageNoRegionLost`). The routines of `memory.c` pass through memories that no
state shows (a region is taken before another one is freed, a free looks for
its entry before it gives the region back), so the invariant is a predicate
`Good(m, bs)` of a memory and of the blocks held in it. It says that regions do
not overlap (`RegionsApart`), that every block in pages has a region of its own
and every region has a block or was missed (`Housed`), that an entry tells its
block's region (`EntriesTrue`), how the free of a block without an entry finds
the region (`Found`), where a DMA block lies (`Framed`), and that blocks and
entries are no more than the private heap can hold (`HeapRoom`). Each routine
then does one of three things: a block and its region appear (`Grow`), a block
goes, with its region or without a region that was missed (`Shrink`), or
neither (`SameGood`). `Found` is what the four properties lack: `kfree` and
`iounmap` never look at the entry's base, and `free_pages` finds a moved block
by its entry only. That a block is held or lies at `HeapEnd` is an invariant of
its own (`LossesAlways`), on top of `Good`: only `kfree` loses a block, and only
there. `EntriesTrue` and `Housed` need each other: a new block gets
no second entry because a free range has no block in it. `DmaInFrame` rests on
two lemmas about the frame (`StaysInFrame`, `MovesToFrame`); the second is the
reason why twice the size, or the size and a frame, is room enough for every
physical offset. `MaxHeld` and `MaxUsed` are arbitrary in the proof.

**The counter of pages** (`PageCounterCovers`). The counter is at least the sum
of the sizes of the entries, a sum of units as above. `Solvent` says so of a
memory, and every routine keeps it without the help of `Good`: one that adds
an entry has charged its size or more, and one that takes a size off the
counter has unlinked the entry of that size. What has no entry is charged and
never taken off, hence at least and not equal.

**The stream, every handle** (`PcmTypes`, `PcmDmaFollowsState`). The invariant
`Base` has the types, `hw_ptr_base` at the start of a buffer, the engine on
exactly when the state is RUNNING, and a chunk no larger than what is left to
write and the room that was found for it. It holds for reused handles, pauses
and refused triggers.

**The stream, its pointers** (`PcmHwPtrExact`, `PcmAvailExact`,
`PcmQueueIntact`, `PcmNoReplay`). The invariant is `Exactly`: of a handle that
no close has reset, `hw_ptr` is `lag` frames behind the card and `hw_ptr_base`
the start of its buffer (`Follows`), the interrupt still owed tells the two
readings of a position apart (`OnTime`), the queue begins at the card, ends at
`appl_ptr` and is in the ring (`Even`, `Kept`), and the chunk of a write in
progress fits behind it (`Room`, `Filled`). They need each other: the update
finds the position because it was exact and less than a buffer has passed, the
silence spares the queue because avail is exact, and avail is exact because
`hw_ptr` is. The hypothesis `Timely` excludes what section 6 calls the pause
at the boundary: either the pointers stay below the boundary, or the card
cannot pause and is served within half a buffer, after which
`snd_pcm_update_hw_ptr0` takes an interrupt for late. `pcm_pause` is an
instance of the first, `pcm_stream` of the second. The lemmas on remainders
and places of the ring at the head of the module are the arithmetic that the
provers do not do by themselves.

The proof corrected the model's invariants: `queued <= BufferSize` was part of
the type invariant and is false of a reused handle past the boundary, whose
`hw_ptr` may be a buffer ahead. It is part of `QueueIntact` now.

**The stream as its client hears it** (`PcmImplementsPlayback`). `ClientSpec`
implements `Playback`, for `Timely` and handles that are opened afresh. On top
of `Base` and `Exactly` the invariant `Carried` says that where the area is
marked silent there is silence (`Labelled`), that whatever is marked fresh in
a stream that plays is in the queue or in the chunk in progress (`Clean`),
that a chunk is never empty and fits behind the queue when it is copied
(`Begun`), and that it is still there, behind the queue, when it is committed
(`Offers`). `Clean` is what the other properties of the stream lack: without
it a card that runs dry could meet a frame that was accepted and played
before, or one that was never accepted. A step of the card is `Play` or
`RunDry`, a commit `Accept` or `Refuse` with the start of the engine in it, a
copy `Offer`; every other section is shown to leave the queue alone (`Quiet`)
or to empty it (`Emptied`), and each of these two is a step of `Playback` or a
stutter.

**Interrupt slots** (`IrqHookedSlotInUse`, `IrqReachable`). Besides the two
properties: no two slots have the same line (`OneSlotPerLine`), the line of a
slot with handlers is hooked to it (`InUseHooked`), and what the call in
progress has written so far (`OpSound`). An entry that a failed `request_irq`
left behind has a handler, so that no request takes it, and it is recognised
by its own device's user data only: that is why it does no harm to `Reachable`.

**Wave handles** (`HandlesTypeOK`, `HandlesTableSound`,
`HandlesFreeEntryClean`, `HandlesExclusive`, `HandlesNoLeak`). The
strengthening is `Held`, a substream is held only by a handle of its PCM, and
`LiveInUse`, a live handle is memory in use. Without them an open could be
given an address that somebody still counts on. `FreeEntryClean` is needed for
`Exclusive`: an open leaves the entry's flag as it finds it. `NoLeak` needs
that an open which found a substream finds an entry: with all entries used,
each would have a substream of its own, which is one more than there are.

**Waits** (`WaitsTypeOK`, `WaitsOneWakePerInterrupt`,
`WaitsNoMissedInterrupt`). The invariant of the second counts: `wakes[s]` and
the number of notes of `s` in the table, duplicates included, never exceed
`interrupts[s]` (`Paid`). `OneThread` and `FoundSlot` say that what a thread
found is still in its slot when it clears it, although interrupts came in
between. The third is under the hypothesis that each substream always finds a
slot for its note (`HasRoom`): a full table drops the note. Its invariant says
that a pending interrupt has a note in the table (`Pending`), and that the
note of a thread's substream lies ahead of its scan (`Ahead`).

**MIDI handles** (`MidiOwnStream`, `MidiDevicesReturn`, `MidiHandlesReturn`).
A client has a file exactly when it has an id (`Paired`), and no two clients
have the same file (`FilesApart`): the close of one stream then takes the
device of no other. As in the run, what is said of ids and files holds until
somebody calls `OSS32_MidiRead`.

**Raw MIDI** (`RawmidiUartWhileOpen`, `RawmidiClosedIsQuiet`,
`RawmidiOutputIntact`, `RawmidiInputIntact`). The invariant has how far each
file's open, call or close has come (`Phase`), the equation between the two
pointers of a ring and its count, and the place of a claim just behind
`appl_ptr` (`InSound`, `OutSound`). The lemmas on the ring operations are
about one ring, the number of its oldest byte and its claim. Remainders are
replaced by addition and subtraction that wrap once, which is what they are
there and what the provers decide.

**PCI devices** (`PciListedHeld`, `PciFailedProbeReturns`, `PciExitsCover`,
`PciCardsKept`). The invariant says what the scan has in its hands
(`ScanSound`), that an entry of the table is empty, bound to a driver that
matches its device, filled by a search (`Sought`), or the one being probed
(`TableSound`), that every handle
in use is an accepted card's, on the list, or never got there (`Accounted`),
and that the exit calls come in the order of the drivers (`ExitsSound`).
`PciAssumption` (no driver claims what a later one matches) is used for
`CardsKept`: a driver that takes its cards back takes no other's.

With TLC only: liveness (`CompactTerminates`, `CallsReturn`, `Serviced`,
`WaitsReturn`), which the prover's treatment of fairness and ENABLED does not
reach. The two properties that end in a counterexample have no theorem.

## 6. Behaviours met while modelling

Apart from the two counterexamples of section 4, these came up. They are not
stated as properties, because no sentence of the repository says otherwise or
because they lie outside the conditions of a passing run. TLC found the ones
that take several steps.

- *Compaction.* `malloc.c:356-358` says that the free list is always compacted
  before a call of `free`. When the block under the cursor lies before the
  newly freed head, `compact` merges the head into it and goes on with another
  head: an order of four frees leaves two adjacent free blocks.
- *Underrun not noticed.* The OS/2 branch of `snd_pcm_playback_avail`
  (`pcm.h:761`) reads a `hw_ptr` that overtook `appl_ptr` as a full buffer, so
  `snd_pcm_period_elapsed` does not stop the stream as its description
  (`pcm_lib.c:1822`) says; the stream plays on, silence, until it is stopped.
- *A failed request_irq.* When `ALSA_SetIrq` fails, the handler, its user data
  and `irqNo` stay in the slot (`irq.c:107`). The slot counts as empty, the
  next line gets it, and `process_interrupt`, which looks at the handlers only,
  calls the one whose registration failed.
- *A busy open.* `OSS32_WaveOpen` returns the first handle of the table
  (`sound.c:547`), whatever PCM it was opened for. Its `FileId` stays that of
  the first file (`ioctl.c:1119`), whose end frees the handle that the second
  client plays on; the end of the second file releases nothing.
- *Control changes.* `ioctl.c:31` says that `control_id_changed` is set by
  `snd_ctl_notify()`. Nothing sets it: `WaitForControlChange` times out.
- *MIDI reads.* `OSS32_MidiRead` frees the handle (`soundmidi.c:268`) and the
  client keeps its id. The next call passes the magic number as long as nobody
  has overwritten the block, and frees it again, or reaches the stream that
  got the address meanwhile; the ALSA file of the reader is never released.
- *Failed FM opens.* A refusal after the open of the sequencer
  (`soundmidi.c:123, 160, 175`) frees the handle and keeps the file, and the
  port if there is one.
- *Counter of pages.* A DMA block that the wasteful way did not have to move
  has no entry (`memory.c:353-359`): its free takes nothing off the counter,
  which drifts upwards. A region whose entry found no memory behaves likewise,
  and if its block was moved it cannot be freed at all.
- *The address behind the heap.* `IsHeapAddr` (`malloc.c:552`) compares with
  `<=`, so a page block that begins where the heap ends is freed as one of the
  heap: `free` adds to `uMemFree` what it reads in the heap's last bytes, does
  not find the block and returns; the region and its entry stay for good.
  `RecordsTrue` and `NoRegionLost` except this block and no other. `Accounted`
  is about callers that free what `malloc` gave them.
- *Unchecked DMA memory.* The second try of `__get_free_dma_pages` keeps a
  region whose physical address is unknown (`memory.c:274`).
- *A claimed byte is sent.* A write makes bytes pending before it copies them
  (`rawmidi.c:1506`); a receiver interrupt in between, with the output
  triggered by an earlier write, sends what the cell held a lap before. A read
  loses the oldest bytes of its claim when interrupts fill the ring before the
  copy. `OutputIntact` and `InputIntact` state exactly what is left.
- *Drain.* `snd_rawmidi_drain_output` does not wait on this port and drops what
  is pending.
- *Refused regions.* `pci_request_region` ignores the answer of the resource
  manager: a card works on a region that it was refused.
- *Interrupts of a second card.* `AdapterHandle` keeps the adapter of the card
  before (`rmhelp.c:303`), so the interrupt of the next card goes to it; when
  the probe fails, nobody takes it back. When `RMModifyResources` refuses, the
  handle is allocated and unknown.
- *Names.* When the names of a card cannot be queried (`rmhelp.c:88`), its
  handles stay on the list and go to the next adapter, or are given back by
  the next failed probe while the card is in use.
- *Adapter errors.* The comment at `rmhelp.c:201` says that the driver "won't
  return resources"; line 221 returns them.
- *devfn 0.* The first device of a bus counts as an empty entry
  (`pci.c:509`): its entry is overwritten by the next card, and power changes
  and the shutdown pass it over.
- *Devices that a probe looks for.* `pci_find_device` (`pci.c:281-290`) leaves
  the device in the table without a driver. A failed probe does not take it
  out, and no exit call is entered for it; `pci_unregister_driver` of a driver
  whose ids match it calls `remove` for a device that was never probed. When
  the card being probed has devfn 0, the search overwrites the card's entry and
  the probe goes on with the other device's interrupt.
- *Free bytes.* `uMemFree` is described as the bytes available for allocation
  (`malloc.c:63`). It starts without the first block's header and is charged a
  header for every block, so it is one header below the free blocks with
  their headers, and wraps below zero when everything is allocated.
  `Accounted` states what it is.
- *RESET in sections.* `snd_pcm_lib_ioctl_reset` takes `hw_ptr` modulo the
  buffer in one locked section, `snd_pcm_do_reset` (`pcm_native.c:1907`)
  zeroes `hw_ptr_base` in the next. A period interrupt in between finds a
  `hw_ptr` below its base and moves it a buffer ahead. It matters for a reused
  handle that is reset while it plays; of such a handle `pcm_pause` checks the
  state machine and not the pointers.
- *Pause at the boundary.* A pause sets `hw_ptr_jiffies` back
  (`pcm_native.c:1619`), so that the first interrupt after it counts as late.
  When `hw_ptr_base` has just wrapped to 0 while `hw_ptr_interrupt` is still
  below the boundary, the interrupt adds a whole buffer. `pcm_pause` stops
  before the boundary.
- *Pause and resume.* `OSS32_WavePause` (`sound.c:728`) asks the core to
  release a pause and `OSS32_WaveResume` to push one.
- *A late close.* A handle that was released by CLOSE_ALL or by the end of
  another client's file is identified by its address; when `kmalloc` has given
  the address to a new handle, the close ("all already closed", `sound.c:638`)
  releases the new client's stream. The table stays sound (`TableSound`).
- *Duplicate notes.* `uniaud_set_interrupted_substream` stops at the first
  free slot, so a substream whose note lies behind a hole is noted again; the
  second note makes a later wait return at once. `OneWakePerInterrupt` says
  that even then there was an interrupt for each wake. To fill a table of *N*
  slots from two substreams takes 4, 11, 26, 57, 120 ... steps, doubling with
  each slot: a table of 2048 does not fill.
- *User data.* Between the assignments of `handler` and `x2` an interrupt on
  a shared line calls the new handler with no user data (`irq.c:102`).

## 7. What is not modelled

- Card drivers, synthesisers, OSS emulation and the copied Linux support code:
  vendored, and by far the largest part of the tree (about 200,000 of
  its 330,000 lines are register sequences, codec tables and mixer controls of
  single chips, 60,000 more are headers). What the core needs of a card, its position, trigger
  and interrupt, is the environment of `PcmStream`, `IrqSlots` and `Rawmidi`; what a
  probe asks for is that of `PciDevices`.
- Initialisation, command line, FM instrument tables, thunks, build tools: run
  once, or data.
- Refinement of hardware parameters (`pcm_lib.c`, `pcm_native.c`): pure
  arithmetic over large domains.
- Mixer: sequential, without state between calls.
- Locks and wait queues: the grain of atomicity of the other modules.
- Capture and suspend in the stream; the sizes that
  `OSS32_WaveSetHwParams` negotiates; the capability queries, which open and
  close every PCM of a card.
- Append mode, blocking calls, framing and the resizing of the buffer in
  rawmidi: `lib32` uses none of them.
- `pci_save_state`, which no driver of the tree calls; configuration space.
- The control core, the sequencer, cards and devices of the ALSA core, jiffies:
  candidates, see the plan.

## 8. Plan

Done: `Heap` with its refinement of `Allocator`, `PageMemory`, `PcmStream` with
its refinement of `Playback`, `IrqSlots`, `WaveHandles`, `Waits`, `MidiHandles`,
`Rawmidi`, `PciDevices`, with the proofs of section 5.

Candidates for the model:

1. `PcmStream`: suspend and resume, capture with `snd_pcm_capture_avail`.
2. `Control` (`control.c`): elements and the event queues of the readers.
3. The pool, fifo and priority queue of the sequencer.
4. The handle of a shared interrupt slot (`irq.c:96`), which composes
   `IrqSlots` and `PciDevices`.
5. Reused handles in `PcmClient`: what a client may expect of a handle that
   was reset while it played (section 6, *RESET in sections*).
