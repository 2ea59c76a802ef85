# A TLA+ model of the NB-LOT device firmware

The repository is a NuttX tree for an STM32 board (nucleo-l476rg). The product's
own code is two applications under `src/apps/examples`: `NB_Iot`, a street-lamp
controller that talks to lamp drivers over RS485 and to a server over NB-IoT,
and `lid_master`, which brings up a GPRS modem. This project models that code
and the three parts of NuttX that all of it stands on: the serial driver, the
timed semaphore wait inside every `select()`, and the heap. There are eight
component modules, the TLC runs that check them, and TLAPS proofs for each of
them. `PROJECT.json` maps every definition to the lines it models.

## Inventory

| Component | State | Operations | Talks to |
|---|---|---|---|
| RS485 receiver (`485.c`) | `s_stComm2TrmData` | `comm2trm_RxUartData`, `process_poll`, `ClearCommFrame` | fed byte by byte by the RS485 task; publishes the LED temperature in `DeviceInfo` |
| RS485 task (`485.c`) | `ledvalue`, `SRB`, two descriptors | `_485`, `read_485_recv`, seven frame senders | lamp bus on port B, second bus on port A |
| NB-IoT client (`NB_Iot.c`) | `check_ack_timeout`, `ue_exist_flag`, `ue_need_reboot_flag`, receive buffer | `BC95_power_on`, `query_net_status`, `creat_UDP_socket`, `NB_Iot` loop | BC95 module by AT commands; uploads `DeviceInfo` |
| GPRS bring-up (`task_gprs.c`, `task_monitor.c`) | `GprsData.msgack`, loop counters | `gprs_rst` and its steps in one task, `master_gprs` in another | the two share `msgack`; modem by AT commands |
| Device information (`DeviceInfo.c`) | one record | setters, JSON text | written by RS485, read by NB-IoT |
| EC20 client, GPIO helpers, start-up, cJSON | - | - | EC20 is compiled out |
| Manhole cover tasks (`task_485.c`, `task_wakeup315.c`, `task_zd801s.c`, ...) | mutexes, message records | alarms, hand-over to a slave board | no task of these is created in this build |
| NuttX serial driver | two ring buffers, poll slots | read, write, drain, poll, TCFLSH, both interrupts | below all four serial users |
| Timed semaphore wait (`sem_*.c`, `wd_*.c`) | `semcount`, waiting tasks, `g_wdactivelist`, watchdog pool | `sem_tickwait`, `sem_wait`, `sem_post`, clock tick, signals | below `poll()`, so below every `select()` |
| Heap (`mm_heap`) | chunk headers, lists of free chunks | `mm_addregion`, `mm_malloc`, `mm_free`, `mm_realloc`, `mm_memalign` | below cJSON, watchdogs beyond the pool, task creation |

What is hard here. Every exchange with a modem is a time-out racing a late answer,
and an answer does not say which command it belongs to; `msgack` is shared by two
tasks without a lock; one RS485 receiver state serves two ports and must survive any
byte sequence; the receiver's array is indexed by a count that no test bounds; the
serial driver's interrupt, readers, pollers and flushes meet in one ring buffer with
little locking; a full transmit buffer must wake its writer whatever the order of
wait and interrupt; a time-out, a post and a signal race for one waiting task, and
the timers are kept as differences to each other; the heap must survive months of
calls in any order; one counter drives four differently shaped loops of the NB-IoT
task; and both loops have to keep going whether the other side is silent or never
stops. `PROJECT.json` lists these hazards with their lines.

What makes each component correct:

- the receiver hands on exactly the frames that were on the bus, and drops none
  that begins while it is idle;
- the RS485 task sends frames the receiver would accept, serves lamp and ports for
  ever, and a frame that one port breaks off costs a few frames of the other and no
  more;
- `gprs_rst()` draws no false conclusion from `msgack` and returns in time;
- the NB-IoT task believes only what was reported, restarts a module it has
  reconfigured, ends its bring-up, and uploads again and again;
- the serial driver delivers what was received, and sends what was written, in
  order, wakes whoever waits, and a read after a positive `select()` does not wait;
- a timed wait returns, not early, and no post is lost to a task that has gone;
- the heap gives out memory that nobody else has and refuses only what it cannot
  hold.

## Modules

**Rs485Rx** is the receiver. The variables are the members of `COMM_TRM_DATA`
(`a_byRxBuf` itself is never read, so only its fill count `byFrameLen` is kept),
the published temperature `led`, and the history variables `got`, `taken` (the
bytes of the current frame) and `offset` (1 when the frame starts behind the
tail byte of another, which the code saves after clearing the frame). There is
one action per `case` of the switch. `Save` models the trailing
`a_byRxBuf[byFrameLen++] = byData` including where it lands when the array is
full: the members behind it, in the layout of the struct. `Bus(n)` is the set of
bytes the bus may carry as byte n of a frame.

**Rs485Task** instantiates Rs485Rx and adds the task: `Begin` (lamp on),
`Select`, `Read` (with the `tcflush`), one `Feed` per byte, and `SetBrightness`.
The senders are operators that build the frames byte by byte, since what they
are checked for is that frame, length and check sum agree with the receiver. The
buses are external (`Arrive`): any of a set of chunks may arrive at a port at
any time, the echo of the task's own frames included. The history variables `frame`
and `whole` mark a read that was one frame of this firmware, and one that met an
idle receiver besides; `idled` says that the receiver has been idle since the read.
`Resynced` and `Recovers` are about the bytes of one port that continue a frame of
the other. The receiver then takes its length from anywhere and swallows whole
frames. `Resynced` says that the first frame in which it is idle at all leaves it
idle, so that it takes the one after; `Recovers` that this happens in the end.

**GprsLink** has two tasks and a modem. `gprs_rst()` is a script of numbered
steps, all of the same shape (`Retry`, `Wake`, `StepOk`, `NextStep`) with their
own command, bound and awaited value; `into_establish()` writes once, before its
loop. `StepOk` and `NextStep` are separate because `msgack` is tested and cleared
in separate statements and the other task runs between them. `master_gprs` is
`Start`, `Read`, `Handle`. The modem is external: commands wait on a line, may be
lost, and are answered at any later time or refused.

**NbIot** is the NB_Iot task as one sequence of commands: `SendCmd` writes,
`Returns` is what `NB_Iot_send_cmd()` returns, and one action per call site
(`AtReturns`, `ModeSet`, ...) says what is done with it. The receive buffer `rx`
is a set of kinds of text; a read may have got any part of it and `tcflush`
drops the rest. `told` records what the module has reported so far.

**Uart** is the receive side of `serial.c` and `serial_io.c`. The interrupt
(`RecvChars` with `DataReceived`) runs between any two steps of the users while it
is enabled. `uart_read()` is split where the interrupt or another user matters:
`Test`, `Copy` and `Store` of a byte, and `DisableRxInt`, `Retest` and the wait.
`Retest` is one step because the interrupt is disabled during it. `poll()` is split
at its semaphores: its set-up takes `pollsem`, then `xmit.sem` (`PollXmit`), which a
writer or drain keeps while it waits for the USART (`Write` to `WriteReturn`), then
`recv.sem` (`PollTest`). Signals may end each wait that the code lets them end
(`Interrupted`, `PollInterrupted`). A byte that finds the buffer full is dropped
and changes nothing. **UartFifo** is the queue that a port promises; `Contents`,
the bytes between `tail` and `head`, is the refinement mapping. `Lossless` is the
queue of which nothing is flushed.

**UartTx** is the transmit side: `uart_write()` with `uart_putxmitchar()`,
`uart_tcdrain()`, `uart_xmitchars()` and the data register of the STM32 USART,
whose `txint(true)` sends a byte at once. `Block` is the critical section both
callers share; `Interrupted` has all waits a signal can end. `xmit.sem` lets one
user in at a time, so the locals of `uart_write()` are plain variables. The history
variable `stalled` marks what `uart_tcdrain()` does when a signal ends it: it
leaves the transmit interrupt disabled and bytes in the buffer. The module refines
`UartFifo!Lossless` too.

**Wdog** has the list of watchdogs as operators on a sequence of `[wd, lag]`:
what `wd_start()`, `wd_cancel()` and `wd_timer()` make of it. **TimedWait** uses
them: `sem_tickwait()` is `SemTickWait`, then one of `Taken`, `NotTaken`, `Block`,
and after the wait `Resume` and `Return`, which are separate because the critical
section ends before `wd_delete()`. `Tick` is the clock interrupt with
`sem_timeout()` for every watchdog that expires, `Signal` is
`sem_waitirq(EINTR)`. Tasks that wait are a set, so a post may wake any of them.
**TimedSem** is the abstract semaphore with time limits, without watchdogs: a post
is taken once, a wait times out only when its time is over.

**Heap** has the chunk headers of all regions as one function from addresses, and
the free lists as sequences; the functions of `mm_heap` are operators on that
record, and each stretch of code under the semaphore is one action. Regions are
handed over one after the other, the first by `mm_initialize()` (`Init`) and the
others by `mm_addregion()` (`AddRegion`), which takes no semaphore and is therefore
not taken while a `mm_memalign()` is under way. Searches that the code does by
walking a list are a choice of the first place that fits.
`mm_memalign()` is two (`MemAlign`, `Align`), because it gives the semaphore up in
between; `raw` has the chunks of the calls that are there, any number of them. Addresses
count 8-byte units, so that a header is 1 and a granule 2. **Allocator** is what
users see: blocks that do not overlap, are as large and as aligned as asked for,
and are refused only when no free stretch would do. `loose` is the exception the
code has: a `free()` between the two halves of a `mm_memalign()` leaves two free
neighbours that are not merged. When `mm_realloc()` leaves a chunk too small for
its links (`torn`), the model stops: what follows is whatever the overwritten
header says.

The `MC*` modules fix the external sets; the `*Proofs` modules hold theorems.

## Runs

| Run | Shows | Bounds |
|---|---|---|
| `rs485_rx` | frames that fit are decoded as they were on the bus, saved inside the array, never dropped; the temperature only follows 0x11 frames | the program's own sizes (128); lengths 0, 1, 2, 116, 117, 128, 129, i.e. both sides of every limit; wrong bytes in the fixed places; 0.18 million states |
| `rs485_task` | its frames are well formed and accepted by the receiver; a frame broken off at port A and continued by other frames leaves the receiver, as soon as it is idle, at the start of the frames again, for good; lamp and port B are served | two chunks per port, among them a header at port A that announces 20 bytes, so that the first frame behind it is swallowed whole and the next one by its head, in any mix of the two ports; `SRB_SIZE` = 5 instead of 16, so that it runs in step with the five brightness values; the serial buffers hold one chunk; 0.24 million states |
| `gprs_link` | conclusions from `msgack` are true, one OK ends one step, retries are bounded, `gprs_rst()` returns | three `set_*` steps instead of five, so that an OK can be late by none, one and two steps; `Limit` = 1 (three writes per step); three commands outstanding |
| `nb_iot` | reports are believed only when made, all rounds are used, restart after configuration, bring-up ends, uploads go on | two to three tries per loop, which tells first, middle and last apart; two commands outstanding, so that answers reach a later command, round or phase; 1.06 million states |
| `uart_shared` | interrupt and reader implement a queue; no lost wake-up, no lost poll event, left-over wake-ups do not pile up; a reader with data returns, and so does a poll that has begun its set-up, unless a reader sleeps; writers only delay it | `Size` = 3 holds two bytes, so the buffer fills, wraps and empties within a few steps; two byte values; reads of two bytes; one poll slot for two users, so that `-EBUSY` happens; either user may be in a write while the other polls; 0.22 million states |
| `uart_task` | a flush by the only user keeps the queue; a read after a positive `select()` finds a byte, also on port B's blocking descriptor | the same buffer, one user |
| `uart_tx` | writers and interrupt implement a queue; whoever waits for room will be woken, which answers the question in `uart_xmitchars()` ("Potential bug? ... Can that happen?"): not with writes and drains; output goes on after every call; a waiting call returns | the same buffer size; writes of three bytes, one more than it holds; a blocking and a non-blocking user |
| `timed_wait` | `TimedWait` implements `TimedSem`; a negative count is the number of waiting tasks; watchdogs are due one tick after the limit; none outlives its call; a wait with a limit returns | three tasks, so that watchdogs go in front of, between and behind others, also at different times although one delay is used; delays 0 and 2; a pool of two with one in reserve, so that it runs out; one post nobody has taken |
| `heap` | chunks tile the regions, lists are complete, sorted and disjoint, free neighbours are merged; `Heap` implements `Allocator` | two regions of 48 and 240 bytes, handed over in this order; three lists; sizes of 3 and 13 units, alignment 4; the second region has room for the chunks of two calls of `mm_memalign()` side by side and for one behind other chunks, so that the front piece, the second alignment point, the unmerged neighbours and two calls between their halves all occur; 0.27 million states |

Three runs each show a statement of the source that the code does not keep:

- `rs485_valid_size`: the comment calls every length up to 128 valid; from 117 or
  118 on, the unchecked save overwrites decoded members.
- `nb_iot_mode_check`: a module that misses the first AT and answers the second is
  never checked, configured or restarted.
- `heap_torn`: a chunk is said never to be smaller than a free node. `mm_memalign()`
  cuts its block to a size that is not in granules, and when `mm_realloc()` then
  takes from a free neighbour it may leave 8 bytes, which it puts in a list although
  its links do not fit. No caller of this build combines the two.

The modules also show these, for which no run is spent: a frame of length 0 has one
byte taken for data before its check sum (`RxData`); the message that the auto mode
is set is printed when the command failed (`ModeSet`); uploading starts when
`creat_UDP_socket()` has failed (`SocketCreated`); `TCFLSH` by a second task is undone
by a reader that has loaded the tail index (`Flush` against `Store`, which
`uart_shared` therefore runs without a flusher); a drain that a signal ends stops the
output until the next write (`stalled`); a signal during the teardown of a `poll()`
leaves its slot (`leaked`). The firmware meets none of the serial ones: each of its
ports has one task, and nothing drains.

Deadlock is not checked where the program may stop: `gprs_rst()` returns once,
and `NB_Iot()` ends when there is no network. The RS485 task never stops and is
checked; so are the serial driver and the timed wait, whose users can always call
again. The heap stops where it is torn.

### Fairness

Each liveness property assumes weak fairness of one task and nothing of the
other side. For `master_monitor`, sleeps end and NuttX schedules the task
(round robin at equal priority). For `NB_Iot` and `_485`, every `select()` has a
time-out, so the task always has a next step. Modems, buses and `master_gprs`
may do nothing for ever. `UploadsGoOn` and `PortBServed` name the case in which
the code does not make progress: a module or a port A that never falls silent.

For the serial driver, calls that can go on go on. The fairness is strong because a
semaphore may be taken and given any number of times before a user gets it, and
NuttX gives it to the first of the waiting tasks of the highest priority: the users
of a port are taken to have equal priority. Nobody has to call, nothing has to
arrive, no signal has to be sent. Of a write or drain in `Uart` it is assumed that
it returns (weak fairness), which is `WriteReturns` of `uart_tx`. On the transmit
side the USART shifts its byte out and its interrupt is served (weak fairness),
since hardware flow control is off. `timed_wait` assumes that the clock ticks and
that a task that can run does; it assumes no post.

## Proofs

All theorems are for every value of the constants under the assumptions named in the
modules: `MAX_LEN_COMM_TRM_DATA` in 13..128 and buses of bytes, whatever has been
written to them; any range of the frame counter that is not empty; any number of
`set_*` steps, retry limits and line size; any numbers of tries (at least one where
the code counts down to zero); any ring buffer that holds a byte, any number of
users and poll slots; a finite set of tasks, any limits and any sizes of the
watchdog pool; any regions of whole granules that lie apart and have room for a
chunk, any sizes and any alignments above a granule, any number of lists. A
hypothesis that a theorem needs beyond these stands in its statement.

*Rs485RxProofs.* The properties are not inductive: nothing in them says how far
the frame has got. `IInv` ties the status to the number of bytes taken
(`Position`), the fixed bytes and the length to what was taken (`Header`), the
fill count to both (`FrameLen`), and the decoded members to the bytes
(`Decoded`), the last only while `byFrameLen` is within the array, because
beyond it the code really does overwrite them. `SaveKeeps` is the lemma that an
in-bounds save disturbs no member. Theorems: `TypeCorrect`, `InBounds`, `Intact`,
and the action properties `NoGoodFrameDropped` and `LedReported`.

*Rs485TaskProofs.* `CheckSumIsSum` shows that adding byte by byte with an 8-bit
overflow, as the senders do, gives the low byte of the whole sum, for every
sequence; it rests on `FoldExists` and `SumFacts`, that the folds of the library are
the functions that their recursion describes. `FrameFacts` then knows every byte of
a frame, and `SwitchFormed` and `BrightnessFormed` that what is sent is well formed.
`TaskInv` says that only frames of the loop are written and that only bytes are on
their way to the receiver. Rs485RxProofs is instantiated with a bus of arbitrary
bytes, so that the receiver's own invariant holds in the task too
(`ReceiverInvariance`), and with it `FrameIntactOnTwoPorts`. `FirmwareTaken` needs
the strengthening `Following`: while a frame that one read has delivered whole is
being fed, what is still to be fed is the rest of that frame, and the receiver has
counted the bytes fed and knows the length the frame announces. `ReceiverResynced`
needs more (`Resyncing`): a receiver that has been idle in the frame is where it
should be, or idle, or has taken one of the frame's last bytes for a head
(`Astray`). Data and check sum may be 0x68, but they stand so near the end
(`NoHead`) that what follows them cannot be a header, so the tail finds the receiver
in one of the three statuses that drop it.

*GprsLinkProofs.* `ConnectTrue` and `RegisterTrue` follow a fact along its whole
way (modem, receive buffer, `cArray`, `msgack`, a step that has seen it but has
not cleared it). `AckCounted` makes `OneAckPerStep` inductive: an ACK that has
not ended a step is strictly one more than the steps ended. `Written` equates the
loop counter with the number of writes at each point of the loop.

*NbIotProofs.* `Truth` is the same idea for the receive buffer; `Pending` says at
each command whether a restart is owed; `Counted` equates the rounds used with
what is left in `check_ack_timeout`, with a different constant in the two halves
of a round.

*UartProofs.* `Exclusive` says who holds `recv.sem`, `pollsem` and a slot, by the
place of each user in the code; `Slots` counts the slots in use and the lost ones;
`WakeupOnce` says that no wake-up is given to a reader that has not asked for it.
With them `NoLostWakeup` is inductive for any users, flushes and signals included.
What a reader has in hand between its test and its assignment of the tail index
(`InHand`) is the oldest byte only as long as nobody else moves that index:
`PollersNotified`, `InputIsQueue` and `FlushedIsQueue` assume that nobody flushes or
that the one who does is the only user (`Sole`), which is how the firmware uses its
ports. `ReadFinds` assumes one user, and follows what its `poll()` has found to the
test of its read (`Found`).

*UartTxProofs.* `Exclusive` says that `xmit.sem` has exactly the user inside the
driver as its holder; `Position` says what the holder's place in the code implies
for the interrupt, the next index and the buffer. With them `NoStuckWriter` and
`OutputGoesOn` are inductive. `InsideStep`, `LeaveStep` and `OutsideStep` reduce a
step of one user to facts about that user, so that each action needs little more
than its own assignments. The refinement `Spec => OutputKept` rests on
`RingIsSeq` (the bytes between the indices are a sequence of `Count` bytes),
`SendByteGets` and `PutXmitCharPuts`: moving an index round the ring is `Tail` and
`Append` on that sequence. Assumed are a size of at least two and writes of at
least one byte.

*TimedWaitProofs.* The list of watchdogs keeps each time as a difference to the one
before it, so the first half of the module shows what the list means: a table that
gives each watchdog the ticks it has left. `StartFacts`, `CancelFacts` and
`TimerFacts` say what `wd_start()`, `wd_cancel()` and a tick do to that table: one
entry more, one less, or each less by one and those at zero gone, and no other
entry changed, wherever in the list it happens. The second half is about the tasks:
`Phase` says for each place of `sem_tickwait()` what the task's watchdog, limit and
result are, and for a waiting task that time waited and ticks left add up to the
limit and one (`Due`). `WaitersCounted`, `OnTime` and `WatchdogsOwned` follow, and so
does the refinement: the steps that touch only watchdogs stutter, and a time-out is a
step of `TimedSem` because its time is over. That no post is lost is the refinement
and `WaitersCounted` together: a post that woke nobody would be a stuttering step of
`TimedSem`, but the count would no longer be the number of waiting tasks.

*HeapProofs.* Between two statements of a heap function the heap is not intact: a
chunk is out of its list, or free and in none. `Good(h, out, alone)` is what then
holds of a heap `h`: its headers tile the regions handed over, its lists hold just
the free chunks outside `out`, and when `alone` no two free chunks outside `out` are
neighbours. There is a lemma for each operator (`GoodUnlink`, `GoodAdd`,
`GoodAbsorb`, `GoodCut`, `GoodFreed`, `GoodAllocated`, ...) that says how it changes
`out`, and under which condition; the functions are chains of these, each of which
has to end with nothing in `out` (`GoodTake`, `GoodRelease`, `GoodShrink`,
`GoodGrow`, `GoodFront`). Below them lie what the operators do to the headers
(`SetSizeFacts`, `CutFacts`, `AbsorbFacts`), that this keeps the regions tiled
(`MergeTiling`, `SplitTiling`, `LaidFacts`), and that inserting in front of the
first chunk that is not smaller keeps a list sorted (`AddFacts`). The inductive
invariant adds `RawChunks` for the gap within `mm_memalign()`: the chunk that each
call there has got is still allocated, no other call's and at least as long as it
asked for, without which its second half could cut more than there is.
`HeapStaysIntact` follows. For the refinement each lemma also says that no other
user's chunk has changed (`Keeps`, `Gives`); `GiveStep` turns this into a block
beside the others, and `NoRoom` shows that a vacant stretch of memory lies within
one free chunk when free chunks are merged, so that a search of the lists from
`mm_size2ndx()` on that finds nothing means that there is none. A `mm_realloc()`
that tears the heap is where both theorems stop: it is the last step of a behaviour
and stutters in the allocator.

Facts about every length of a list or every number of summands are proved by
induction in the form of a statement about a set of numbers that holds 0 and with
every number the next (`Induction`), which the provers can apply to a set that is
written out.

Only model-checked: the liveness properties (`ResetReturns`, `BringUpEnds`,
`UploadsGoOn`, `LampServed`, `PortBServed`, `Recovers`, `PollReturns`, `DataReturned`,
`WriteReturns`, `WaitReturns`), which the prover does not reach.

## Not modelled

- Formatting: the JSON text, hex conversion, the wording of AT commands, log
  output. Texts are kinds ("holds OK", "holds +CGATT:1").
- Reads that end within a line: `master_gprs` reads a second field of `+CREG:`
  that may then not exist.
- Failing `open()` of the RS485 and NB-IoT devices (the tasks go on with
  descriptors that are not valid) and errors of `select()`.
- Who uses the heap for what: `DeviveInfotoJson()` never frees the printed string,
  so each upload leaks it. Heap says what follows (a refusal, which the code does
  not test); the sizes are cJSON's.
- The EC20 client and the manhole cover tasks, which this build never starts;
  cJSON, which is third-party.
- The rest of NuttX (scheduler, file system, other drivers and architectures), its
  example applications and OpenOCD. They are some 99 % of the repository's lines
  and upstream code; the firmware links a small part of NuttX and none of OpenOCD.
- Of the serial driver: open and close, the events of `poll()` for output (its wait
  for `xmit.sem`, which a `poll()` for input makes too, is modelled), `TCOFLUSH` (it writes
  the transmit indices without `xmit.sem`, and nothing calls it), output
  translation, DMA. `txempty` of this USART is `txready`, so a drain returns with
  the last byte still on its way.
- Of the kernel: priorities and priority inheritance, cancellation points, the
  tickless clock, and delays of 2^31 ticks, which `wd_start()` refuses and
  `sem_tickwait()` would then wait for without a limit.
- Of the heap: contents of blocks, sizes near `SIZE_MAX`, `mm_extend()`.
- Several descriptors in one `poll()`.

## Plan

Done, in this order: Rs485Rx, GprsLink, NbIot, Rs485Task, Uart, UartTx, TimedWait
with Wdog, and Heap, all with proofs.

1. `Upload`: Rs485Task and NbIot composed through `DeviceInfo`.
2. Pure algorithms: `ByteToHexStr`/`HexStrToByte` and the sorting filter of
   `task_485.c`, against reference definitions.
3. `Alarm`: the hand-over between `task_wakeup315.c`, `task_485.c` and
   `master_monitor`, where a failed `pthread_mutex_trylock` drops an event and a
   wait has no time-out; `Ec20`, the AT client that searches a buffer it does not
   clear. Neither runs in this build.
