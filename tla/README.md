# Verification project for the FreeRTOS 9 weather server (Raspberry Pi 2B)

The program is a bare-metal weather server: a FreeRTOS 9 kernel ported to the
Raspberry Pi 2B, the FreeRTOS+TCP stack over a USB Ethernet controller
(LAN9514, driven by the USPi host library), a 1-Wire driver for a DS18B20
thermometer, and two application tasks that read the sensor and serve its
readings to a TCP client. This directory holds TLA+ models of its parts, the
TLC runs that check them, and TLAPS proofs about them. `PROJECT.json` is the
index: components, runs, the source lines each definition models, mutants,
findings, hazards and theorems.

## 1. Inventory

What is built is listed in `src/objects.mk`; `FreeRTOSConfig.h` fixes the
configuration: preemption on, 5 priorities, 32-bit ticks at 1 kHz,
`INCLUDE_vTaskSuspend` 0 (so `portMAX_DELAY` is a finite delay), mutexes and
counting semaphores on, timers, recursive mutexes and queue sets off,
`configASSERT` undefined. There is no optimisation flag, so every read and write
of a global really happens where the source has it.

| Component | State | Operations | Interacts with |
|---|---|---|---|
| ARM port (`portisr.c`, `portmacro.h`, `port.c`) | I bit, `ulCriticalNesting`, `s_bWereEnabled`, a saved context per task | enter/exit critical, SWI yield, tick | every component: it is the only mutual exclusion there is |
| USB library glue (`synchronize.c`, `uspibind.c`) | `s_nCriticalLevel`, its own `s_bWereEnabled` | `uspi_EnterCritical`, `malloc`, `free` | port, heap, USB interrupt |
| Scheduler (`tasks.c`, `list.c`) | ready, delayed, overflow and pending lists, tick count, suspension depth | delay, suspend/resume all, tick, event lists, priorities, create/delete | queues, event groups, port |
| Queues, semaphores, mutexes (`queue.c`) | ring of items, two wait lists, `cTxLock`/`cRxLock`, mutex holder | send, receive, peek, ISR variants, reset, lock/unlock, take/give | scheduler |
| Event groups (`event_groups.c`) | bits, waiting tasks | set, clear, wait, sync, delete | scheduler, sockets |
| Task notifications (`tasks.c`) | value and state per task | notify, notify-take, notify-wait, from ISR | scheduler |
| Heap (`heap_4.c`) | address-ordered free list, counters | `pvPortMalloc`, `vPortFree` | everything, and the USB interrupt |
| Network buffers (`BufferAllocation_2.c`) | free list, counting semaphore | get, release, resize | IP task, Ethernet poll task, sockets |
| Ethernet port (`NetworkInterface.c`) | output queue, poll task | output, poll RX/TX | IP task, USB driver |
| IP task, ARP, UDP (`FreeRTOS_IP.c`, `FreeRTOS_ARP.c`, `FreeRTOS_UDP_IP.c`) | event queue, ARP cache, timers | one handler per event | sockets, buffers |
| Sockets and TCP (`FreeRTOS_Sockets.c`, `FreeRTOS_TCP_IP.c`, `FreeRTOS_TCP_WIN.c`, `FreeRTOS_Stream_Buffer.c`) | socket lists, TCP state, stream buffers, windows | socket API, segment handling, timers | IP task, event groups, the client |
| USB host (`dwhcidevice.c`, `dwhcixferstagedata.c`, frame schedulers, `usbendpoint.c`) | channels, the stage on each, the toggle of each endpoint, `m_bWaiting` | submit a request, wait, interrupt handler | heap, Ethernet poll task, keyboard |
| Application (`main.c`, `ds18b20.c`, `onewire.c`) | the reading queue `tque`, one client socket | sensor task, server task | sockets, queue |
| DHCP, DNS, USB classes, console, co-routines, other ports | - | - | off, unused, or run once (section 6) |

What is hard in them:

* **Critical sections.** The port keeps one global flag for whether interrupts
  were enabled, although tasks are switched inside critical sections. The USB
  library has a second pair of functions with globals of its own. Correct when
  the section really is masked, when leaving it unmasks, and when no task
  inherits the mask or the count of another.
* **Blocking.** A call that waits looks, suspends the scheduler, looks again and
  enters a list, while interrupts give, the tick counts and other tasks run
  between any two of these. Correct when no wake-up is lost, no timeout is early
  or forgotten across the wrap of the tick count, and the most urgent ready task
  runs.
* **Ownership.** Heap blocks and network buffers pass through interrupts, three
  tasks and four queues. Correct when each is in one place, nothing leaks when a
  queue is full or the heap is exhausted, and nobody uses what it passed on.
* **Time and caches.** The ARP cache ages rows while frames refresh, claim and
  evict them. Correct when an address leads to the host last heard at it, and
  requests for it end.
* **The bus.** One task waits on a flag that the USB interrupt handler clears;
  both take and free channels, and each packet that is split, refused, retried or cut
  short has to move the toggle of its endpoint exactly once.
* **The stream.** TCP has to deliver the bytes once and in order over a network
  that loses, repeats and reorders segments, with sequence numbers that wrap,
  bounded buffers, and one network buffer that may be kept for a delayed ACK.

`hazards` in `PROJECT.json` lists these at the lines where they bite.

## 2. Modules

`TaskLists` and `QueueStore` are libraries of operators on a record of state, one
operator per C function; the state machines apply them inside their actions. An
action is one critical section, or one piece of code between two points at which
another actor can run.
Only `PortCritical` looks inside the critical sections; the other modules take a section
to be masked, as their code does, and finding 1 is where it need not be.

| Module | Models | Extends | Correspondence |
|---|---|---|---|
| `PortCritical` | `portisr.c`, `synchronize.c` | | `irqMasked` is the I bit; `portPc` stands between the accesses to `s_bWereEnabled`; `ctx` is what `portSAVE_CONTEXT` left on each stack; `frames` is the stack of sections and heap calls a task has open, in any mixture; `UsbInterrupt` is the handler's `free` |
| `TaskLists` | `list.c`, list functions of `tasks.c` | | record `k`: ready rings with their `pxIndex`, delayed, overflow, pending and event lists, tick, next unblock time, suspension depth |
| `Scheduler` | `tasks.c` | `TaskLists` | `pc` is where each task is inside `vTaskDelay`, a blocking call or a heap call; the tick and an interrupt that gives can come at every step |
| `QueueStore` | copy functions of `queue.c` | | record `q`: slots, write and read position, count. `Contents(q)` is what the buffer stands for |
| `Queue` | `queue.c` without mutexes | `TaskLists`, `QueueStore` | a call is `try`, `suspend`, `lock`, `timeout`, `check`, `place`, `unlocktx`, `unlockrx`, `resume`, `yield`, `recheck`, as the source is |
| `BoundedFifo` | what `include/queue.h` promises | | abstract specification that `Queue` implements |
| `KernelCalls` | the blocking protocol the next three share | `TaskLists` | |
| `Mutexes` | mutexes of `queue.c`, inheritance of `tasks.c` | `KernelCalls` | `holder`, `held` are `pxMutexHolder`, `uxMutexesHeld` |
| `EventGroups` | `event_groups.c` | `KernelCalls` | `item` is the value of the event list item, where `xEventGroupSetBits` leaves the bits |
| `Notifications` | notification functions of `tasks.c` | `KernelCalls` | `value`, `nstate` are `ulNotifiedValue`, `ucNotifyState` |
| `Sync` | composition of the three in one kernel | all three | mutexes, groups and notifications share the event list items and the ready lists |
| `Heap4` | `heap_4.c` | `HeapSize` | headers by address; a call is the steps between which the USB interrupt's `free` runs |
| `HeapBlocks` | what an allocator promises | `HeapSize` | abstract specification: first fit, split, join; `Heap4` implements it |
| `NetBuffers` | `BufferAllocation_2.c` | | free list and semaphore are two steps of each call, as they are in the code |
| `ArpCache` | `FreeRTOS_ARP.c` | | one step per call (only the IP task calls) |
| `IpTask` | `FreeRTOS_IP.c`, `FreeRTOS_UDP_IP.c`, `NetworkInterface.c`, UDP calls of `FreeRTOS_Sockets.c` | `NetBuffers`, `ArpCache` | three tasks; a buffer's payload is what kind of frame it holds and for whom |
| `StreamBuffer` | `FreeRTOS_Stream_Buffer.c/.h` | | record of positions and slots; one operator per function |
| `TcpWindow` | `FreeRTOS_TCP_WIN.c` | | record `w`: receive side with the stored segments, the transmitted segments, and the three queues `prio`, `txq` and `wait` |
| `TcpSocket` | `FreeRTOS_TCP_IP.c`, TCP part of `FreeRTOS_Sockets.c` | `TcpWindow`, `StreamBuffer` | record `s` of one socket; an operator takes it to what the function leaves. `out` is what is sent, `mine` that the call owns the received buffer, `ack` that one is kept to carry a delayed acknowledgement, `late` how many segments waited too long, `poor` an allocation that fails |
| `TcpClient` | external: the peer and the network | | a client that sends, acknowledges, retransmits and ends its half; segments are lost, repeated, reordered and cut anew |
| `WeatherServer` | server task of `main.c`, `FreeRTOS_accept`, `recv`, `send`, `shutdown`, `closesocket` | `TcpSocket`, `TcpClient` | composition: the IP task's handler of a segment, its timer, the server task, the reading queue and the client |
| `UsbHost` | `dwhcidevice.c`, `dwhcixferstagedata.c`, both frame schedulers, `usbendpoint.c`; request of `usbkeyboard.c` | | record `usb`: channels allocated and enabled, the stage on each, toggles, the flag, and the registers the handler branches on; `task` is the request that is submitted; `device` (external) is the toggle that each device expects |
| `MC*` | instances for TLC | the module named | small sets, and the programs that tasks run |
| `MCKernel` | two parts of which a behaviour runs one | `PortCritical`, `MCScheduler` | the variable `part` says which; the others stay as they began |
| `MCProgress` | the same, for what must happen some time | `MCUsb`, `MCScheduler` | |
| `MCNetwork` | the same, three parts | `MCIpTask`, `MCTcp`, `MCHeap4` | |
| `*_proofs` | theorems | the module named | `HeapIpTask_proofs` is about the heap, `NetBuffers` and `ArpCache` too, `Sync_proofs` about `Mutexes`, `EventGroups` and `Notifications`, `PortUsb_proofs` about the port and the USB host, `WeatherData_proofs`, which extends `WeatherServer_proofs`, about the data of the connection; what is proved, and how, is section 4 |

Mutants, the forms of a definition that a plausible bug would give it, stand next
to the definition they mutate and are marked as such. Nothing uses them.

## 3. Runs

| Run | Asks | Instance |
|---|---|---|
| `port_sched` | Port: does the count of each task say whether it is masked, has a heap call the processor to itself, are interrupts served again after it, whatever tasks and the USB interrupt do to the shared flag? Scheduler: are lists consistent, timeouts exact across the wrap, priorities obeyed, ticks kept, under delays, suspension, interrupts, priority changes, creation and deletion? | two tasks, three brackets open in each, sections and heap calls in any order, the USB interrupt frees; three tasks and idle, 3 tick values, delays 1 and 2, at most 2 pended ticks |
| `port_shared` | Is a task in a critical section masked? **No** (finding 1) | two tasks that never nest, the USB interrupt frees |
| `usb_progress` | Do the task and the USB interrupt handler agree on whose stage is on which channel, do toggles agree with the devices, is the waiting task served? Does every delay end, and do equals take turns? | 1 or 2 channels, buffers of 2 packets, a retry, three sets of endpoints; three peers and idle, 2 tick values |
| `queue` | Is a queue a FIFO, is no wake-up lost, does no call give up early? | two tasks and idle, 2 slots, locks that count to 2, 6 programs |
| `sync` | Is priority inherited and given back, does no one sleep on bits, a mutex or a notification that is there? | three tasks of different priorities and idle, 2 mutexes, 3 bits, 7 programs |
| `mutex_last` | Does giving back the last mutex yield to a more urgent task? **Not if another task waits for it** (finding 6) | three tasks and idle, 2 mutexes, one program |
| `network` | Frames: does each buffer have one owner, does the pool stay intact, does the ARP cache tell the truth? Stream: does each end get the bytes of the other, once and in order; do the transmit queues keep every byte until it is acknowledged; is a waiting call woken; is a kept packet given back once; is the client's FIN taken only after its data? Heap: is `heap_4.c` an allocator (refinement), are its counters right? | 3 descriptors, event queue of 1 or 2, 2 ARP rows, bounded frames, calls, timer ticks and failures; one connection after the other on one listening socket, three cases (below); 8 units of 8 bytes, five sizes of request, 2 tasks in `vPortFree` |
| `heap_isr` | Is the count of free bytes right when an interrupt frees during a call? **No** (finding 2) | 9 units, 1 task |
| `netif_release` | Is a frame that was sent released? **Not always** (finding 3) | the frames of `network` |
| `netif_poll` | Does the poll task go on? **Not without a receive buffer** (finding 5) | the frames of `network` |
| `weather_hang` | Is a request answered, also when the client has ended its half? **No** (finding 4) | one request, no faults |
| `tcp_fin` | Does the server's FIN come after its data? **Not when the segment pool is exhausted** (finding 7) | a pool of one segment, a request of 2, 2 and 1 bytes, two faults |

**Bounds, and why they are enough.** Three brackets let a section stand inside a heap call inside
a section, and any pair in one another twice; two tasks are the one that is interrupted and the
one that runs meanwhile. Three tick values make the tick count wrap
within every delay, so each relation of wake time and tick occurs, and delays
reach `portMAX_DELAY`. Lists of up to three tasks have a first, a middle and a
last item, which is what `vListInsert` and `pxIndex` tell apart. A tick that is
pended twice shows `xTaskResumeAll`'s loop. Two slots make a queue wrap, be
partly full, and be full; locks count to their largest value (127 in the code). Two mutexes are
the least for `uxMutexesHeld` to matter, three bits and tasks for a rendezvous
with one left behind. Eight units of heap (nine in `heap_isr`) with a minimum block of two allow
splits with and without a remainder, a block joined on both sides, and a block
too large. Three descriptors with one kept back (`Leave`) reach an empty pool with
several actors waiting. Two ARP rows force eviction. Where interrupts could
act without bound (`MaxCounted`, `MaxPended`, `Budgets`, `MaxFreeing`) the bound is
a constant in the guard, named in the module. Scaled constants keep the relations
the code depends on: `LockMax` is 127, `TickMod` 2^32, `NumRows` 10, `Bufs` 45 and
`EventLengths` 50 in the code. `OverflowMod` reduces `xNumOfOverflows`, which is
only compared for equality.

The stream of `network` has three cases, told apart by what the client sends, how many readings
there are and how many faults: a request in segments of 2, 2, 2 and 1 bytes with one
fault goes round the receive buffer of 6; one of 1 and 2 bytes with two readings and one
fault brings two replies that do not fit the transmit buffer together; one of 1 byte with
two faults. A fault is a packet that is lost, a time-out that fires, or an
allocation that fails; a packet may be repeated and overtaken besides. The sequence
numbers of the client wrap during its requests, those of the server do not.

The USB host is run with what may be plugged in: the Ethernet function's control
endpoint, which is not split, with the endpoint it sends to; a keyboard's control
endpoint behind the hub, whose transactions are split; or the keyboard itself while
Ethernet frames come in. Two packets are the least for a toggle to move twice; one
channel lets an allocation fail and two let a keyboard interrupt the task between
its steps. `Tries` is 3 or 2 in the code.

Parts that share nothing share a run (`MCKernel`, `MCProgress`, `MCNetwork`): a behaviour
runs one of them from any of its initial states, so each is explored as it would be alone.

Deadlock checking is off in `network`, `netif_release` and `netif_poll`, whose budgets of
frames are spent some time, and in `weather_hang` and `tcp_fin`, as in the stream of
`network`: a packet that is lost after the last time-out allowed stops the connection.
Elsewhere it is on.

**Fairness.** `port_sched`: a call of `vPortEnterCritical` that the running task has
begun takes its next step (weak fairness: the processor executes), and a bracket that is the
innermost one of the running task again and again, with others opened and closed inside
it, is closed at last (strong fairness at each depth: each section and heap call of the code
is a bounded sequence of statements). `usb_progress`: for the USB stage that a task
waits for: the waiting task runs again, the handler is not kept out, and a channel that is
disabled halts (weak fairness); a device that is asked for ever answers once, and so does
its hub (strong fairness, as each refusal is followed by another attempt). Nothing is assumed
of keyboards. For the scheduler: the hardware timer keeps interrupting, as long as a tick may
be pended within the bound, and an API call that has begun goes on while its task is
scheduled; nothing is assumed of what tasks decide to do.
`weather_hang`: both tasks of priority 1 get their share, timers and the client go on, and a packet comes in whenever the poll task, of priority 0, may
run infinitely often; when the client may not end its half first, the same
property holds under the same fairness. The other runs check safety and assume none.

## 4. Proofs

TLAPS proves, for every value of the constants:

* `PortUsb_proofs`, of the port: type correctness with the count bounded by one
  (`PortTypeCorrect`), `MaskCounted` and `HeapCallsMasked`, for every set of tasks, every
  depth and mixture of sections and heap calls, and with the tick and the freeing USB interrupt
  at every step; nothing is assumed of what tasks nest. That a section is masked is no
  theorem: finding 1. `PortInv` adds what a task knows at each place of the two
  functions (`Positions`): between its look at the mask and its own mask it can lose the processor only
  unmasked, so the mask it comes back to is the one it read, and between the test of the exit
  and the count down no heap call is open. And inside a heap call each enter
  stores 0 with nobody else running, so that no section is counted there
  (`FlagInHeapCall`): without this the last leave would restore a mask that a section of the port has
  changed.
* `TaskLists_proofs`: what each list function of `list.c` and `tasks.c` does to a
  kernel whose lists are `Sound`: each list without duplicates and sorted, each task in
  one of them (`WellFormed`, `Separate`), and each delayed task in the list of its turn of the
  tick count, `xNextTaskUnblockTime` no later than the first (`Timely`). A lemma for
  each function says what it moved and that the lists stay `Sound`: `AdvanceTickIs` for
  `xTaskIncrementTick` with its loop and the switch of the two delayed lists, and
  `ResumedIs` for `xTaskResumeAll` with both of its loops. `Since` is the relation
  that `xTaskCheckForTimeOut` computes with across the wrap.
* `Scheduler_proofs`: `ListsIntact`, `HighestRuns`, `TimeoutsKept`, `NeverEarly` and
  `SuspensionKept`. `SchedInv` adds to `Sound` which list each task is in at each step of
  its call (`Placed`), that no ready task is above the running one unless a yield is
  pending or the scheduler suspended (`Chosen`), and that what is left of each delay is the
  distance from the tick count, pended ticks included, to the value of the task's list
  item (`Counted`): only with the first is the choice of `vTaskSwitchContext` the highest
  after `xTaskResumeAll`, and only with the last is a wake-up never early.
* `Queue_proofs`: the queue implements `BoundedFifo` (`QueueImplementsFifo`), and
  `WaitersOrdered`, `NeverEarly` and `WakeupsKept` hold. The first part is the buffer alone:
  what each copy function does to `Contents`, the arithmetic of the two
  pointers for every length. `QueueInv` joins it to the kernel: the locals of each call are
  possible at its label (`CallsOK`), a task is ready unless its call has gone to sleep
  (`Placed`), the event lists hold callers of their own direction, ordered by their
  priorities (`Waiters`), a timeout that has not passed agrees with the time the call noted
  (`Counting`), and the lock is the running task's (`LockOK`). `WaitersOrdered` assumes
  `MaxCounted <= LockMax`: an interrupt that sends 128 times in one lock takes the
  `int8_t` of `cTxLock` below `queueUNLOCKED`. `WakeupsKept` needs the same, and
  `OneSender`: a queue of several slots that is reset while tasks use it has one sender,
  for `xQueueGenericReset` frees all slots and wakes one sender only (`queue.c:301`);
  TLC finds the lost wake-up with two. `WakeInv` says what is owed to the tasks that wait
  (`Owed`): the items, or free slots, are no more than the callers that will look again
  (`Back`) and those that interrupts have counted since the queue was locked (`Backlog`).
  It is inductive only with `Locked`: the task that goes to sleep saw the queue blocked
  after it had locked it, so that what came since is counted.
* `Sync_proofs`: `BoostEnds`, `FreeMutexTried`, `NoneSleepsOnMetCondition`, `NotifiedAwake`
  and the action property `SetReachesAll`, of the composition and so with all three kinds
  of object in one kernel. The group's list is the one that `vTaskPlaceOnUnorderedEventList`
  leaves unsorted, and a notified task that waits on `xPendingReadyList` is on no event
  list, so the lists are only `Loose`: `Sound` without the order of that list and with
  pending tasks that may be ready already; lemmas say what each list function does
  to such a kernel (`UnblockIs` is the loop of `xEventGroupSetBits`, `RepricedIs` the move that
  `vTaskPriorityInherit` and `xTaskPriorityDisinherit` make). `SyncInv` relates each object
  to where its tasks are: who is on the list of an object is inside a call about it
  (`Listed`), `held` counts the mutexes and without one the priority is the task's own
  (`MutexFit`), a free mutex that tasks wait for has one of them awake (`FreeFit`), an item in use
  holds the condition its task asked for until the bits that meet it replace it
  (`GroupFit`), and a task is `waiting` only inside the wait of a notification
  (`NotifyFit`). `NoneSleepsOnMetCondition` is not inductive without the last half
  of `GroupFit`: the priority functions write the same list item, and must find it in use.
* `HeapIpTask_proofs`, of the heap: `Heap4` implements `HeapBlocks` (`HeapImplementsBlocks`), `HeapIntact`
  holds, and free and used blocks tile the heap with no two free ones in touch
  (`HeapStaysTiled`), for every size of the heap and of the minimum block. All assume
  `InterruptsCalls = FALSE`: finding 2 is what happens otherwise. First that the steps of
  `HeapBlocks` keep the tiling; then that the list walks of `heap_4.c` stop where they
  should on a list that is `Linked`, rising from `xStart` to `pxEnd` (`FirstFitIs`, by
  induction along the list), and what `prvInsertBlockIntoFreeList` leaves of the headers in each of
  its four cases. `HeapInv` is the tiling of the blocks and, for
  each step of a call, what of it the headers say already and what not yet (`Phase`): which
  block has left the list, which header has its new size, whose bytes are counted.
* `HeapIpTask_proofs`, of the network, begins with the pool and the ARP cache alone: `PoolStaysIntact`, and
  `ArpCacheIntact`, `ArpCacheRequestsRunOut`, `ArpCacheEvictsOldest`. `PoolInv` adds to the
  invariant which descriptor each call carries at each step. `ArpInv` relates each valid
  row to the histories `heard` and `claim` (`Latest`); that a lookup tells the truth
  follows as each address has one row. Then the system: `EachHandedOnOnce` and
  `QueuedFramesKept`, and that the three tasks
  implement `PoolSpec` and `ArpSpec`, so that what is proved of the pool and of the cache
  holds of the system. These assume `StackWord = {TRUE}`: the word that the poll task reads
  as `bReleaseAfterSend` is what its stack held, and finding 3 is the leak if it is zero.
  `NetInv` says in which of seven places each descriptor is (`OnePlace`), the pool being
  one of them; each action moves at most one. It is inductive only with what the events
  mean: the application does nothing else while its bind event is on the way
  (`BindWaits`), for `BindSocket` moves it; and the network goes down once at a time
  (`DownOnce`), for `NetworkUp` creates the poll task, which may have no descriptor yet.
  That `Output` never finds the output queue full is the pigeonhole principle.
* `PortUsb_proofs`, of the USB host: `StagesOwned` and `TogglesAgree`. `UsbInv` says of each channel in use
  what its stage has transferred and what its registers hold (`Host`), which PID
  the device expects in the middle of a stage, split or not (`InStep`), and what the
  task knows of the stage it waits for (`Submitted`). The interrupt handler takes
  its channels one after the other in one step; a recursive function does so in the model,
  and an induction over the channels that are left gives the invariant after the last.

* `WeatherServer_proofs`: `KeptOnce` and `AppWoken`, through every branch of the
  handlers. For the first, a lemma for each operator says which fields it may change
  (`Changes`), and those that give a packet back or keep it leave as many held as there are
  owners (`Balanced`): the acknowledgement that was put off and the handler that runs. For the
  second, `WokenInv` joins what the server task relies on where it stands (`TaskInv`) with
  the shape of the buffers and queues (`Sound`), and a relation between the socket before and after each handler
  (`Tells`): whatever lets a waiting call go on, an accepted connection, another amount
  of data or of space, the end of the connection, comes with its event bit.
* `WeatherData_proofs`: `RxInOrder` (`DataInOrder`), and that a FIN is accepted only after
  all of the request (`FinAfterRequest`, by `FinAfterTheData`). Both assume
  `RequestsFit`: a client sends fewer than 2^31 bytes in a connection, for the invariant
  numbers the bytes of the request from its first. The invariant has two parts. `NetInv`: each
  packet in the network is cut from the request, or is bare, with a sequence
  number the client did reach, and until the connection is made nothing of it is
  acknowledged. `RxState`: there are places t and e of the request such that the receive buffer
  holds what lies between, `rxCur` is the number of e, each segment of the set
  `stored` is a piece of the request that begins after e, fits ahead in the buffer and is
  there in full, and the FIN, if it was noted, is the end of the request. It is
  inductive because a piece is known by its number: two stored segments that begin at
  one place are the same, and so the run of segments that `xTCPWindowRxConfirm` and
  `xTCPWindowRxFind` join to a new one (`RunFromIs`, by induction over the segments left) is in
  the buffer without a gap. Once the server task has shut the connection down nobody reads, and
  `RxState` asks nothing of the data (`Cares`).

`TaskLists`, `Queue`, `Heap4`, `UsbHost` and `TcpWindow` contain loops as recursive functions on a LET. What they
compute is proved by induction on a set of naturals, by its least element
(`WellFoundedInduction`), which needs no operator as a parameter.

Only model-checked: liveness and ENABLED, which are out of the prover's reach; and
`InheritanceKept`, `PeerGetsTheBytes` and `TxQueuesIntact`, which have no proof yet.

## 5. Findings

1. **A critical section may run unmasked, and leaving one may leave interrupts masked**
   (`port_shared`). `vPortEnterCritical` stores in the global `s_bWereEnabled`
   whether interrupts were enabled (`portisr.c:193`), tests it (`:194`) and masks; the exit
   tests it again (`:211`). Until the mask is set, and from the exit of any section
   on, others write it. The USB handler frees a transfer by itself
   (`dwhcidevice.c:1047`), `vPortFree` ends in `xTaskResumeAll`, which enters and leaves a section with
   interrupts masked, and so leaves the flag 0. Between store and test this lets the task
   into its section unmasked, where a tick may take the processor from it; `task.h:208`
   says that it cannot. No nesting is needed. A nested pair, or a heap call, inside a section
   clears the flag in the same way, and the outer exit returns at once
   with interrupts masked and the count at one, although `portisr.c:218` says that they are
   enabled when the level reaches zero: `ds18b20_readtemp_single` nests through `w1_reset`
   (`onewire.c:183`). What survives all this is `MaskCounted`: the count goes wrong with
   the mask, never apart from it, and so the next exit that finds the flag set undoes both.
2. **The USB interrupt frees while a task is in the allocator** (`heap_isr`).
   `dwhcidevice.c:1047` frees in the interrupt handler; `vTaskSuspendAll`, which is all
   that protects `heap_4.c`, does not keep interrupts out.
3. **A frame may be sent and not released** (`netif_release`). The poll task receives
   one word of the output queue into a struct of two and reads the second,
   `bReleaseAfterSend`, uninitialised (`NetworkInterface.c:94`).
4. **A client that ends its half first hangs the server** (`weather_hang`). Its FIN is
   acknowledged with a FIN of the socket's own; from then on `FreeRTOS_send` answers 0,
   which the loop at `main.c:212` takes for neither progress nor an error. It never waits,
   and the task that polls for packets, of priority 0, never runs again. `src/README.md:29`
   says that the server replies to a client that sends any string.
5. **A poll task without a descriptor stops** (`netif_poll`). When the pool is low or the
   heap exhausted, `NetworkInterface.c:122` passes the driver a NULL buffer, "flushed and
   ignored" as `:116` says; but `smsc951x.c:356` asserts that there is one, and
   `uspi_assertion_failed` loops (assertions are on in this build).
6. **The last mutex is given back without a yield** (`mutex_last`). `xQueueGenericSend` looks at
   what `xTaskPriorityDisinherit` answers only if no task waits for the mutex
   (`queue.c:849`), and `tasks.c:3816` says that "a context switch should occur when the last mutex is
   returned whether a task is waiting on it or not". A task of priority 2 holds M1 and M2, one
   of priority 1 waits for M1 and one of 3 for M2, so that the holder runs at 3. It gives M2
   back, which wakes the waiter of 3, no more urgent than itself; it gives M1 back, which
   lowers it to 2 and wakes the waiter of 1, so there is no yield. Until the next tick it runs before
   the ready task of 3, and may take M2 again before it.
7. **A FIN may be sent before the data** (`tcp_fin`). A segment that is stored out of order
   comes from the pool of the transmit window, too. If the pool is exhausted, `lTCPWindowTxAdd`
   queues nothing of the reply; the server task times out and shuts the connection down, and
   `prvTCPPrepareSend` (`FreeRTOS_TCP_IP.c:1821`), which asks `xTCPWindowTxDone` and not whether the
   transmit buffer is empty, sends the FIN before the reply, with the sequence number of its first byte.
   `FreeRTOS_TCP_IP.c:2005` says of the closure that "it has been checked that both reception and
   transmission are complete". The code has 256 segments for all sockets, the run one.

Seen while modelling, and kept as the models have it:

* `tque` is a FIFO of four and the sensor task drops a reading when it is full, so
  a client gets the oldest reading and not the latest.
* The reply has 13 characters; `src/README.md:48` says 11. After a partial send the loop of
  `main.c:213` begins again at the start of the message.
* A reset or a FIN in `SYN_RECEIVED` closes the reused listening socket for good.
* `FreeRTOS_TCP_WIN.c:1171` compares sequence numbers as unsigned: near the wrap of our own
  numbers an acknowledgement may be taken for old.
* In `LAST_ACK` a server task that waits in `FreeRTOS_send` may still add bytes, which get the
  sequence number of the FIN; and a socket that has sent no FIN yet (`txFin` is 0) sends one
  with a packet that ends at sequence number 0.
* Our FIN is sent once and no timer repeats it in `LAST_ACK`; and in `FIN_WAIT_1` an
  acknowledgement ends the state while data may still be missing.
* `StartKernelTimer` starts nothing (`uspibind.c:42`), so a keyboard that once
  answers a poll with nothing to say is not polled again.
* An error in the data stage of a control request leaves the endpoint's next
  PID at `DATA1` (`dwhcixferstagedata.c:184` returns before the status stage could set
  it back): its next request sends no SETUP, and one without data fails the
  assertion at `dwhcixferstagedata.c:104`. `TogglesAgree` therefore speaks of endpoints
  on which no transaction has failed.

## 6. Not modelled

* Queue sets, recursive mutexes, `timers.c`, `croutine.c`: configured off, not
  built, or never called. `vQueueDelete` and `vTaskDelayUntil` are not called by the
  program. Of the notification actions, `eSetBits` differs from `eSetValueWithOverwrite` only in data.
* DHCP (`ipconfigUSE_DHCP` 0) and DNS (no name is resolved).
* USB enumeration and device classes other than Ethernet: they run once, before the
  stack, or not at all, as sequences of the requests that `UsbHost` models. The reset
  of the controller and its root port are register sequences.
* The DS18B20 and the 1-Wire bus: timed bit-banging in critical sections; what they do
  to the interrupt mask is finding 1.
* Console, GPIO, mailbox, memory maps: no protocol.
* Of TCP: active connections, changes of the segment size and window scale,
  keep-alive, hang protection and callbacks (off), and the time-out of `FreeRTOS_accept`,
  which is 49 days; and the allocation of the segment pool at the first SYN, which may
  fail. The bits that the server task and the IP task change in one
  word (`FreeRTOS_Sockets.c:2402`, `:2768`) are changed in one step: a tick between the read
  and the write of such a word, after which the IP task changes another bit of it, is left
  out. `FreeRTOS_recv` looks at data and state in one step: the task
  that brings packets in has a lower priority than the caller.
* Contents and checksums of frames. What is kept of them is what the handlers branch on.

## 7. Plan

Done in this order: port, scheduler, queues, synchronisation, heap, network buffers
with ARP and the IP task, TCP with the server task, USB host. Left:

* the transmit side of the connection: `TxQueuesIntact`, whose invariant has to place each segment in
  the transmit buffer, and with it `PeerGetsTheBytes`;
* `InheritanceKept`: each step but a wait and a give leaves priorities and the lists of the
  mutexes as they are or shorter, which the lemmas of `Sync_proofs` do not say yet;
* the DS18B20 driver with the sensor task, as far as its timing is more than data.
