# Verification of esl_systemc

TLA+ models, model-checking runs and machine-checked proofs for the programs of
this repository: the SystemC/TLM-2.0 testbenches under `src/src/testbench`, the
components they share under `src/src/common`, and the part of the SystemC 2.3
kernel (`src/systemc-2.3.0/src/sysc`) and of its TLM library their behaviour
rests on. Paths below are relative to the repository root, `src/`.

## 1. The system

`src/src` holds a set of small simulation programs over common components. One
program, `testbench/at_1_phase`, is a platform of six concurrent components;
the others exercise one channel or one kernel feature each. The common components
also make up loosely-timed platforms, whose tops are the examples of the TLM
distribution (`systemc-2.3.0/examples/tlm/{lt,lt_dmi,lt_temporal_decouple}`; its
`examples/tlm/common` is `src/common`). `systemc-2.3.0`,
`scv-2.0.0` and `systemc_regressions-2.3.1` are third-party distributions;
of the first, the kernel and the TLM headers are modelled where a modelled
program runs through them.

### 1.1 Components of the at_1_phase platform

```
 traffic_generator 101 --fifo--> select_initiator 101 --+             +-- at_target_1_phase 201 -- memory
                      <--fifo--                         +- SimpleBusAT-+
 traffic_generator 102 --fifo--> select_initiator 102 --+             +-- at_target_1_phase 202 -- memory
```

| component | state | operations | what makes it correct |
|---|---|---|---|
| `traffic_generator` | pool of payloads `m_transaction_queue`, `m_active_txn_count`, `m_check_all`, position in the loops | `traffic_generator_thread`, `check_complete`, `check_all_complete` | every iteration sends one transaction; every read returns what was last written; it terminates |
| `select_initiator`; also `at_initiator_explicit`, `at_initiator_annotated` | `m_waiting_bw_path_map`, `m_send_end_rsp_PEQ`, the enable event | `initiator_thread`, `nb_transport_bw`, `send_end_rsp_method` | one request and one response in progress; every request comes back once |
| `SimpleBusAT` | `mPendingTransactions`, two queues, two events shared by all payloads | `initiatorNBTransport`, `targetNBTransport`, `RequestThread`, `ResponseThread` | END_REQ, BEGIN_RESP and END_RESP go where they belong, in order, though the events do not say whose they are |
| `at_target_1/2/4_phase` | response queue, end-request queue, `m_request_count`, the memory | `nb_transport_fw`, `begin_response_method`, `end_request_method` | each request is carried out once and answered once |
| `memory` | an array of bytes | `operation`, `get_delay`, `check_address` | reads return the last write; nothing out of range is touched |
| `tlm_generic_payload` | reference count | `acquire`, `release` | a payload goes back to its pool exactly when nobody refers to it |
| `peq_with_get` | multimap from time to payload, one event | `notify`, `get_next_transaction` | no entry is left behind without a pending event |
| `sc_fifo` | ring buffer, readable / read / written counts | `read`, `write`, `update` | a reader sees only what was written before the last update |
| kernel | pending events, sensitivity, run queues, update queue, time | `notify`, `trigger`, `crunch`, `wait`, `next_trigger` | the order in which processes run and events fire |

The components interact by nested calls (`nb_transport_fw`, `nb_transport_bw`),
by events, by the fifos, and by a payload they all hold a pointer to.

### 1.2 The loosely-timed platforms

The generators are those above; the initiators call `b_transport` instead of exchanging
phases, the targets answer in the call.

| component | state | operations | what makes it correct |
|---|---|---|---|
| `lt_initiator` | none between transactions | `initiator_thread` | waits for the delay of each call |
| `lt_td_initiator` | the quantum keeper | `initiator_thread` | runs ahead of time, by the quantum at most, and loses no time |
| `lt_dmi_initiator` | `dmi_memory` | `initiator_thread`, `invalidate_direct_mem_ptr` | reaches by direct access the word `b_transport` would reach; uses no invalidated region |
| `dmi_memory` | a pointer, base and end of the region, two scratch addresses | `is_address_dmi`, `operation`, `load_dmi_ptr`, `invalidate_dmi_ptr` | the region is the one granted |
| `SimpleBusLT` | none | `b_transport`, `getDMIPointer`, `invalidateDMIPointers` | addresses and ranges translated in both directions |
| `lt_target`, `lt_synch_target` | the memory | `custom_b_transport` | the delay is returned, or waited for and returned as zero |
| `lt_dmi_target` | the memory, `m_dmi_enabled`, the toggle count | `custom_b_transport`, `get_direct_mem_ptr`, `toggle_dmi_method` | grants only while enabled; invalidates what it granted |
| `tlm_quantumkeeper` | local time, next sync point | `set`, `need_sync`, `sync`, `reset` | the initiator synchronises once per quantum |

### 1.3 The other programs

| program | what it runs |
|---|---|
| `sc_simple_fifo` | a producer and a consumer thread over a character fifo with immediate notification |
| `sc_mutex`, `scx_mutex_w_policy` | processes over a mutex; the second keeps its own list of sleepers, served FIFO or at random |
| `sc_dut` | a producer, a DUT and a consumer, clocked threads with a reset, over two ready/valid channels `sc_rvd` of three `sc_signal`s each |
| `reset_signal_is`, `dpipe`, `fork_join`, `sc_semaphore` | clocked processes under reset, a delay line, dynamic processes, a counting semaphore |
| `sc_report`, `sc_export` | text output, interface binding |

### 1.4 What is hard about it

* **Order of processes.** IEEE 1666 leaves open which of two runnable processes
  goes first; the kernel's own order is an accident of its queues
  (`sc_simcontext.cpp`, delta events are fired last-in first-out). A model has
  to say which of its claims depend on that order.
* **State across a wait.** A thread tests or looks up something, waits, and goes
  on with what it found before (`SimpleBusAT::RequestThread`, the fifos, the
  mutex of `scx_mutex_w_policy`).
* **Shared events.** An event carries no payload, and `SimpleBusAT` uses one
  event for the end of any request and one for the end of any response. Of two
  notifications of an event only the earlier survives.
* **Phases out of order.** END_REQ may be omitted or overtaken by BEGIN_RESP; a
  call may be answered ACCEPTED, UPDATED or COMPLETED, with another follow-up
  obligation in each case.
* **Handshakes without a lock.** Both sides of an `sc_rvd` channel look at two signals at
  the same clock edge and change them in the same segment that may begin the next
  transfer; a reset may come in mid-transfer.
* **Running ahead of time.** A decoupled initiator accesses memories at a time that has not
  come; how far is up to the quantum keeper, and a target that waits inside the call
  (`lt_synch_target`) uses up the time the initiator brought along.
* **Two ways to one word.** A DMI initiator writes to a target's memory without the target or
  the bus; the region must be translated, and forgotten when it is revoked, at any moment.
* **Ownership by reference count.** Generator and bus release a payload in either
  order; the pool may be empty when an iteration begins.

PROJECT.json lists every hazard at its line, with the properties that would
show it going wrong.

## 2. Modules

| module | models | lines of code it stands for |
|---|---|---|
| `ScKernel` | events, dynamic and static sensitivity, run queues, notification phases, as operators on a record | `sc_event.cpp`, `sc_runnable_int.h`, `sc_simcontext.cpp`, `sc_process*.h` |
| `TlmBase` | payloads, reference counts, `peq_with_get`, `sc_fifo`, the call in progress; the scheduler's actions | `tlm_gp.h`, `peq_with_get.h`, `sc_fifo.h`, `sc_simcontext.cpp` |
| `TrafficGenerator` | the generator thread | `traffic_generator.cpp`, `tg_queue_c` |
| `AtInitiator` | the three kinds of initiator: one thread, one method, one callback | `select_initiator.cpp`, `at_initiator_{explicit,annotated}.cpp` |
| `SimpleBusAT` | two threads, two callbacks | `models/SimpleBusAT.h` |
| `Memory` | the word array behind AT and LT targets | `memory.cpp` |
| `AtTarget` | the three kinds of target | `at_target_{1,2,4}_phase.cpp` |
| `AtSystem` | the platform: composition, fairness, invariants, refinement | `testbench/at_1_phase` |
| `MemoryService` | *abstract*: atomic memories, each transaction carried out once | |
| `MCAt`, `MCAtTestbench` | instances for TLC; the second adds a clock | |
| `DmiMemory` | the region of an initiator | `dmi_memory.cpp` |
| `SimpleBusLT` | the address map, the translation of ranges | `models/SimpleBusLT.h` |
| `LtTarget` | the three kinds of target, the toggling of DMI | `lt_target.cpp`, `lt_synch_target.cpp`, `lt_dmi_target.cpp` |
| `QuantumKeeper` | sync points and local quantum | `tlm_quantumkeeper.h`, `tlm_global_quantum.h` |
| `LtInitiator` | the three kinds of initiator, with their calls | `lt_initiator.cpp`, `lt_td_initiator.cpp`, `lt_dmi_initiator.cpp` |
| `LtSystem`, `MCLt` | the loosely-timed platform: composition, fairness, invariants, refinement; its instances for TLC | the tops of the examples |
| `TrafficGenerator_proofs` | the proofs about the kernel and the generator, on which those of both platforms rest | |
| `AtInvariant_proofs`, `AtSystem_proofs` | the proofs about the AT platform: the inductive invariants and most steps for the first; the bus, the steps for the second, and the theorems | |
| `LtSystem_proofs` | the proofs about the loosely-timed platform | |
| `SimpleFifo`, `SimpleFifo_proofs` | the character fifo with its two threads; the proofs | `sc_simple_fifo.h`, its `main` |
| `BoundedQueue` | *abstract*: a queue of at most Size items | |
| `ScMutex` | `sc_mutex` | `sc_mutex.cpp` |
| `PolicyMutex` | `scx_mutex_w_policy`, which extends `sc_mutex` as `PolicyMutex` extends `ScMutex` | `mutex_policy_main.cpp` |
| `Mutex_proofs` | the proofs about both mutexes | |
| `RvdPort` | the operations of a channel on its signals | `sc_rvd.h`, `sc_signal.h` |
| `Rvd`, `Rvd_proofs` | *abstract*: a channel between any writer and any reader, with any resets; the proofs | `sc_rvd.h` |
| `DutTestbench`, `DutTestbench_proofs` | the three threads of the `sc_dut` testbench; the proofs | `sc_dut.cpp`, `tb_dut.cpp`, `tb_dut_main.cpp` |

### 2.1 How code becomes actions

SystemC processes are coroutines: one runs until it waits (thread) or returns
(method). In the AT modules `simc.cur` is that process. The code between two
waits is cut at the `nb_transport` calls and at the ends of loops, so that an
action is what one component does in one go; as `simc.cur` keeps the processor,
nothing else can fall in between. A call is two steps: the caller fills `link`, the
handler of the callee changes its own state and puts its answer into `link`, the
caller goes on with it. No handler of this code calls another component, so one
call is in progress at most.

In the LT modules a call of `b_transport` runs in the caller's thread through bus and target
and is one action (`Transport`); only `lt_synch_target` waits inside it, which the initiator's
state `inside` stands for. An access through a DMI pointer is one action as well
(`DmiOperation`), since the thread has the processor. `now` is the simulation time, which the
quantum keeper reads; `spent` is a history variable, the sum of what the transactions of an
initiator took. `Wiring` of `TlmBase` tells the platforms apart: over the AT bus, bound directly,
or with blocking calls.

`Dispatch`, `DeltaCycle` and `AdvanceTime` are the kernel: take a runnable
process; with none left, update the fifos and fire the delta events; with none of
those either, let time pass up to the earliest timed notification. Times are kept
as time *left*, so that states repeat. Two timed events due at the same time fire
in any order, as the heap of the kernel leaves it open.

`ExactOrder` chooses between the order of this kernel (its two double-buffered run
queues, delta events from the last one added) and *any* order of runnable
processes and simultaneous events. What holds in any order does not depend on the
accidents of the kernel.

A `REPORT_FATAL`, a failed `assert`, the use of an erased iterator and a wait where
waiting is not allowed all set `fatal`, after which nothing moves: `NoFatal` says
none of them can be reached.

Data is reduced to what the properties tell apart: a word of the memory is an
integer, its own address or, in the second pass, minus it; an address is a port and
an offset (`SimpleBusAT` masks the port away, `SendToTarget`); text output is left
out.

In `SimpleFifo` and `ScMutex` the kernel is smaller, since only immediate
notification is involved: a thread is ready, blocked or running, and which ready
thread goes first is always left open.

In `Rvd` and `DutTestbench` the time is the clock. At an `Edge` the signals are updated and
every thread becomes due; each runs once, in any order, from its wait to the next. A
signal has the value threads read (`cur`) and the value last written (`new`), as `m_cur_val`
and `m_new_val` of `sc_signal`, so that the order at an edge cannot matter. A write to a
signal that is written again in the same segment leaves the last value: `Request(Retire(c))`
is a `read()` that returns and is called again at once. An edge with `inReset` restarts
each thread, as `suspend_me` does by an exception.

## 3. Runs

| run | instance | checks |
|---|---|---|
| `at_testbench` | the shipped testbench: two generators, two 1-phase targets, 16 transactions per loop, its delays (accept 10, read 50, write 30, end response 7 ns), every 20th request in two phases; kernel order | `LoggedTimes` `EveryIterationSends` `ReadsOwnPass` `EndsClean` |
| `at_bus` | two generators, two initiators in each of the nine mixtures of kinds, bus, a 1-phase and a 4-phase target with equal delays (15); 2 payloads, 2 transactions per loop, every 2nd request of the 1-phase target in two phases; any order | `TypeOK` `NoFatal` `TrackingAgrees` `ResponseEnded` `PeqArmed` `ImplementsMemory` `AllComplete` |
| `at_reuse` | two generators on one target, 3 iterations over 2 payloads; any order | `RefCounts` `FreeIsUnreferenced` `RequestExclusion` |
| `at_direct` | three initiators of any kinds (27 mixtures) bound directly to a target of each kind, 3 payloads, fifos of depth 1; any order | `ResponseExclusion` `ImplementsMemory` `AllComplete` |
| `lt` | two generators, two initiators and two targets over `SimpleBusLT`, each of its three kinds (81 mixtures), 3 transactions per loop, 2 payloads, fifos of depth 1; any order | `TypeOK` `KeepsToQuantum` `TimingPreserved` `ImplementsMemory` `AllComplete` |
| `simple_fifo` | fifo of 3, bursts up to 4, 7 characters, writer slower or faster than the reader by turns | `TypeOK` `InOrder` `NoLostWakeup` `StatsMeaningful` `AllDelivered` `ImplementsQueue` |
| `sc_mutex` | four processes | `TypeOK` `MutualExclusion` `NoSleeperLeftBehind` `EverySleeperWoken` |
| `policy_mutex` | four processes, both policies | `ListIsTheSleepers` `ChainUnbroken` `NoStarvation` |
| `dut` | the rounds (up to 9) and pauses (every 6) of the source, 60 reads, data of 5 bits, 3 edges in reset | `TypeOK` `TakesNext` `SameEdge` `ImplementsRvd` `AllConsumed` |
| `at_ndebug`, `policy_mutex_barging`, `lt_dmi_invalidate` | expected violations, section 4 | one property each |

What they show:

* **The model is the program.** `at_testbench` runs the shipped platform with a
  clock. The recorded log (`testbench/at_1_phase/results/expected.log`) ends
  generator 101 at 6087 ns and generator 102 at 6147 ns; so does the model, after
  the same 64 transactions each. This exercises the delays, the order of the delta
  events and the paths of each 20th request together: firing the delta events in
  the opposite order already gives other times.
* **The protocol holds in any order.** With the bus, whichever process runs first,
  no handler meets a phase or a status it cannot handle, the bus's pending entries
  and the initiators' maps agree, the shared end-of-response event never frees the
  response thread for the wrong payload (`ResponseEnded`), no queue is left
  without its wakeup (`PeqArmed`), and all traffic completes.
* **The platform is a set of atomic memories** (`ImplementsMemory`): each
  transaction takes effect once, at the target its address names, between the
  moment it is issued and the moment its response is accepted.
* **Loosely-timed accesses reach the same memories** (`ImplementsMemory` of `LtSystem`, the
  same abstract specification): by `b_transport`, with the port masked out of the address on the
  way, or by a DMI pointer with the range translated by the bus; whether the target grants,
  refuses or revokes the pointer in the middle of it.
* **Decoupling has limits and costs no time.** Between two transactions a decoupled initiator is
  ahead of simulation time but still in the current quantum (`KeepsToQuantum`), also when a
  target has waited inside the call; and its own time is the sum of the times of its
  transactions, whatever mixture it runs in (`TimingPreserved`).
* **Payloads are never reused too early.** `FreeIsUnreferenced` looks at every
  place a payload can be named from: fifos, event queues, maps, the call in
  progress, locals of waiting threads.

### 3.1 Bounds, and why they are enough

The components treat payloads and addresses alike; what matters is how many of them
are in flight in one place. Two payloads of one initiator make its request and
response rules matter; two initiators make the shared events of the bus matter; two targets make routing matter. `Period = 2` brings the rare path
of the 1-phase target, one request in twenty in the source, into every mix;
`at_testbench` keeps 20. `MemorySize` is just large enough for the addresses in use
(`check_address` rejects the last word). `at_bus` takes equal delays so that
requests and responses of different payloads fall on the same instant.
`at_direct` has more payloads than fifo places so that the generator blocks on a full
fifo. The initiators' writes to the response fifo cannot: a full response fifo sets `fatal` (methods
must not wait, and what a thread would do there, wait, is not modelled); `NoFatal`, and `AllComplete`
of `at_direct` with one place for three payloads, show that it is not met: a generator with a response
to read reads it before it sends again. `at_reuse` and `at_direct` take a longer end-response delay (45 and 17 ns) than the shipped
7 ns, so that a second response could come before the first has ended, if bus and target did
not wait. The fifo run has bursts longer than the fifo and a total that is no multiple of
either. Four mutex processes give a holder, a newcomer and two sleepers.
`lt` takes a quantum (12) that holds one or two calls (7 and 5 ns), so that a call ends before,
on and after a sync point. DMI is on at first, is toggled three times and then stays off, 9 ns
after it was disabled and 30 ns after it was enabled: initiators meet grants, refusals and
revocations of what they use. `Span` is a power of two above the memory's size; `AddressSpace` is
larger than the addresses of two ports, so that the subtraction in `invalidate_dmi_ptr` wraps below
zero as it does at 2^64. `dut` reads 60 values in place of 40, since with 40 the rounds of the DUT never start again,
and cuts the data to 5 bits, since 8 do not wrap in so short a run. Two more edges in
reset than `sc_main` has let one come in mid-transfer and a second one during or
after the recovery. `MaxItems` bounds the producer's counter for TLC; `TypeOK` says that it is
never reached.

### 3.2 What depends on the kernel's order

`at_reuse` has more iterations than payloads, as the shipped testbench has. In *some*
order of processes the generator finds its pool empty when an iteration begins,
because the bus has not yet dropped its reference. The iteration then sends nothing and
is not repeated, the word stays unwritten, and the generator's own check of the read
data is fatal later. `NoFatal` is therefore not among the properties of that run. In
the kernel's order it does not happen in the shipped testbench (`EveryIterationSends`),
which is a fact about this kernel and these delays and no consequence of the design.
With `active_txn_count` 1, it happens in the kernel's order as well. The initiator's END_RESP
wakes the bus's response thread and its response wakes the generator in one delta cycle, the
generator first; its pool is still empty then, the second iteration sends nothing, and `check_complete`,
which reads a response whenever the pool is empty, waits for one nobody will send. No run has a
pool of one; with `MaxTxns = 1` in the instance of `at_testbench`, TLC finds `EndsClean`
violated, after one write of each generator.

### 3.3 Fairness

* `AtSystem`: the kernel goes on until it has stopped (`Fairness`). `Stopped` is spelled
  out instead of ENABLED, and deadlock checking, which is on, shows that a state that is
  not `Stopped` always has a step. `sc_start()` without an argument does exactly that.
  No fairness between processes is assumed: the program terminates.
* `LtSystem`: the same as `AtSystem`. The example `lt_dmi` stops its simulation after 1 ms
  (`limit_thread`), which is left out: the traffic has ended long before.
* `SimpleFifo`: the same, `WF(Next)`. The simulation stops when the producer has ended
  and the fifo is empty, so that run does not check deadlock; `AllDelivered` says in
  which state it stops.
* `DutTestbench`: `WF(Next)`: the clock goes on, and each thread that waits for it runs at every edge.
  The simulation ends with `sc_stop()`, so that deadlock is not checked; `AllConsumed` says that it
  gets there.
* `ScMutex`, `PolicyMutex`: strong fairness of `Dispatch` (`PolicyDispatch`) for each process (run queues are
  first in, first out) and of `Unlock` (`PolicyUnlock`; clients give the mutex back in the end, as those of
  the testbenches do; without it no mutex can promise anything), weak fairness of a
  running process coming to its next wait.

## 4. Where code and documentation disagree

Each is a run TLC must find violated.

* **`policy_mutex_barging`**: `lock()` of `scx_mutex_w_policy` takes the mutex after its wait
  without testing it again. If another process, or the one that has just unlocked, locks
  it before the woken one runs, two processes hold it (`OneHolder`). `sc_mutex_if.h` says of
  `lock()`: "blocks until mutex could be locked". `sc_mutex` itself loops, and its exclusion
  is proved below.
* **`at_ndebug`**: in `SimpleBusAT::ResponseThread` the call that forwards END_RESP to the target
  is inside the conditional compilation of the assertion on its result. Built with `NDEBUG`,
  targets never hear END_RESP and the testbench ends with transactions lost.
* **`lt_dmi_invalidate`**: `invalidate_dmi_ptr` of `dmi_memory` compares the end of the range with base
  *minus* size, where the region ends at base *plus* size, and what it resets on a match is
  `m_start_address` and `m_end_address`, two scratch members that `is_address_dmi` overwrites before
  it reads them. Its header says "Invalidates a dmi pointer associated with an address range"; the
  region stays in use until the next grant replaces it. The contents remain right, since the
  pointer still leads to the target's memory: `ImplementsMemory` holds in `lt`.

The comment "Request phase not yet finished" in `SimpleBusAT::RequestThread` is not true in every case
either: the one `mEndRequestEvent` also ends the wait for another payload's END_REQ. `at_bus`
contains this scenario and shows that it does no harm to the three kinds of initiator.

## 5. Proofs

| theorem | for | says |
|---|---|---|
| `SimpleFifo_proofs!TypeCorrect` | any Size, MaxBurst, Total, pauses | `[]TypeOK` |
| `SimpleFifo_proofs!FifoOrder` | " | `[]InOrder`: the ring holds exactly the characters written and not read, in order |
| `SimpleFifo_proofs!WakeupsSound` | " | `[]NoLostWakeup` |
| `SimpleFifo_proofs!StatsSound` | " | `[]StatsMeaningful`: the average depth is between one and the maximum, the maximum at most Size |
| `SimpleFifo_proofs!Refinement` | " | the fifo implements `BoundedQueue` |
| `Mutex_proofs!TypeCorrect` | any set of processes | `[]TypeOK` |
| `Mutex_proofs!Exclusion` | " | `[]MutualExclusion` |
| `Mutex_proofs!NoLostUnlock` | " | `[]NoSleeperLeftBehind` |
| `Mutex_proofs!ListExact` | any set of processes, both policies | `[]ListIsTheSleepers`: each sleeper is listed once, and nobody else |
| `Mutex_proofs!ChainHolds` | " | `[]ChainUnbroken`: somebody is there to wake the next sleeper |
| `Rvd_proofs!NothingLostOrTwice` | any writer, reader, width and resets | `[]TakesNext`: values are taken once and in order |
| `Rvd_proofs!SidesAgree` | " | `[]SameEdge` |
| `DutTestbench_proofs!EveryValueInOrder` | any BufSize, Reads, PauseEvery, Width, Resets | `[]TakesNext` of both channels |
| `DutTestbench_proofs!EndsAgree` | " | `[]SameEdge` of both channels |
| `DutTestbench_proofs!UsesRvd` | " | the testbench implements `Rvd` on each channel |
| `LtSystem_proofs!LtImplementsMemory` | any number and mixture of LT initiators and targets, any pool, fifos, quantum and delays, both orders of the kernel | the platform implements `MemoryService` |
| `LtSystem_proofs!LtTypeCorrect` | " | `[]TypeOK` |
| `LtSystem_proofs!LtKeepsToQuantum` | " | `[]KeepsToQuantum`: no initiator goes on beyond the quantum the simulation is in |
| `LtSystem_proofs!LtTimingPreserved` | " | `[]TimingPreserved`: an initiator's own time is the sum of its transactions' times |
| `LtSystem_proofs!CoreInvariant` | " | every payload is in one place, and the counts agree with it |
| `AtSystem_proofs!AtImplementsMemory` | any number and mixture of AT initiators and targets, over the bus or bound directly, any pool, fifos and delays, both orders of the kernel, with and without `NDEBUG` | the platform implements `MemoryService`: each transaction is carried out once, on the word it names |
| `AtSystem_proofs!AtTypeCorrect` | " | `[]TypeOK` |
| `AtSystem_proofs!AtRefCounts` | " | `[]RefCounts`: a payload has as many references as there are hands that hold it |
| `AtSystem_proofs!AtCoreInvariant` | " | every payload is in one place and in one hand, every call in progress is one its caller makes |
| `AtSystem_proofs!AtPeqArmed` | " | `[]PeqArmed`: no queue that holds a payload is left without its wakeup |
| `AtSystem_proofs!AtResponseExclusion` | " | `[]ResponseExclusion`: an initiator has one response in progress |
| `AtSystem_proofs!AtResponseEnded` | ", over the bus | `[]ResponseEnded`: the bus goes on after the END_RESP of its own payload only |
| `AtSystem_proofs!AtTrackingAgrees` | " | `[]TrackingAgrees`: bus and initiators agree on what is outstanding |

They assume the named ASSUMEs of `SimpleFifo` and `DutTestbench` (sizes and pauses are positive, the
DUT has at least one round that is not empty), `ScMutex` and `PolicyMutex` (`NoOne` is no process),
those of the platforms' modules (sizes and delays are numbers), and nothing else. Four of the platforms' say more.
`MapAssumption`: the addresses of the generators fit in a memory, and a memory in the 2^28 bytes
the bus maps to a port. `PoolAssumption`: the pool has at most one payload more than the two fifos have places;
beyond it a generator that waits to put and an initiator that waits to respond could wait for each
other, which the shipped sizes (16 places, a pool below that) exclude. `AtPlatformAssumption`: the AT
platform's `memory` does not block inside a call, and its generators stay below the last word, which
`memory.cpp` rejects. `AcceptAssumption`: `Period`, which says that one request in
`Period` takes the two-phase path of the 1-phase target (20 in the source), is not zero, and the accept delay
is a number.

*SimpleFifo.* `InOrder` alone is not inductive. A writer that was woken goes on without
testing `nr_elm` again, so one needs that a thread made ready still finds its condition
true when it runs (`NoLostWakeup`); that holds because there is one thread on each side
and a notified thread cannot be overtaken by a third. The type of `total` needs
`BurstAccounted`: it goes below zero within the last burst, by less than `MaxBurst`.
`IInv` is the conjunction, preserved by each action; the theorems follow. For the
refinement, `Contents` maps the ring to a sequence: `WritePuts` appends, `ReadGets` takes the
head, everything else leaves it alone. The index arithmetic modulo `Size` is done once, in
lemmas.

The statistics rest on that invariant as well: a sample is taken of a fifo that is not empty, so that
each adds at least one and at most the new maximum to the sum (`MeanStep`).

*ScMutex.* `IInv` is `TypeOK`, `MutualExclusion` and `NoSleeperLeftBehind`. A sleeper
implies an owner; `Unlock` frees the mutex and in the same step wakes all sleepers; `Sleep`
is possible only if there is an owner.

*PolicyMutex.* `IInv` is the type and both properties. `ListIsTheSleepers` makes sure that the event
`Unlock` takes off the list is one somebody sleeps on, which keeps `ChainUnbroken`; that one event is
taken off and no other is `RemoveOne`, a fact about `RemoveAt` on a sequence without
repetitions. `OneHolder` is not among the conjuncts, since it does not hold (section 4).

*Rvd.* What the reader takes is right only if both sides agree which edge is a transfer. The
invariant says it in three parts. A side that has yet to run has its signal as it left it
(`WriterSide`, `ReaderSide`), so that it returns from its call just when both signals are seen
set (`WrittenIsTransfer`, `ReadIsTransfer`). The counts differ by at most the transfer of this
edge, if only one side has run (`Counts`). The value of this edge's transfer is kept in `cur`
when the writer has already offered the next (`ValueHeld`). A reset clears one side after the
other within one edge; the counts of a side that has run in reset are zero.

*DutTestbench.* The DUT writes what it has read, so that the order of `dut_to_tb` rests on that of
`tb_to_dut`. `IInv` is the invariant of `Rvd` for both channels (the lemmas of `Rvd_proofs`,
instantiated), the place of the DUT in its round, and `BufInv`: what it holds of the round is
what the producer sent at those places. Each step is shown to be a step of the two channels
(`ProducerMaps`, `DutMaps`, `ConsumerMaps`); their invariants then hold again by `Rvd_proofs`.

*LtSystem.* No property of the platform is inductive by itself. `Invariant` has three parts, each of
which needs the ones before it.

* `Core`: `Accounted` says where the payloads of a generator are: in its pool, with the generator, in one
  of the two fifos or with the initiator, each in one of these places, those outside the pool with one
  reference, as many as `m_active_txn_count` says; those on their way to the memory carry the port of
  their generator's pass and status incomplete, the others have been served. `KernelInv` keeps the
  kernel's record in shape: in the kernel's own order every runnable process is in one queue once and
  the delta list names the pending delta events. `Bounds` limits local times and delays by the quantum
  and one call. `Core` gives the refinement: a transport is the only step that touches a memory, it
  finds its payload unserved and at the port of its pass, and both paths to a word, by the bus and
  by the DMI pointer, lead to the same one. `MemoryService` then takes the same step.
* `Places`: what each process waits for, and why. A process runs, may run, or waits for one event at most
  (`OnePlace`); an initiator waits for the time of a call, an empty request fifo or a full response
  fifo, and its timeout is pending exactly while it waits for it (`IniPlace`); the same for the
  generators and the toggling methods; a fifo that was used is about to be updated
  (`UpdatesRequested`), and its events never outlive a delta cycle (`DataQuiet`). That no initiator
  is ever stuck is the point of `PoolAssumption` (`NotBothFull`).
* `Times`: an initiator's own time is `now` plus what is left of its wait plus its local time, and is the
  sum of what its transactions took; where it goes on, its local time is zero or ends before its sync
  point. Time passes (`TimesPass`) only when nothing can run, so that by `Places` every initiator that has
  work waits for its timeout, and not longer than it: what the kernel's time gains, the wait loses. This is the
  argument behind temporal decoupling, and the reason for which the first two parts are needed.

`Times` gives `TimingPreserved` at once, and `KeepsToQuantum` by a fact about division (`SameQuantum`).

The kernel's loops over events, waiting processes and channels are `FoldLeft`s. What such a fold
computes cannot be proved by the library's induction theorems, which take an operator as a
parameter. `FoldInv` therefore speaks about one step operator, whose first argument says which loop it
is (`FoldStep`: `sc_event::trigger` over the methods and over the waiting processes, the delta and the
timed notification phases, the updates of the fifos) and about one invariant of the same form, is proved
once by induction on the length, and is applied to each loop. `TrafficGenerator_proofs`, which has it, also has the
kernel's operators (what `notify`, `wait`, `next_trigger` and `request_update` keep) and the
generator, and knows nothing about the platform around it.

*AtSystem.* The invariant is `AtCore` (`AtInvariant_proofs`). Here several processes, two of them on the bus,
pass one payload around by calls that go both ways, by four kinds of queues and by a map in the
initiator, and each step is right only because nobody else does the same to the payload at that time.

* `Types` and `Calls`: the shapes of the state, the kernel's record (`KernelInv`), and what a call of
  `nb_transport` can look like. Only the process that has the processor is inside a call; `link` is that call
  and has one of the forms its caller and its callee produce (`CallOf`). Without it an answer could
  reach the wrong caller, and nothing could be said about the phase and the delay it brings.
* `Accounted`: the places of the payloads of a generator, as on the loosely-timed platform.
* `PayloadInv`: a payload that has left its generator is in exactly one of five hands of its initiator
  (`OneHand`), and what it carries goes with the place it is in (`Contents`): not carried out on its way, carried
  out after. On the way to the memory and back it is in one queue of one component or in the call that hands it
  over, never both (`InQueues`, `InTransit`), its initiator still waits for it, and the
  bus knows it from its request to the end of its response (`Tracking`).
* `Once`: no payload is twice in a queue.

A target carries out a payload when the call or the queue hands it over. `Asks` and `Fits` say that it was not
carried out before and that it is at the port of its pass; afterwards it is out of that queue
or call and counts as carried out. That gives the refinement. `TrackingAgrees` is a part of `Tracking`, and
`RefCounts` counts the hands. `TypeOK` needs that no fifo overflows (`RoomOK`), which is shown on top of `AtCore`, since
`put` and `get` look at the room first.

`AtCore` says nothing about time, except that no delay exceeds `LongestDelay`. What does depend on who sleeps until which
event is `AtWaits`, an invariant on top of it:

* `OnePlace`: a process waits for one event at most, and is not ready meanwhile; the one that runs waits for none.
* `Armed`: while the consumer of a queue sleeps until that queue's event and the queue is not empty, the event is
  pending, and no later than the head is due. `PeqArmed` follows. The steps that could break it are a
  second `notify` while one is pending (the kernel keeps the earlier of the two), a `get_next_transaction`
  that finds nothing due (it notifies again for the new head), and a consumer that sleeps after it took one payload of two.
* `Fresh` and `Starting`: a thread of the bus calls `wait` at its start without looking at the queue, which is
  harmless only if what came before has its event pending still. So `Armed` demands the same of a queue whose
  thread has not begun, and such a thread is ready, not asleep.
* `OneLate`: of the payloads a responder (the bus's thread, or each target bound directly) has begun the response of, at most one
  is not ended by its initiator. While there is one, the responder waits for the event that ends a response, or
  is in the call that will make it wait, and the event is not pending; and once it is pending, the responder still waits for it.
  So the event cannot come from an earlier payload, though `mEndResponseEvent` is one for all. `ResponseEnded` and
  `ResponseExclusion` follow.

Left to TLC: every liveness property (TLAPS proves none of them under fairness), and
`DutTestbench!TypeOK`, which contains the bound `MaxItems` of the run. Of the AT platform it is what
depends on how the delays of different components relate: that no assertion fails (`NoFatal`), `RequestExclusion`,
`FreeIsUnreferenced`, `EndsClean`, `EveryIterationSends`, `ReadsOwnPass` and `LoggedTimes`. Some of these hold for
the delays of the runs and not for all.

## 6. What is not modelled, and why

* Byte enables, streaming width, unaligned lengths: no generator sends them.
* Extensions and debug transport, and the DMI half of `SimpleBusAT`: used by no AT platform. The same
  code in `SimpleBusLT` is modelled.
* `at_target_1_phase_dmi`: a 1-phase target with the toggling of `lt_dmi_target`; no initiator of this
  repository speaks the AT protocol and asks for DMI.
* `at_initiator_temporal_decoupling`: written against an interface this TLM library no longer has;
  it cannot be built.
* The conversion between blocking and non-blocking calls in the simple sockets: each initiator
  calls what its target implements.
* `reset_signal_is`, `dpipe`, `fork_join`: they show one feature each, without inputs. Each has a
  single behaviour, which its log records, and nothing for a model to explore. Signals and
  synchronous reset are modelled where they carry a protocol.
* `nb_read`, `nb_write` and their tests in `sc_rvd.h`: called by nobody. `nb_read` acknowledges and takes
  the value without a wait, so that the writer hears of it an edge later and a second `nb_read` takes
  the same value again; only `reset()` clears the acknowledgement.
* Event lists, `cancel`, `kill`, `reset`, `suspend`, `sc_pause` of the kernel: no
  modelled program uses them.
* `sc_report`, `sc_export`, `reporting.h`: text and binding, no behaviour over time.
* Data types, tracing, coroutine packages, SCV (with the BDD package CUDD), the regression suite,
  `workbook`: third-party or not part of a program's control. They are by far most of the lines in
  this repository: arithmetic on bit vectors and fixed-point numbers, constraint solving,
  and some 1400 regression programs. The programs above do not run through them beyond
  plain integers and strings, so that the models cover a small share of all lines and most of
  those that decide what these programs do.

## 7. Plan

Done: the kernel; the AT platform with all its initiators and targets that can be built; the
loosely-timed platform with temporal decoupling and DMI; the character fifo, the two
mutexes, the ready/valid channel and its DUT.

Next, in this order:

1. For which delays the AT platform's assertions hold (`NoFatal`, `RequestExclusion`), on top of `AtCore` and `AtWaits`.
2. That the kernel's order is one of the orders of the relaxed scheduler.
3. Events of `sc_signal` and event lists of the kernel, when a program with inputs uses them.
