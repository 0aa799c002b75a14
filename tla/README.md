# Verification of higan

TLA+ models of higan, the multi-system emulator in `src/`, with TLC runs and
TLAPS proofs. The models are translated from the C++ source; `PROJECT.json` maps
each definition to the lines it stands for.

## 1. Inventory of the system

higan emulates some twelve machines. Each one (`src/higan/<machine>`) is a set of
*components* (CPU, picture, sound, cartridge chips, controllers). A component that
runs concurrently is a `Thread`: a libco coroutine with a clock. Each machine has
one `Scheduler`. Everything runs on one host thread; coroutines switch explicitly,
so there are no data races, but every `co_switch` is a point where anyone else may
run, including the user interface, which saves states, resets, powers and exchanges
devices between frames.

| Component | State | Operations | Interacts through | Hard behaviour | What makes it correct |
|---|---|---|---|---|---|
| Scheduler (`higan/scheduler/scheduler.*`) | list of threads, primary, resume, host coroutine, mode, event | `append`, `remove`, `power`, `enter`, `exit`, `synchronize`, `synchronizing` | called by components (exit, synchronize) and by the host (enter, power) | save in two phases while frames keep ending; clocks reduced at every exit; list changed while iterated | a save ends with all threads at safe points; leads preserved; only live coroutines resumed |
| Thread (`higan/scheduler/thread.*`) | handle, unique identifier, clock, queue of entry points | `create`, `destroy`, `step`, `synchronize`, `Enter` | `co_switch`, scheduler list | coroutine addresses are reused; a thread can be created again before it ran | a coroutine runs its owner's entry point; nobody starves; a waiting thread leaves only when others caught up |
| libco (`src/libco`) | stack memory, active coroutine | `co_create`, `co_derive`, `co_delete`, `co_switch` | | contents of freed memory | only valid handles are switched to |
| System (`<machine>/system`) | options, sizes | `load`, `unload`, `power`, `run`, `serialize`, `unserialize` | scheduler, all components | power re-creates threads that are in the middle of something; a loaded state restarts threads | a state loaded continues where it was saved |
| Ports and node tree (`higan/node`, `<machine>/controller`, `expansion`) | tree of nodes, connected device | `allocate`, `connect`, `disconnect`, construction and deletion of devices | user interface, scheduler, lists of peripherals in the CPU | new device is built before the old is deleted; hot-plug between frames | one device per port, no list keeps a deleted device |
| User interface (`higan-ui`) | loaded system, power, connected directories, streams | main loop, power, save and load, connect, rename, remove | `Interface` of a machine, platform callbacks | everything happens between two frames of a suspended emulation | directories of connected devices are not deleted; mixer never blocks |
| Containers (`nall`: vector, queue, serializer) | | insert, remove, read, write, iterate | used everywhere | mutation while iterating, limits | order of the rest preserved |
| Super Famicom DMA and HDMA (`sfc/cpu/dma.cpp`, `timing.cpp`, `io.cpp`) | eight channels, three flags and a mode shared by both | enable, edges, set up, run, transfer, reload | the CPU's cycles, the picture's counters | HDMA interrupts a DMA between any two bytes and uses the channel's registers for something else; zero means the maximum | every byte asked for is transferred and none resumed, every line of a table done, HDMA in time |
| Super Famicom SMP (`sfc/smp`) | three timers of four stages, ports | wait, step of the timers, register accesses | the CPU through four ports, each waiting for the other one's clock | a cycle longer than a half period; the SMP runs alone for a save | no tick lost; nobody reads a port before the other wrote it |
| Audio (`higan/node/audio`, `higan-ui/emulator/platform.cpp`, `nall/queue.hpp`) | list of streams, one ring buffer each | attach, detach, write, output of frames, changes of frequency | node tree, every sound chip, loads of states | output waits for all streams; the buffer checks nothing | buffers suffice, chips stay in step, sound goes on |
| BS Memory flash cartridge (`sfc/slot/bsmemory`) | blocks, status registers, page buffers, command queue, two files | commands, erases of the chip's thread, power, unload | CPU, write protection pin, scheduler | erases requested, locked and unlocked while one is under way | ready means idle, protected blocks kept, erases counted |
| Real-time clocks, Mega Drive VDP FIFO, CD | registers | register accesses | CPU, scheduler | | per device; not modelled |
| Instruction sets, picture generators | registers, memory | instructions, scanlines | bus | sequential | not modelled: data transformations that a model would only repeat |
| Drivers, toolkit (`ruby`, `hiro`), shaders | host resources | input and output | operating system | | not modelled: I/O of the host |

`PROJECT.json` lists the components with their files and status, and, under
`hazards`, what can go wrong where.

## 2. Modules

| Module | Models |
|---|---|
| `Scheduler` | `Scheduler`, `Thread` and libco: one action per scheduler call of a component |
| `SystemHost` | the program around it: power, run, save, soft reset, cartridge and controller exchange; `Init`, `Next`, fairness and the properties. EXTENDS `Scheduler` |
| `SafePoints` | abstract specification of a save: `Safety`, what a step may do, and `Spec`, which adds that a save that was begun is taken; `SystemHost` refines it by `INSTANCE SafePoints WITH ...` (`KeepsPromise`) |
| `SaveStates` | state files, unloading and loading a whole system. EXTENDS `SystemHost` |
| `MCScheduler`, `MCSaveStates` | instances: what the entry points of small systems do, boot orders, symmetry |
| `Ports`, `MCPorts` | ports, peripherals and their directories: node tree, `allocate`, the port connector, sessions of the emulator; the instance has two controller ports, an expansion port and three directories |
| `BSMemory` | the BS Memory flash cartridge: commands, the erasing thread, what is written to disk |
| `Dma` | DMA and HDMA of the Super Famicom, from one edge of the CPU to the next |
| `Smp`, `MCSmp` | timers and ports of the SMP, and who waits for whom; the instance has two timers of different speed |
| `Mixer` | streams, their queues and the output of frames |
| `SchedulerProofs`, `SaveProofs` | types, identifiers and clocks; consistency of saves, and the safety of the refinement of `SafePoints` |
| `CoroutineProofs` | whose code a coroutine runs and who is switched to; the theorems about `SaveStates` |
| `PortsProofs`, `FlashProofs`, `DmaProofs`, `SmpProofs`, `MixerProofs` | the safety properties of the module each is named after |

`Scheduler`, `SystemHost` and `SaveStates` are one specification in three layers. The
other modules are separate and see the scheduler as far as it concerns them. For `Ports`
a device is its name, and when it is exchanged is what `SystemHost` models as `PlugIn`.
For `BSMemory` and `Smp` the scheduler is the difference `lead` of two clocks, which
decides whose turn it is; `Smp` also has the save that lets the SMP run alone, which is
`SystemHost`'s auxiliary phase seen from one thread. For `Mixer` it is how far each
thread is ahead of the CPU. `Dma` lies within one thread.

### State

| Variables | Code |
|---|---|
| `Scheduler`: `handle`, `uid`, `clock` | `Thread::_handle`, `_uniqueID`, `_clock` of every thread object |
| `threads`, `entryPoints` | `Scheduler::_threads` and `Thread::EntryPoints()`, in order; `owner` stands for the bound function object |
| `stack[h]` | what the memory at address `h` would continue with: `entry` (derived, `Enter` not begun), `top` (head of Enter's loop), `start` (behind `scheduler.synchronize()`), `main` (inside the entry point, with `todo`, the scheduler calls that are left), `freed`, `threw` (`ThreadNotFound`) |
| `active` | libco's `co_active_handle`; `Host` is the coroutine of `main()` |
| `primary`, `resume`, `mode`, `event` | the fields of `Scheduler` |
| `host`, `powered` | the call the host is in, the objects it has yet to create or delete, its loop index; `Emulator::system.power` |
| `SaveStates`: `file`, `load` | the state file, and how far `unserialize` has got |
| `Ports`: `dirs`, `saved[d]` | the peripherals' directories, and the name of the node in `settings.bml` of each |
| `node[p]`, `device[p]`, `config` | `Port::connected()` with its attribute `location`, `ControllerPort::device`, the system's own `settings.bml` |
| `BSMemory`: `memory`, `erased`, `locked`, `erasing`, `status` | the cartridge's memory, one bit of each block, and the fields of `Block` |
| `chip`, `page`, `queue`, `writable` | `compatible` and `global` status, `mode`, page buffers, `Queue::history`, `pin.writable` |
| `turn`, `lead`, `at`, `slot`, `disk` | whose coroutine is active, chip clock minus CPU clock, the erase the chip thread is in; connected and powered; `program.flash` and `flash.bml` |
| `Dma`: `channel` | `dmaEnable`, `hdmaEnable`, `transferSize` (which is `indirectAddress`, too), `lineCounter`, `hdmaCompleted`, `hdmaDoTransfer` of each channel |
| `dmaActive`, `dmaPending`, `hdmaPending`, `hdmaMode`, `pc`, `at` | `CPU::status`; the edge that comes next and the channel it is in |
| `asked`, `told`, `late` | history: the bytes still owed, the lines still owed, how long HDMA has been waiting |
| `Smp`: `timer`, `runs` | `SMP::Timer` three times; `timersEnable` and not `timersDisable` |
| `turn`, `lead`, `left`, `waits`, `calls` | whose coroutine is active, SMP clock minus CPU clock, the rest of the SMP's instruction, the waits the two are in |
| `elapsed`, `early`, `saves` | history: the ticks since power, how far the last access to a port is in the future of the other side, the saves since |
| `Mixer`: `tree`, `streams`, `size`, `lead`, `on` | node tree, `Emulator::streams`, queue sizes, threads ahead of the CPU, power |
| `jolts`, `mixed` | history: what may have shifted two chips; a frame was output |

A component of the scheduler is its `Program[t]`: the set of sequences of scheduler
calls that one call of its entry point may make (`step`, `synchronize(u)`,
`synchronize()`, `exit(Frame)`, a waiting loop, restarting another thread). Calls that
expand into loops (`synchronize()` over the list) put their iterations in front of
`todo`, so that every iteration reads the list as it is when it is reached, as the index
iterator of `nall::vector` does. Only `active` takes steps, so one action is the
code between two calls after which somebody else could run. Everything else about
a component (registers, memory, pictures) is invisible to the scheduler and absent.

### Modelling decisions

Scheduler, `SystemHost`, `SaveStates`:

* `co_create` returns any address that is free: the allocator usually returns the
  one freed last, the model allows all. Reading a deleted thread's slot in the list
  (`Slot`) may produce any thread.
* Clocks are taken modulo `W` (2^64 in the code). `Step` is bounded by `MaxClock`,
  the assumption that a frame ends before a clock gets near the end of its range;
  no run deadlocks, so the bound never stops a component in them.
* `MaxID` bounds identifiers and is larger than the number of threads. `MaxEntries`
  bounds the queue of entry points; the host or a restarting component waits when it
  is reached.
* `MaxLead`: saving while paused runs the other threads without the CPU, each time
  a little further. A save is modelled only while no lead exceeds it.
* `Settled` (devices are removed only when no entry point of theirs is pending) and
  `SameIDs` (states are loaded only when the threads have the identifiers they had when
  it was saved) are TRUE in the passing runs; section 3 says what happens otherwise.
* `HostOps` names what the user does in a run; `"swap"` exchanges a device only while
  the power is off, `"plug"` at any frame boundary.
* When an invalid coroutine is switched to, the model has no further step of a
  thread: what the program does is undefined.

`Ports`:

* `Elsewhere` (peripherals are also deleted in the connector of another port than the
  one they are connected to) is FALSE in `connect`. `killed` is a history variable: it
  records that the process once died, after which `Restorable` promises nothing for
  peripherals nobody wrote down.

`BSMemory`:

* `IdleYields`: the idle loop of the flash chip as it is never returns to the CPU
  (`flash_hang`), so that nothing else could be said of the chip. `flash` sets it, which
  replaces `Thread::step(10'000)` by `step(10'000)`, and nothing else.
* Of a block one bit is kept and of a page buffer the same one; counts of page
  writes and sequential loads are chosen freely. `Noise` is what the page buffers may
  hold before a game writes them. The ready/busy mode and the sleep bit are set by
  commands and read by nothing, and are left out.
* The cartridge may be disconnected in the port connector (`Eject`) as well as by
  unloading the system; `SavedTogether` speaks of the latter only (section 3).

`Dma`:

* An action goes from one edge (`dmaEdge()`) to the next. The counters of the picture
  advance in between, inside `step()`, so the triggers of HDMA are actions of their own
  that may come between any two edges, also in the middle of a DMA or while one is
  pending; only not while an HDMA is pending or runs (`Quiet`): triggers are a line
  (1364 clocks) apart and eight channels take less than 500.
* The bytes of the tables are arbitrary, chosen when they are read. All indirect channels
  of one HDMA read the same address; what the address is used for is left out, but not
  that it overwrites the counter of a DMA (`size`), as in the code.
* `Pokes`: the game writes the size and line registers of any channel at any cycle, also
  while it waits for HDMA. `asked` and `told` then follow what it wrote: a register write
  is a new request, and what is checked is what the hardware does with it.

`Smp`:

* A cycle is two actions, `Wait` and what follows once the CPU has caught up: between the
  two the CPU may run, and a save may be taken. Clocks and ticks of a cycle are a pair
  (`Waits`), as the wait states of `TEST` make a cycle longer in clocks than in ticks.
* `Fresh`: a thread that has not run yet is at its safe point; after a save it is inside
  the scheduler call it left. `MaxSaves` bounds the saves taken while the SMP is ahead.
* `Resets` is the code's: writing CONTROL resets timer 2 in the case in which it leaves
  the other two alone (section 3).

`Mixer`:

* Time is counted in output samples. `Skew` is how far a thread runs ahead of the CPU,
  `Burst` how many output samples one input sample completes, `Capacity` what a queue
  holds (20 ms in the code); `MixerAssumption` says how they must be related.
* A cartridge with a sound chip is exchanged when the power is off: the user interface
  advises so. Loading a state, a setting and a chip changing its own frequency shift two
  streams against each other by at most `2 * Skew`; `MaxJolts` bounds them between two
  times of switching the power on.
* `Fresh`, the premise of the properties of the passing run, is that no stream that was
  removed is in the list. `silent` shows what happens otherwise.

### Fairness

`Fairness` of `SystemHost` is weak fairness of `ThreadStep` (the processor runs the active
coroutine) and of a host step when it is in the middle of a call. Nothing else runs
in the process, so both are what "the program continues" means. That the main loop
calls `Run` again is no fairness but the premise of `NoStarvation`. A save needs no
fairness between threads. `FairSpec` of `BSMemory` is weak fairness of the CPU's step
and of the chip thread, which is what `Thread::synchronize` between the two provides
while the power is on; the game's commands and the user's are not fair. `Dma` is fair to
the steps between two cycles of the CPU (`Between`), one of which is always possible
then; the game's accesses and the triggers are not fair. `Mixer` is fair to the samples of
every stream in the tree and to the CPU: each is a thread that runs while the power is on.

## 3. Runs

The scheduler's runs use `W = 64`, `MaxClock = 56`, step sizes 1 to 3 so that threads
overtake each other and tie, and two to four threads: two are needed for a lead,
three for one to be neither primary nor the one being synchronized, four for devices
that replace each other next to them. Handles are symmetric where no liveness is
checked, and so are directories in `connect`.

| Run | What is varied | Checks |
|---|---|---|
| `saves` | saves at every frame end under a CPU that synchronizes all threads; cartridges with a SuperFX that waits for a flag, and without one, exchanged while the power is off | `ClockAboveID`, `SnapshotConsistent`, `AuxiliaryRunsAlone`, `LeadsKept`; `KeepsPromise`, the refinement of `SafePoints` with its liveness: every save that begins is taken; `NoStarvation` |
| `plug` | controllers exchanged, power off and soft resets between frames under a CPU that synchronizes the devices it lists (Super Famicom) | `UniqueIDs`, `RunsOwnEntry`, `SwitchesToLive` |
| `restart` | the CPU restarts the PPU in place (Game Boy) and destroys and creates the APU (Neo Geo Pocket), saves | `EntryFound` |
| `load` | states saved and loaded, power, cartridges with and without a chip that has a thread, a device exchanged while off, the system unloaded and loaded again | `TypeOK`, `RoundTrip`, `ScheduledAlive` |
| `connect` | two controller ports, an expansion port that shows the same directories, three peripherals of three kinds; the program ends properly or is killed | `PortsTypeOK`, `OnePort`, `ConnectedExists`, `Restorable`, `DeviceFollowsNode` |
| `flash` | two blocks; erase, erase all, write, lock, unlock and load pages at any time, with resets, sessions and ejected cartridges | `FlashTypeOK`, `ReadyMeansIdle`, `ProtectedKept`, `ErasesCounted`, `ErasedIsEmpty`, `SavedTogether`, `QueueHasRoom`; `CpuProceeds`, and `ErasesEnd`: once requests stop, the chip becomes ready |
| `dma` | two channels enabled for DMA and HDMA in any combination, any tables and sizes, registers written at any cycle, HDMA triggered at any byte | `DmaTypeOK`, `BytesAsAsked`, `NothingForgotten`, `HdmaOnTime`, `LinesAsTold`; `CpuGoesOn`: the CPU gets the bus back |
| `smp` | two timers, one twice as fast, cycles with and without wait states, every register written, ports accessed from both sides, a state saved while the SMP is ahead | `SmpTypeOK`, `NoTickLost`, `PortsInOrder` |
| `mixer` | a system with one stream, cartridges with one and with two more, exchanged while the power is off; states loaded, settings and frequencies changed | `MixerTypeOK`, `NeverOverrun`, `InStep`; `SoundGoesOn`: frames are output again and again |

Bounds. `load` lets four entry points be pending, as many as one power cycle and one
exchange of a device create, and leads grow to 4. Two controller ports and three
directories are needed for one peripheral to move, one to be renamed to its old name and
one to be in the way. Two blocks are needed for an erase requested while another one is
under way, and for a request of a block that `main()` has passed already; an erase takes
two idle steps instead of thirty, so that the CPU runs in the middle of one. `MaxErased`
stops counting at two. Two DMA channels are needed for one to be passed over or to be
stopped while another one is transferring; a counter of two values has the two cases
that matter, one byte left and zero for the maximum, and a line counter of four
has an entry that ends, one that goes on, one that repeats and one of the maximum length.
The SMP's half periods of 4 and 2 ticks and cycles of 1 and 2 make a cycle as long as a
whole half period of the fast timer and half of one of the slow one. Three streams let two
of them drift apart while the third one delays both. The theorems of section 4 drop these
bounds for most of the properties.

Three runs end in a counterexample and are reported under `findings`:

| Run | What it shows |
|---|---|
| `stale_resume` | Save a state while a controller with a thread is connected, replace the controller, run: `_resume` still is the coroutine of the deleted controller. |
| `flash_hang` | The CPU waits for an idle flash chip, which never waits for the CPU. |
| `silent` | Remove a cartridge with a sound chip: `Object::remove` tells the platform before it takes the node out of the tree, so that its stream stays in the list and no frame is output any more. |

Three more are a constant away from a passing run:

* `plug` with `Settled = FALSE` violates `RunsOwnEntry`: replace a controller twice
  without running a frame between, and the entry point of the deleted one is found by the
  coroutine that gets its address.
* `load` with `SameIDs = FALSE` violates `ClockAboveID` (to be added to its invariants): a
  state made without a Super Scope is loaded after one was connected before the cartridge;
  clocks are then below their identifiers and `exit` wraps them.
* `connect` with `Elsewhere = TRUE` violates `ConnectedExists`: a peripheral is deleted in
  the connector of another port than its own; its directory goes, and it stays connected.

Other disagreements are visible in the models, and the runs keep away from them or do not
depend on them:

* The CPU of the Mega Drive synchronizes all threads in one loop over the list. With
  `HubProgram` and `"plug"` the list shrinks under the loop, which then reads the slot
  the removed thread left behind (`Slot`); `plug` uses the CPU that lists its devices.
* The controller ports set no disconnect callback: `Disconnect` of `Ports` leaves `device`
  alone, and the game goes on reading the controller.
* `Block::id` has four bits, and chips have 16, 32 or 64 blocks: `ErasedIsEmpty` needs
  `IDs >= Blocks`, which only the smallest chip satisfies.
* `BSMemoryCartridge::disconnect` writes `flash.bml` and not `program.flash`: what the
  game wrote is lost by `Eject`, and the erase counts that belong to it are not.
* A channel that HDMA stops at the edge at the start of its own `dmaRun`
  (`dma.cpp:112`) still transfers one byte, because the loop tests after the transfer:
  `Byte` is taken although the channel is not enabled any more, and nothing counts it.
  The comments at `dma.cpp:144` and `dma.cpp:173` say that HDMA stops a DMA.
* The edge that runs HDMA looks at it only if `dmaActive` was set at an earlier edge, to
  let a full CPU cycle pass. `dmaActive` also stays set when HDMA is disabled between
  becoming pending and the edge, and the next request then begins without that cycle.
* `SMP::writeIO` resets timer 2 when it is *not* being enabled (`smp/io.cpp:108`), while
  its comment (`smp/io.cpp:97`) speaks of the 0 to 1 transition for all three.
* The destructor of an expansion device does not take it out of the CPU's list of
  peripherals (`expansion.cpp:11`).

## 4. Proofs

All theorems hold for every value of the constants that satisfies the assumption named
in the module, and need no bound of the runs.

`SchedulerProofs` proves `TypeOK` (`Types`), `UniqueIDs` (`IdentifiersUnique`),
`ClockAboveID` (`ClocksAboveIDs`) and the action property `LeadsKept` (`LeadsAreKept`).
The inductive invariant is `Ready`:
types, plus `GoodCell` (a coroutine that runs has an owner and a rest of a program),
`HostTurn` (which calls of the host go with which active coroutine), `ListOK` (the
list has no duplicates and only threads with handles), `UniqueIDs` and `ClocksOK`.
Clocks need the others: that `clock - uid` does not wrap follows from clocks not
being below identifiers, which `exit` preserves because it subtracts the *minimum*
lead, and a fresh thread starts at the maximum lead plus its own identifier. Sums
stay below `W` because `MaxClock + MaxID < W` (`ConstantsAssumption`). `LeadsKept` is the
same argument seen from `exit`: no clock is below the least lead, so that what is
subtracted modulo `W` is subtracted from all of them alike.

`SaveProofs` extends it: `SaveInv` is `Ready` with `Owners` (no two threads share a
coroutine, the primary coroutine is the CPU's, and it is the CPU that runs there)
and `Saving` (what is at its safe point in which phase of a save). From it follow
`SnapshotsConsistent` and `AuxiliaryAlone`. `Owners` is needed because "the thread
at this address" must mean one thread for a step of the active coroutine to leave
the others where they are; it needs `RestartAssumption`, that only the CPU restarts
threads and never itself, which is so in the two machines that do it. These theorems hold
for every `HostOps` and both values of `Settled`: also with the misbehaviours of section
3, as the model has no step after an invalid switch.

`SavesKeepPromise` proves that `Spec` implies `Promise!Safety`: every step is one of
`SafePoints` under the mapping of `SystemHost` (`Phase`, `Safe`, `Done`), or changes nothing
there. Besides `SaveInv` it needs `CpuListed`, that a save is begun with the CPU in the
scheduler's list and nobody takes it out (`PromiseInv`), and that only the CPU's coroutine
is the primary one: the step that ends the first phase is the CPU's, and leaves
the host with one thread after the other to bring to its safe point. The liveness of
`KeepsPromise` stays with the run.

`CoroutineProofs` takes the history of entry points, which `RunsOwnEntry`, `EntryFound` and
`SwitchesToLive` depend on, one question at a time:

* `EntriesAreFound`: `EntryFound`, without any further assumption. `EntryInv` says that a
  coroutine that has not entered has an entry point registered for its address: an address
  that is handed out again gets a new one before anybody can switch there.
* `OwnEntriesRun`: `RunsOwnEntry`. An entry point found must also be the right one:
  `EntriesApart`, that no pending entry point of another thread has the address of a living
  thread. Every step that frees an address threatens it. `DeletedEntered`
  covers devices, and `PowerOK`, that the system's own threads live or are about to be
  created, covers the rest (`LifeInv`).
* `LivingAreSwitchedTo`: `SwitchesToLive`. In `DeviceInv` the thread to be resumed is
  none that can be exchanged, and while the CPU synchronizes a device no frame ends
  (`CpuAlone`), so that the device it found in its list is there when it is switched to. In
  `OffInv`, for devices exchanged while the power is off, the thread to be resumed may be a
  device, but `power()` makes the CPU the next one before anything runs.
* `AlwaysState` proves `StateInv`, the invariant of systems that load states (`LoadSpec`):
  `SaveInv`, and what of a state file and of a load under way agrees with the threads there
  are. From it follow `ScheduledAlive` (`ScheduledLive`), `SnapshotConsistent`
  (`WrittenConsistent`), `TypeOK` (`LoadedTypes`) and `ClockAboveID` (`LoadedClocks`).
* `RoundTrips`: `RoundTrip`. `Fresh` says that until a component has worked, the clocks
  differ from the loaded ones by one shift, and `Restarting` that `unserialize`'s `power()`
  took every component out of its entry point. Devices are not created by `power()`, may
  be in the middle of something, and are in no file. `LoadedOwnEntries` is `RunsOwnEntry`
  for such systems.

What they assume is what the code of some machine satisfies, and where it is left out a run
shows what happens:

* `Settled` (`OwnEntriesRun`, `LivingAreSwitchedTo`, `RoundTrips`, `LoadedOwnEntries`): devices
  are removed only after they have entered. The user interface does not ensure it; section 3
  says how `plug` fails without.
* `RenewsAlone` (the same): at most one thread is destroyed and created while the system
  runs, on a board without exchangeable threads. This is the Neo Geo Pocket, whose APU
  is the only such thread, and whose CPU, APU, VPU and PSG are all its threads. On a board
  with others the entry point that a renewed thread leaves behind could be found
  by whoever gets its address next.
* `DevicePrograms` (`LivingAreSwitchedTo`): the calls of the Super Famicom's components. A
  loop over all threads, as on the Mega Drive, reads a slot of a list that was shortened
  (section 3).
* The user does not both save states and exchange devices while the power is on
  (`"save" \notin HostOps \/ "plug" \notin HostOps`, `LivingAreSwitchedTo`): `stale_resume`
  does both.
* `SameIDs` (all theorems about `LoadSpec`): a state is loaded into threads with the
  identifiers they had; section 3 says how `load` fails without.

TLC evaluates `RenewsAlone` and `DevicePrograms` for the programs of the runs
(`ProgramAssumption` of `MCScheduler`); `Settled` and `SameIDs` are constants of them.

`PortsProofs` proves `PortsTypeOK` (`PortsTypes`) and `Restorable`
(`PeripheralsRestorable`) for both values of `Elsewhere`. `Restorable` is inductive with the
types: `detach` writes the name of a peripheral when it is taken out of the
tree, and whatever takes a whole tree away, or makes one, has the configuration on the
other side. Assuming `~Elsewhere` it proves `OnePort`, `ConnectedExists` and
`DeviceFollowsNode`: with the error of section 3 a connected peripheral may not exist, and
its name may be given to another one. The invariant `PortsInv` adds that the saved
configuration is `Proper` as well (no peripheral twice, each port knows its peripheral's
name), since it becomes the tree of the next session, and that an unloaded system has no
tree. `OnePort` needs `ConnectedExists`: a new peripheral gets a name that no directory has,
and only then no port has it either.

`FlashProofs` proves `ReadyMeansIdle` from `FlashInv`, which says it of every state and
not only when the game may read the registers: in the middle of `main()` it holds
because the erase found is that of the first block. `ProtectedKept`, `ErasesCounted`
and `ErasedIsEmpty` follow from `ContentsStep`: a step leaves the contents alone,
writes, or ends an erase. They assume `Blocks <= IDs`; in the code this holds for chips
of 8 Mbit only. `FlashTypeOK` (`FlashTypes`), `QueueHasRoom` (`QueueAlwaysHasRoom`) and
`SavedTogether` (`UnloadSavesTogether`) need no such assumption: that the queue has room
follows from how many bytes of each command it may hold. All hold for both values of
`IdleYields`.

`DmaProofs` proves `BytesAsAsked`, `NothingForgotten`, `HdmaOnTime` and `LinesAsTold`
(and `DmaTypeOK`) together. `BytesAsAsked` is inductive once HDMA is known to stop every
channel it serves and to leave the counters of the others (`HdmaChannels`). The other
three need what `IInv` adds: `Passed`, that no channel the loop has passed is enabled;
`Looked`, that HDMA is pending for longer than an edge only before the first edge that
looks at it; and `Counts`, that a line counter is the lines that are left, with its top
bit set if they repeat, which is stronger than `LinesAsTold` and says why decrementing
both in one byte does no harm.

`SmpProofs` proves `NoTickLost` and `SmpTypeOK`. The first holds because the first stage
never holds a half period, for which a cycle must not be longer than one
(`SmpAssumption`): then one subtraction is enough, and no register reaches the first two
stages. `IInv` adds that a cycle belongs to an instruction. `PortsInOrder` follows from
`OrderInv`, for any longest cycle (`SmpAssumption` says that there is one): each save lets
the SMP run alone for one instruction, so `LeadBounded` counts what is left of that
instruction as still to come and bounds lead and rest together by as many instructions as
states were saved; `AccessAhead` says that an access made too early stays in the CPU's
future no longer than the lead lasts.

`MixerProofs` proves `MixerTypeOK`, `InStep` and `NeverOverrun`. Between two shifts the
difference of what a stream has produced and what it has queued is the same for all of
them, and a stream with nothing queued (`Waiting`: there is one, or a frame had been
output) then bounds the queues of the others by its lead. The capacity this needs,
`Skew + 2 * Skew * MaxJolts`, is stated by `MixerAssumption`.

Only model-checked is liveness, which the prover does not reach: `NoStarvation`, that
a save that was begun is taken (the second half of `KeepsPromise`), `CpuProceeds`,
`ErasesEnd`, `CpuGoesOn` and `SoundGoesOn`. Every invariant and every action property
that a passing run checks has a theorem.

## 5. Not modelled

* Instruction sets, picture and sound generation: sequential functions of registers and
  memory, most of the source. A model would repeat them instruction by
  instruction, and what it would be compared with is the hardware, not the repository.
* The serializer, filters and resamplers, real-time clocks, CD and the Mega Drive's VDP:
  data of components. Loading a state is modelled for threads and clocks; that every
  component writes and reads the same fields in the same order is a property of their
  text.
* Battery-backed memory of cartridges other than BS Memory: `save` and `disconnect` write
  each file in one call, and no other file depends on it.
* The double-ended vector, hash tables and strings of `nall`; nothing concurrent uses them.
* User interface, drivers, toolkit and shaders: input and output of the host. Of the user
  interface what it does to ports, power, states and audio is modelled.
* The range of clocks: that frames end before a clock has grown by 2^63 depends on the
  picture generators (`MaxClock`).
* The thread of an empty BS Memory slot, which nothing destroys: it only waits, and the
  next load of a system takes it out of the list.
