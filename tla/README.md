# CrDK in TLA+

CrDK is a set of C libraries for Qualcomm platforms (power resources, pins,
interrupts, clocks, a debug UART), and the UEFI drivers built from them; the
libraries also build into Windows drivers.  This directory models the parts of
it in which several actors share state, and the drivers put together, checks the
models with TLC, and proves their safety properties and refinements with TLAPS for
all values of the constants.

Paths below are relative to the repository; `rpmh.c` is
`Library/RpmhLib/rpmh.c` and so on.

## The system

Every UEFI driver links its own copy of the libraries it uses, so each has its
own tables (`mCrIntTable`, `mGpioIntTable`).  Under UEFI there is one processor.  A
driver runs inside its entry point or a protocol call; interrupt routines preempt it
anywhere, because no library masks interrupts (`oskinterrupt.c:179` has a TODO
about it).  Nothing is persisted, and nothing restarts.  The Windows build of the
interrupt library is the one part that runs on several processors.

A regulator vote goes through three drivers: `RpmhCrDxe` asks `CmdDBCrDxe` for the
address of a name and gives address and value to the RPMh library, which writes
them to the hardware and has an interrupt routine in the interrupt library.  An
interrupt of a pin goes the other way: through the PDC, or through the line that
the other pins share and `GpioIsr`, to the interrupt library and to the client.

| Component | State | Operations | Talks to | Hard because |
|---|---|---|---|---|
| RPMh library, `RpmhCrDxe` | `RpmhDeviceContext`: `TcsBusy`, `IrqFromRpmhCr`; the registers of the trigger command sets (TCS) | `RpmhWrite` under `RpmhEnableVreg`, `RpmhSetVregVoltage`, `RpmhSetVregMode`; `RpmhDrvTcsTxDoneIsr` | the hardware (RSC), the interrupt library, the command database; the firmware's own RPMh driver uses the same hardware | the call does not wait, the interrupt releases the TCS, and the two share a bitmap and a flag |
| Interrupt library, UEFI | `mCrIntTable` | `CrRegisterInterrupt`, `CrUnregisterInterrupt`, `CrInternalInterruptEntry` | the interrupt controller's protocol; called by RPMh, UART, GPIO, PDC | the table is filled, emptied and compacted while interrupts search it |
| Interrupt library, WDF | the handle in a client's `CR_INTERRUPT_CONFIG`, the object's context | `CrRegisterInterrupt`, `CrUnregisterInterrupt`, its work item; interrupt routine, DPC, work item | the Windows framework | deletion above PASSIVE_LEVEL is deferred; threads, callbacks and work items on several processors |
| Debug UART library, serial driver | the ring of `CrDebugUartContext`, `TxComplete` | `MsmGeniSerialIsr`, `MsmGeniWriteTxFifo`, `SerialRead`, `SerialWrite` | the GENI hardware, the interrupt library | reader and routine share the ring's counters; the writer waits for a flag |
| GPIO interrupts | `mGpioIntTable`, the pins' configuration and status registers | `GpioRegisterGpioIrq`, `GpioUnregisterGpioIrq`, `GpioMaskInterrupt`, `GpioIsr` | the interrupt library, the PDC | one line for all pins; a walk that ends at the first gap; writes that raise interrupts |
| GPIO configuration, `GpioCrDxe` | the pins' control and value registers | `GpioSetConfig` under `ConfigGpio` and `SetIoValue`; `GpioReadConfig`, `GpioReadInputVal`; `GpioEntryPoint` | clients of the protocol (LT9611), whose handlers may call it | read-modify-write of packed fields, two writes of which the order shows |
| PDC | pin to interrupt mapping, enable bank, trigger types | `PdcRegisterInterrupt`, `PdcUnregisterInterrupt`, `PdcGicSetType`, `PdcEnableInterrupt`, `PdcLibInit` | GPIO, the interrupt library | index and mask arithmetic, steps that fail after others were done |
| Clock | the tree of `ClockNode`s, their registers | `ClockEnable`, `ClockRcg2SetRate`, `ClockGdscEnable`, `ClockLibInit`, `ClockDeinit` | its protocol's clients | recursion over parents without counting users, polling, rounding |
| Command database | read-only tables, `gCmdDbHeader` | four look-ups | RPMh | slaves filtered by address bits, names cut to 8 characters |
| TRNG, memory map, strings, LT9611 | none to speak of | | | |
| Boot order | a priori file, dependency expressions, what is installed | the entry points | the firmware's dispatcher | the a priori file ignores dependencies; entry points that fail late |

What makes each correct:

- RPMh: a call that succeeds has its command executed once and unchanged; one
  that fails has nothing executed; a TCS in use is never programmed; every
  claimed TCS is released; one resource has one command in flight; the
  interrupt is handed to the firmware's driver only when it is the firmware's.
- Interrupt library: whatever the driver is doing to the table, an interrupt
  calls the handler registered first for its source with its own parameter;
  an enabled source has a handler.
- Interrupt library, WDF: each interrupt object has one owner, is deleted once,
  while none of its callbacks runs, and is deleted in the end.
- UART: reads return the received bytes in order, once, and a full ring loses
  the oldest; writes return and never write to a full FIFO.
- GPIO: each pin's events reach its handler and no other; a pin that can
  interrupt is reached by the walk; a pin interrupts on exactly the conditions it
  was registered for; no handler's write to a pin is lost to a call it interrupts.
- Clock: a clock is on only below clocks that are on; a returned success means
  that the hardware follows; a root never runs with half of a setting; a power
  domain is handed to the hardware under power.
- Drivers together: a vote by name reaches that register of that regulator, once,
  or nothing; a protocol that can be located has everything it uses.

## The modules

| Module | Models |
|---|---|
| `VoteChannel` | what RPMh promises: a request is dropped, or handed once to an empty slot |
| `Rpmh` | the RPMh library, the RSC hardware, the firmware's driver; implements `VoteChannel` |
| `HandlerTables` | the registrations in a table of handlers, read as a queue; for both interrupt tables |
| `IrqRegistry` | what both interrupt tables promise: a queue of registrations per source, changed at one moment of each call, the head of which an interrupt calls |
| `OskInterrupt` | the UEFI interrupt library; implements `IrqRegistry` |
| `GpioIrq` | GPIO interrupts; implements `IrqRegistry`, with pins for sources |
| `ByteQueue` | what the serial driver promises of received bytes |
| `DebugUart` | the UART library and serial driver; implements `ByteQueue` |
| `Clock`, `MCClock` | the clock library on slow hardware; `MCClock` has the tree and the table for TLC |
| `InterruptObject` | what the Windows framework asks of the owner of an interrupt object |
| `WdfInterrupt` | the Windows interrupt library; implements `InterruptObject` |
| `GpioPins` | the registers that configure a pin, and what `GpioSetConfig` makes of them |
| `Pdc` | the PDC: mapping and registers |
| `GpioDriver`, `MCGpioDriver` | `GpioCrDxe` over `GpioPins`, `Pdc` and `IrqRegistry`; implements `IrqRegistry` again, for the pins |
| `CmdDb` | the command database and its look-ups, as functions |
| `Regulators` | what a user of the RPMh protocol relies on: votes by name |
| `Platform`, `MCPlatform` | dispatcher, entry points, and the RPMh protocol over `CmdDb` and `VoteChannel`; implements `Regulators` |

Each component's theorems are in a module of their own, named after it: `RpmhProofs`,
`OskInterruptProofs`, `GpioIrqProofs`, `DebugUartProofs`, `ClockProofs`,
`WdfInterruptProofs`, `GpioDriverProofs`, `PlatformProofs`.

The abstract modules are where components meet: `OskInterrupt` implements
`IrqRegistry`, on which `GpioDriver` is built; `Rpmh` implements `VoteChannel`, on
which `Platform` is built.

There is one action per access to state that another actor sees: a store to a
table, a write to a register, a load or a store of a shared word.  The place
in a call is a variable `pc`, whose values name the next such access.  What an
interrupt routine does while the only other actor is the hardware it is
written in the steps that the hardware can tell apart.  A definition marked
`(slip)` is a deliberately wrong variant of the one after it; each property is
violated when one of them takes its place.

### Rpmh

`pc` walks through `RpmhWrite`: `inflight` and `free` are the loops of
`RpmhIsCmdInflight` and `GetNextFreeTcs` (index `tcs`), `load`, `store` and
`mark` the two lines of `ClaimFreeTcs` that record the claim, `addr`, `data`
and `enable` `TcsWriteBuffer`, `disarm`, `arm` and `fire` `TcsSetTrigger`.
Bitmaps are sets of bits.  `SetBits` and `ClrBits` take value and mask in the
order the macros do, and the calls that pass them swapped (`rpmh.c:91`, `95`,
`150`) pass them swapped here.  `Disarm` is the pair of values the first of
these calls write.  The hardware starts a TCS when a write completes the pair
of trigger bits; the command it executes is what the registers hold at that
moment (`launched`), and its completion raises a bit of `irqStatus`.

Left out: `WriteTcsRegSync`'s timeout, which is only logged; the delay loops;
slots of a TCS other than 0, which no call uses; wake and sleep TCSs.  The
computation of the TCS layout in `RpmhLibInit` is a parameter (`NumActive`,
the first active TCS being number 0).  What the boot loader left in the control
registers and in the enable bits of slot 0 is arbitrary, since the library never
clears them; the bits of the other slots are taken to be clear.

`Paced` says that a caller waits for its command before the next call, which
is what the driver's own use does (`RpmhCrDxe.c:195-224`: calls five seconds
apart).  `Bsp` adds the firmware's driver, which the code provides for
(`rpmh.c:114-121`); it uses the hardware when nothing else is going on and
takes the interrupt back once ours is unregistered.

### OskInterrupt

`scan`, `param` and `source` fill an entry in the order of the source lines,
`find` to `dropSource` search and clear, `next` to `clearSource` close the gap.
The structure copy of `oskinterrupt.c:182` is three stores in the order of the
declaration.  `route`, `trigger`, `enable` and `disable` are the calls of the
interrupt controller; those in `MayFail` may return an error, and `refused`
remembers the sources that the last attempt to disable failed for: the code
leaves them enabled without a handler and tells its caller.  An interrupt is
handled to its end before the driver goes on.  A handler may unregister itself
(the RPMh driver's does, `rpmh.c:120`); `Overtakes` says whether it may while
the driver is still in the call that registers it.  It does not while the driver
scans the table, searches it or moves entries for another source: RPMh is the only
source in the table of its image.  Source number 0 is left out:
`CrUnregisterInterrupt` refuses to find it.

### GpioIrq

Each store to the table is a step (`stores` holds those to come); the copy at
`gpio_irq.c:185` is done in declaration order.  `cfg` has the fields of the
configuration register the code writes, `status` the latched status bits.
Setting raw status may set the status bit, as the comment at `gpio.c:435` says.
`GpioIsr` is at entry `at`;
pins go on changing while it walks.  Pins without a PDC line only (the others are in `GpioDriver`), one
registration of a pin at a time, detection fields of one or two bits and the trigger
types of the enumeration (what no target and no client departs from), and handlers that do not register or
unregister (the protocol offers no way to unregister).  Pin 0 is left out: in a
zero-filled entry the pin number 0 is no different from an empty one.

### DebugUart

The ring's fields are one record, since the routine updates them without the
driver running; the driver's accesses to it are steps of their own.
`SerialRead` copies and advances byte by byte, having read the count before
(`ReadBegin`) and storing it after (`ReadEnd`).  A write's rounds are
`txReset`, `txSpace`, `txIssue`, `txWait`.  The model starts at the
registration of the routine, after which interrupts overlap with the greeting
of six words (`GreetingWords`) that `CrDebugUartLibInit` writes and with the stores that set up the ring.

### Clock

`stack` holds the activations of the recursive `ClockEnable`, each with its
node, the parents it has done and its `Status`, which the status of the last
parent overwrites.  `enable` visits a parent or switches the node, and `halt` is
the poll of the branch's status; `write`, `update` and `wait` are
`ClockRcg2SetRate` and `ClockRcg2UpdateConfig`; `collapse`, `poll`, `memory` and
`control` are `ClockGdscEnable`.  The hardware follows in steps of its own: a
branch runs once it is enabled and the branches above it run, a root takes its
registers over when its update bit is set, a domain powers up.  No wait reads
time, so that each may end unanswered at any moment, and what was not awaited
may happen during a later call.

In the tree as it is, nothing calls `ClockRcg2SetRate`, and `ClockEntryPoint`
compiles its example out and unmaps the controllers; the module is about the
library as it is offered.  Two oddities are part of it: `Skipped` matches the
flags 1 to 3, because `HALT_BYPASS` is 3 and tested as a mask, and `HaltChecked`
waits for a running clock even when disabling, because a byte loses bit 31 of
`OffBitInverted`.  What the status registers of a running branch show (the
off bit, or the state of its state machine) is one fact here.

### WdfInterrupt

`Interrupt` is the handle in the configuration.  A caller above PASSIVE_LEVEL goes
through `exchange` (the interlocked exchange) and `queue`; one at PASSIVE_LEVEL
through `disable`, `delete` and `clear`, reading the handle each time as the code
does.  `work` holds the handles in queued work items, `lost` those that
`CannotQueue` has dropped.  `queued` has the objects whose DPC or work item is
queued, `processor[c]` what a processor runs: the look at the context and the
call of the handler are two steps of a DPC, with the lock taken in between.

Of the framework, which is not in the repository, it is assumed that an interrupt
is connected after its registration, that `WdfInterruptDisable` waits for the
interrupt lock, and that `WdfObjectDelete` waits for the object's callbacks.
`PassiveRaces` lets a call at PASSIVE_LEVEL overlap with others: it takes nothing
before it deletes, so `HandleAlive` and `RefinesObject` fail with it.  `CannotQueue`
drops a handle for good.  Registration is over before somebody unregisters.

### GpioPins, Pdc, GpioDriver

A call goes through `pc` by the accesses of its source lines: `control`, `value`
for `GpioSetConfig`; `type`, `enable` for `PdcRegisterInterrupt`, `disable` for its
opposite; `ask`, `add`, `line` and `unask`, `remove` in the interrupt library, whose
steps are those of `IrqRegistry` with the trigger type and the enable of the line.
Between any two, an enabled line may interrupt; the handler of the pin `Setter`
then sets another by `ProtocolGpioSetIOValue`, which runs undisturbed.  `call` and
`read` are the locals of the call.

`granted` and `serial` are history: what a pin has been registered for, and the
registers that the call and the handlers which interrupted it make one after the
other, in each order, against which `Serial` holds the real ones.  One exception
is stated there: an input whose pull is not to change is written back with the
pull read before.  `Reported` and `Wired` are the hardware's side of the PDC, by
the names of `pdc_internal.h` and the meaning of `PdcRange`, and are not the
functions the code computes with.

The pins' clients register once before they unregister.  The protocol has no
operation to unregister, and `PdcUnregisterInterrupt` is called by nothing in the
tree: it is modelled as the library offers it.  `GpioUnregisterGpioIrq` does not
call it for a pin of the PDC.  Banks and bits are sets of numbers; the clearing at
initialisation clears the binary digits of a bit's number (`BinaryDigits`), as the
code does.

### CmdDb and Platform

A database is a sequence of slaves with entries; a name is compared by its first
eight characters, `Id`, so that two names may stand for one entry.  The bound
`MaxEntries` is on the entries of a slave.  An address is 0 in look-ups by name.

`Dispatch` starts a driver when none is running and no call is made: those of the
a priori file in its order, whatever they depend on, the others by their
dependency expression.  Each entry point may fail where its code may.  A failed
entry point has its image unloaded, and what it installed stays (`installed`):
`RpmhTested` is the case where that happens.  `ready` says whose statics are set.
The RPMh driver's test makes three calls (`TestCalls`), and an error ends it.
Clients call while the driver's image is loaded: what a call into an unloaded
image does is nobody's to say.  The RPMh library is `VoteChannel` with one slot,
since with two TCSs marks are lost (`rpmh_two_tcs`).  `held` is what the power
controller was told, by address; `Place` is where a regulator's registers are,
from the controller's side, `RPMH_REGULATOR_REG` where the library writes.

The serial driver depends on no other and is left to `DebugUart`.

## The runs

| Run | Shows |
|---|---|
| `rpmh_paced` | Paced callers, two active TCSs, the firmware's driver. `RefinesChannel`, `DisownsOnlyForeign`, and under fairness `BusyReleased`. |
| `rpmh_one_tcs` | Unpaced callers, one active TCS. `Exclusive`, `BusyCoversRunning`, `RefinesChannel`. |
| `rpmh_two_tcs` | Violation: unpaced callers and two TCSs break `OneVotePerResource`. |
| `osk_interrupt` | Interrupts between any two stores of any sequence of calls. `RefinesRegistry`, `Prefix`, `Answered`. |
| `uart_quiet` | Reception pauses during `SerialRead`, transmissions end in time. `RefinesQueue`, `NoOverrun`, `WriteReturns`. |
| `uart_read_race` | Violation: reception during `SerialRead` loses the count, and then `OverwritesOldest`. |
| `gpio_irq` | Interrupts between any two stores. `RefinesRegistry`, `EnabledHasEntry`, `DetectsAsked`, and under fairness `Handled`. |
| `clock` | Calls in any order, answered in time, late, or during a later call. `ParentsOn`, `EnabledRuns`, `LatchedWhole`, `RateIsRounded`, `PowerSequence`. |
| `wdf_interrupt` | Threads, work items, interrupts and failing calls on two processors. `RefinesObject`, `HandleAlive`, `OneActivation`, and under fairness `TakenIsDeleted`. |
| `gpio_driver` | The GPIO driver from its entry point on, with handlers that set pins, refused types, a full table and a failing interrupt controller. `Serial`, `ChainAgrees`, `RefinesPins`. |
| `pdc_left_on` | Violation: after `PdcLibInit` a pin the firmware had enabled is enabled (`NothingLeftEnabled`). |
| `platform` | Four boards, entry points that fail, the driver's test, three calls of clients. `RoundTrip`, `Ready`, `RefinesRegulators`. |

The assumptions that separate a passing run from a violated one are constants
(`Paced`, `Overtakes`, `RxDuringRead`, `TimeoutsHappen`, `PassiveRaces`), so that the
two are the same specification.  With `TimeoutsHappen` set, `NoOverrun` fails as well:
the room in the FIFO is computed once before the rounds and never reduced, and
only the wait for each word hides that.  With `Overtakes`, a handler that
unregisters itself during its registration leaves an enabled source unanswered
(`Answered` fails).

`DetectsAsked` is about pins whose fields are fresh, or all written for the type:
the settings before are not cleared (`gpio.c:443`), and a level asked for after an
edge stays an edge.  `Ready` names the one protocol that outlives its image.

### Bounds

- RPMh: two TCSs are what it takes for a completion to meet another TCS's
  claim; `NumBits` is one more than `NumActive`, so that the uninitialised
  index of `FreeNone` can name an active or an inactive bit.  Two regulators
  with three registers each give requests for one resource and for different
  ones.  `NumCmdsPerTcs` is the 16 of the hardware.
- Interrupt table: three entries, two sources and two clients: a table that
  fills up, several handlers for one source, moves of two entries.
- UART: a ring of five bytes, two byte values and words of four, reads of up to
  three bytes, so that the ring wraps inside a read and overflows inside a word; a
  FIFO of two words, a greeting of six and writes of up to three, so that a write can take
  more rounds than the FIFO has words.
- GPIO: three pins, of which one is reserved and one cannot detect both edges
  (the one trigger type the code refuses), and a table of two entries.
- Clock: a branch above a branch, so that a disabled one may still run when it
  is enabled again; a branch polled in one direction only; a refused node whose
  status the next parent overwrites.  A table of three entries, the outer two
  with M, N and D, so that registers of two settings can be mixed; rates below,
  between and above.  Clocks that are disabled share no branch with others
  (`DisablableAssumption`): nobody counts users, and without that `ParentsOn`
  fails.  `EnabledRuns`, `LatchedWhole` and `PowerSequence` leave out what ran out
  of time, where the code itself knows no more.

- WDF: two objects, so that one is being deleted while the configuration is
  registered again; two threads above PASSIVE_LEVEL and one at it; two processors,
  so that a DPC meets its own interrupt routine and another DPC.
- GPIO driver: a pin that calls and handlers configure, and a reserved one; PDC
  pin 31, the last of its bank, and 64, the first of another, in two regions, the
  second of which is past the SPI configuration; a pin no region maps.  A falling
  edge and a low level are the types the PDC inverts.  Three entries, so that
  failed registrations fill the table.
- Platform: the regulators in both orders, alone, and behind unused slaves; a board
  without the regulator of the test; two names cut to one identifier; a mode
  that is refused.  Three calls (`MaxCalls`) of clients vote for two registers of a
  regulator or for two regulators while a request is still in its slot.

`MaxCalls` is the one counter cut off; all other state is finite.  Deadlock is not checked:
nobody has to call, a driver whose registration failed is not loaded, and on the last board nothing
is left to do once the calls are used up.

### Fairness

- `Rpmh`: the processor goes on with a call and takes its interrupts (one
  processor, nothing masks them for ever), and the hardware completes what it
  executes.  No fairness of the callers or of the firmware's driver.
- `DebugUart`: the same for a write, the transmitter and the completion interrupt.
- `GpioIrq`: only the interrupt routine goes on.  `Handled` speaks of pins that
  are pending while the driver is between calls: during a compaction the walk
  ends at the gap, the line stays up, and the driver would be interrupted again
  and again before it can close it.  Whether the interrupt controller lets the
  driver go on in between is not the code's to say.
- `WdfInterrupt`: threads go on with calls they have begun, a handler returns, and
  the framework runs what is queued and grants the interrupt lock to everybody who
  waits for it, however often the interrupt comes in between (strong fairness).
  Nobody has to call, and no interrupt has to come.

## The proofs

Every safety invariant, every action property and every refinement that a passing
run checks is also a theorem, for every value of the constants: any number of
TCSs, table entries, pins, bytes, clocks, objects, threads, processors, regulators
and boards.  A theorem uses the named assumptions on the constants (below) and no
others, except where the second column says so; those exceptions are the same
constants that separate the passing runs from the violated ones.

| Theorem | Under | States |
|---|---|---|
| `RpmhProofs` | | |
| `TypeCorrect` | | `Spec => []TypeOK` |
| `ExclusiveUse` | `SafeUse` | `Spec => []Exclusive` |
| `BusyWhileRunning` | `SafeUse` | `Spec => []BusyCoversRunning` |
| `ImplementsChannel` | `SafeUse` | `Spec => RefinesChannel` |
| `DisownsForeign` | `SafeUse`, `NumActive <= NumCmdsPerTcs` | `Spec => DisownsOnlyForeign` |
| `OskInterruptProofs` | | |
| `OskTypeCorrect`, `TableCompact` | | `Spec => []TypeOK`, `[]Prefix` |
| `InterruptsAnswered` | `~Overtakes` | `Spec => []Answered` |
| `ImplementsRegistry` | | `Spec => RefinesRegistry` |
| `GpioIrqProofs` | | |
| `GpioIrqTypeCorrect`, `EnabledReached` | | `Spec => []TypeOK`, `[]EnabledHasEntry` |
| `DetectsWhatWasAsked` | | `Spec => DetectsAsked` |
| `ImplementsPinRegistry` | | `Spec => RefinesRegistry` |
| `DebugUartProofs` | | |
| `UartTypeCorrect` | | `Spec => []TypeOK` |
| `NeverOverrun` | `~TimeoutsHappen` | `Spec => []NoOverrun` |
| `ImplementsQueue` | `~RxDuringRead` | `Spec => RefinesQueue` |
| `ClockProofs` | | |
| `ClockTypeCorrect` | | `Spec => []TypeOK` |
| `ParentsFirst`, `EnabledClocksRun` | | `Spec => []ParentsOn`, `[]EnabledRuns` |
| `OneSettingAtATime`, `RateRounded` | | `Spec => []LatchedWhole`, `[]RateIsRounded` |
| `PowerInOrder` | | `Spec => []PowerSequence` |
| `WdfInterruptProofs` | | |
| `WdfTypeCorrect`, `HandlerSerial` | | `Spec => []TypeOK`, `[]OneActivation` |
| `HandlesAlive` | `~PassiveRaces` | `Spec => []HandleAlive` |
| `ImplementsLifecycle` | `~PassiveRaces` | `Spec => RefinesObject` |
| `GpioDriverProofs` | | |
| `GpioTypeCorrect`, `ChainsAgree` | | `Spec => []TypeOK`, `[]ChainAgrees` |
| `ConfiguredInSomeOrder` | | `Spec => []Serial` |
| `ImplementsPins` | | `Spec => RefinesPins` |
| `PlatformProofs` | | |
| `PlatformTypeCorrect` | | `Spec => []TypeOK` |
| `LookUpsCorrect`, `ProtocolsReady` | | `Spec => []RoundTrip`, `[]Ready` |
| `ImplementsRegulators` | | `Spec => RefinesRegulators` |

All are about `Spec` without fairness, so they hold of the fair specifications as
well.  None of the properties is inductive by itself, `TypeOK` included; each
section below says what has to be added and why.

### Assumptions

- `Rpmh`: there is an active TCS, every active TCS has its bit, `None` is no request.
- The tables: `MaxEntries` is not zero; `None` is no source, client or pin; the
  trigger types and settings asked for are values of the enumerations of the
  headers (`TypesAssumption`, `ParamsAssumption`).
- `Pdc`: the regions share no pin and no interrupt (`RegionsApart`), which is so of
  the tables in the sources.  `GpioDriver`: no pin of the PDC uses the line of the
  others (`TlmmIrqAssumption`), the two pins of the example are not reserved.
- `DebugUart`: sizes are not zero.
- `Clock`: nodes are of one kind and have lists of parents (`TreeAssumption`; that
  the parents make no cycle is not needed), the table of rates is ascending (`TableAssumption`), and a
  clock that is disabled shares no branch with others (`DisablableAssumption`).
- `WdfInterrupt`: only types.
- `Platform`: every database is well-formed (`WellFormed`): an entry is in the slave
  its address names, no identifier and no address is used twice, registers of
  regulators do not overlap, and a known name that is asked for is a regulator's.
  The code relies on all of these and checks none.

### Rpmh

`SafeUse` says that callers are paced, or there is one active TCS and no firmware
driver.  Without it the theorems are false (`rpmh_two_tcs`).

`TypeOK` needs `Locals`, because a failed search leaves an index that need not be
an active TCS and only the status stops it from being used; `CallInv` adds
`Written`, that the registers of the chosen TCS hold what was written, which the
interrupt does not disturb: it writes other registers.  Exclusive use needs the
reason why a chosen TCS is idle, `UseInv`:

- `Undisturbed`: from the moment of the choice, not only of the claim, the TCS
  is not running or completed.
- `Recorded` and `Reporting`: how `TcsBusy`, the value loaded from it, the
  status register and the routine's snapshot of it fit together.
- `Discipline`: under pacing nothing else is going on; with one TCS, nothing is
  running once it has been found free.

The refinement follows: `Fire` is the channel's `Launch` by `WrittenIsRequest` (the
registers hold the request) and the three lemmas about the trigger writes, which
say that only the last one starts the TCS, whatever the boot loader left in the
control register.

`DisownsForeign` has a hypothesis of its own: the routine's loop runs over the
commands of a TCS instead of over the TCSs, so that a completion of a TCS past
that number would be skipped with the flag already down, and then be disowned.
`FlagInv` adds to `UseInv` that the flag is up whenever a marked TCS is not over
and the routine is not in it (`FlagUp`), that the routine's snapshot is the whole
status (`Handling`), and, under pacing, that calls begin with no mark and no flag
(`FirstChoice`, `BetweenCalls`), so that a command of the firmware finds neither.

### OskInterrupt and GpioIrq

The invariant of both is the shape of a table in the middle of being changed:
there is an `n` such that, but for the entries a call is at work on (`Hole`,
`Holes`), the first `n` entries are in use and the others empty, and the call's
index is at the place among them that its stage allows (`Filled`, `Placed`).  What
the entry at work holds is given by the stores that are done: in `OskInterrupt` by
the stage (`HoleStored`), in `GpioIrq`, where the stores to come are data, by how
many of them are left (`FillFits`, `DropFits`, `MoveFits`, with the two different
orders of filling and of copying).

For `Answered`, `Serving` adds that a source which can interrupt has an entry
unless it is the one being removed; a source of which another registration
remains keeps one throughout, also while its entry is being moved.  For
`EnabledHasEntry`, `Single` adds that a pin has one entry, and `EnabledInv` that
an enabled pin is registered and one being removed is disabled.

For the refinement, the queue of a source is the entries that an interrupt finds,
in their order, defined by their ranks in the table (`HandlerTables`), so that
the lemmas about it need no recursion: completing an entry appends
(`Longer`), the first store of a removal deletes the entry the search has come to,
which `Searching` says is the first, and no store of a move changes any queue,
since the copy counts only once it is whole and the original until then.
`Unmixed` (`OskInterrupt`) says that no entry in use has one client's handler and
another's parameter.

### DebugUart

`TypeOK` already says that reads return received bytes: a position never written
holds `None`.  `Written` gives the reason, that the ring has been filled once or
that what is left lies below the tail, and `ReaderFits` that a read takes no more
than it has seen.  `RoundInv` says how flag, command and FIFO stand at each place of
a round; it is here that a wait must not run out.  `RingInv` places the tail at the
head plus the bytes not yet taken, which a word during a read would break,
because the count is stored back from a stale value.

### Clock

`StackFits` says that the stack of activations is a path in the tree, each node the
parent the one below has come to.  `TreeInv`: every parent that is done is achieved,
with all above it (`AllOn` or `AllOff`), and the clocks that are on are closed under
branch parents, in a disabling call but for the path of the node it disables
(`ClosedBut`); it is there that `DisablableAssumption` is used.  What is above a
node is the least set closed under parents (`Above`), which needs no recursion;
that it is the parents and what is above them is a lemma.  `RateInv`
follows the four registers of a root in the order they are written, and says that a
root with no time-out has no update pending outside its call; `PowerInv` follows
`ClockGdscEnable`.

`EnabledRuns` excuses a branch only by a poll that ran out of time during this call,
on this branch or above it.

### WdfInterrupt

However calls overlap, callbacks are those of objects that were created and the
interrupt lock has one holder (`FrameworkInv`), which is enough for `OneActivation`.
The rest needs that every handle has one holder: the configuration, one caller
between exchange and queue, or one work item (`Configured`, `Held`), and that a call at
PASSIVE_LEVEL is alone (`Calls`).  `HandleAlive` and `RefinesObject` follow.

### GpioDriver

`TypeInv` says what call and request belong to each place.  `ChainInv`: a granted
pin has its PDC type, its enable bit, a handler and its line set, at every place of
other calls (`Grants`), and the pin being registered has those that are done
(`Progress`).  That calls about one pin leave another's alone is the lemma about the
regions: the pin to interrupt mapping is one to one, and so is that to bank and bit.
`SerialInv` says which of the orders in `serial` explains the registers: at the
read one that has the call still to come, from the write on one that has it
behind, with the pull that was read.

### Platform

`LookUpsCorrect` is about the functions of `CmdDb` on any well-formed database: a
look-up that walks the slaves and returns the first match returns the only one.
`Booted` says of what is installed that its driver has returned success, or is the
RPMh driver during or after its test; `Commanded` that the command in the RPMh
library is the one that the call in progress stands for and in the slot a
register of a regulator.  `ImplementsRegulators` follows, since two different
registers of regulators never share an address.

### Only model-checked

The liveness properties (`BusyReleased`, `WriteReturns`, `Handled`,
`TakenIsDeleted`): TLAPS has no rules for fairness here.  The three violations are
counterexamples, which only a run can show.

## Not modelled, and the plan

Not modelled:

- the TRNG loop: one caller, a poll and a copy, nothing kept between calls;
- `debugcc.c`, which computes a frequency from a hardware counter; the clock
  library's look-ups by name and its mapping of controllers;
- `GpioReadConfig`, `GpioReadInputVal` and the dumps, which change nothing;
- the layout that `RpmhLibInit` computes, and the addresses of `GpioLibInit`;
- wake and sleep TCSs, and a register that never takes its value (`rpmh.c:56`);
- the RPMh interrupt enable that is never written (`rpmh.c:404`): it is on here;
- the LT9611 driver's own handler, which logs; the Windows interface headers,
  which are declarations.

Left to do: the abstract modules put together, so that `Platform` and `GpioDriver`
are theorems about `Rpmh` and `OskInterrupt` themselves and not only about what
those promise; theorems about `VoteChannel`, `IrqRegistry` and `InterruptObject`
alone that their users could cite.
