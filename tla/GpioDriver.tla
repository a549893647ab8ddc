----------------------------- MODULE GpioDriver -----------------------------
(***************************************************************************)
(* The GPIO driver: GpioEntryPoint, and the protocol it installs, over the *)
(* registers of the pins (GpioPins), the power domain controller (Pdc) and *)
(* the interrupt library, which is taken by what it promises: the queues   *)
(* of IrqRegistry, and the trigger type and enable of each line.           *)
(*                                                                         *)
(* One thread makes the calls, on one processor: an interrupt may come     *)
(* between any two of its steps, and its handler may set a pin through the *)
(* protocol before it returns.  Interrupts are registered for pins that    *)
(* have a line of their own; those that share one are in GpioIrq.          *)
(***************************************************************************)
EXTENDS GpioPins, Pdc

CONSTANTS
  PdcPinNumber,  \* the PDC pin of each GPIO pin that has one
  TlmmIrq,       \* the line shared by the other pins
  TestPin,       \* the pin the entry point makes blink
  MaxEntries,    \* entries of the interrupt library's table
  Types,         \* trigger types asked for
  Params,        \* parameters of calls to GpioSetConfig
  Setter,        \* the pin whose handler sets another
  HandlerPin,    \* the pin that it sets
  LeftEnabled,   \* PDC pins the firmware before has left enabled
  None

PdcPins == DOMAIN PdcPinNumber
Registrable == {p \in PdcPins : PdcGetGicIrqFromPdcPin(PdcPinNumber[p]) # NotFound}
IrqOf(p) == PdcGetGicIrqFromPdcPin(PdcPinNumber[p])
Irqs == {TlmmIrq} \cup {IrqOf(p) : p \in Registrable}

\* Every pin has a client, whose handler and parameter go by its name.
Handlers == Pins \cup {"GpioIsr"}

ASSUME PdcPinAssumption ==
  /\ PdcPins \subseteq Pins
  /\ \A p \in PdcPins : PdcPinNumber[p] \in Nat
  /\ \A p, q \in PdcPins : PdcPinNumber[p] = PdcPinNumber[q] => p = q
ASSUME TlmmIrqAssumption == \A p \in Registrable : IrqOf(p) # TlmmIrq
ASSUME TestPinAssumption == {TestPin, HandlerPin} \subseteq Pins \ Reserved
ASSUME MaxEntriesAssumption == MaxEntries \in Nat \ {0}

\* What the enumerations of gpio.h and of the interrupt library allow.
ASSUME TypesAssumption == Types \subseteq TriggerTypes
ASSUME ParamsAssumption == Params \subseteq ConfigParams
ASSUME LeftEnabledAssumption == LeftEnabled \subseteq MappedPins
ASSUME NoneAssumption ==
  /\ None \notin Types /\ None # [op |-> "initirq"]
  /\ None \notin Irqs \X Handlers \X Handlers
  /\ None \notin Registrable \X Handlers \X Handlers

\* What the entry point's test asks for.
BlinkParams(v) ==
  [GpioInitConfigParams(TestPin) EXCEPT
     !.OutputEnable = TRUE, !.FunctionSel = 0, !.DriveStrength = 3, !.OutputValue = v]

Calls ==
  [op : {"config"}, params : Params \cup {BlinkParams(v) : v \in Values}]
  \cup [op : {"register"}, pin : PdcPins, type : Types]
  \cup [op : {"unregister"}, pin : PdcPins]
  \cup {[op |-> "initirq"]}

VARIABLES
  \* The interrupt library and the GIC.
  queue, request, called, lineType, lineEnabled,
  \* The thread: its place, its call, the registers it has read, and how
  \* often the entry point has made its pin blink.
  pc, call, read, blinks,
  \* History: the type a pin is registered for, and what the calls on the
  \* pin being configured make of it, one after the other, in each order.
  granted, serial

gic == <<queue, request, called, lineType, lineEnabled>>
thread == <<pc, call, read, blinks>>
history == <<granted, serial>>
vars == <<pinVars, pdcVars, gic, thread, history>>

Registry == INSTANCE IrqRegistry
  WITH Sources <- Irqs, Params <- Handlers, NoCall <- None

TypeOK ==
  /\ PinsTypeOK /\ PdcTypeOK
  /\ queue \in [Irqs -> Seq(Handlers \X Handlers)]
  /\ lineType \in [Irqs -> {"LEVEL_HIGH", "EDGE_RISING"}]
  /\ lineEnabled \in SUBSET Irqs
  /\ pc \in {"entry", "gpiolib", "initirq", "install", "blink", "unloaded", "idle",
             "control", "value", "done", "type", "enable", "ask", "add", "line",
             "disable", "unask", "remove"}
  /\ call \in Calls \cup {None}
  /\ read \in [ctl : Controls, out : Values] \cup {None}
  /\ blinks \in 0 .. 6
  /\ granted \in [Registrable -> Types \cup {None}]

Goto(from, to) == called = None /\ pc = from /\ pc' = to

\* Where a call returns to: its client, or the entry point.
Return(from, ok) ==
  /\ Goto(from, IF call.op = "initirq" THEN (IF ok THEN "install" ELSE "unloaded")
                ELSE IF blinks < 6 THEN "blink" ELSE "idle")
  /\ call' = None /\ read' = None
  /\ UNCHANGED blinks

-----------------------------------------------------------------------------
(* GpioSetConfig.                                                          *)

\* What one more call makes of each outcome so far.
After(s, params) ==
  [s EXCEPT !.ctl = Control(s.ctl, params),
            !.out = IF WritesValue(params) THEN params.OutputValue ELSE s.out]
Completed(outcomes, params) ==
  outcomes \cup {[After(s, params) EXCEPT !.mine = TRUE] : s \in {t \in outcomes : ~t.mine}}

GpioConfig(params) ==
  /\ call' = [op |-> "config", params |-> params]
  /\ read' = [ctl |-> ctl[params.PinNumber], out |-> out[params.PinNumber]]
  /\ serial' = Completed({[ctl |-> read'.ctl, out |-> read'.out, mine |-> FALSE]}, params)
  /\ UNCHANGED <<pinVars, pdcVars, gic, granted>>

ProtocolGpioConfig(params) ==
  /\ Goto("idle", "control")
  /\ params.PinNumber \notin Reserved
  /\ GpioConfig(params)
  /\ UNCHANGED blinks

\* The entry point's test: high, low, six times.
Blink ==
  /\ Goto("blink", "control")
  /\ GpioConfig(BlinkParams(IF blinks % 2 = 0 THEN 1 ELSE 0))
  /\ blinks' = blinks + 1

WriteControlRegister ==
  /\ Goto("control", "value")
  /\ WriteControl(call.params.PinNumber, Control(read.ctl, call.params))
  /\ UNCHANGED <<out, pdcVars, gic, call, read, blinks, history>>

\* (slip) The value register is written back whenever the pin is an output.
WriteValueRegisterBack ==
  /\ Goto("value", "done")
  /\ IF call.params.OutputEnable
       THEN WriteValue(call.params.PinNumber, Asked(call.params.OutputValue, read.out))
       ELSE UNCHANGED out
  /\ UNCHANGED <<ctl, pdcVars, gic, call, read, blinks, history>>

WriteValueRegister ==
  /\ Goto("value", "done")
  /\ IF WritesValue(call.params)
       THEN WriteValue(call.params.PinNumber, call.params.OutputValue)
       ELSE UNCHANGED out
  /\ UNCHANGED <<ctl, pdcVars, gic, call, read, blinks, history>>

ConfigDone ==
  /\ Return("done", TRUE)
  /\ serial' = {}
  /\ UNCHANGED <<pinVars, pdcVars, gic, granted>>

-----------------------------------------------------------------------------
(* Registering with the interrupt library, for a PDC pin or for GpioIsr.   *)

Irq == IF call.op = "initirq" THEN TlmmIrq ELSE IrqOf(call.pin)
Handler == IF call.op = "initirq" THEN "GpioIsr" ELSE call.pin
LineType == IF call.op = "initirq" THEN "LEVEL_HIGH" ELSE GicType(call.type)
Entries == {e \in Irqs \X (1 .. MaxEntries) : e[2] \in DOMAIN queue[e[1]]}

CrRegisterInterrupt ==
  /\ Goto("ask", "add")
  /\ Registry!Ask
  /\ request' = [op |-> "add", source |-> Irq, handler |-> Handler, param |-> Handler]
  /\ UNCHANGED <<pinVars, pdcVars, lineType, lineEnabled, call, read, blinks, history>>

EntryTaken ==
  /\ Goto("add", "line")
  /\ Cardinality(Entries) < MaxEntries
  /\ Registry!Add
  /\ UNCHANGED <<pinVars, pdcVars, lineType, lineEnabled, call, read, blinks, history>>

NoFreeEntry ==
  /\ Return("add", FALSE)
  /\ Cardinality(Entries) = MaxEntries
  /\ Registry!Reply
  /\ UNCHANGED <<pinVars, pdcVars, lineType, lineEnabled, history>>

Granted ==
  /\ granted' = IF call.op = "register" THEN [granted EXCEPT ![call.pin] = call.type] ELSE granted
  /\ UNCHANGED serial

\* One step; module OskInterrupt has those of the registration below.
LineReady ==
  /\ Return("line", TRUE)
  /\ Registry!Reply
  /\ lineType' = [lineType EXCEPT ![Irq] = LineType]
  /\ lineEnabled' = lineEnabled \cup {Irq}
  /\ Granted
  /\ UNCHANGED <<pinVars, pdcVars>>

\* A call of the interrupt controller fails: before the trigger type is set,
\* or after it.  The entry stays.
LineFails ==
  /\ Return("line", FALSE)
  /\ Registry!Reply
  /\ lineType' \in {lineType, [lineType EXCEPT ![Irq] = LineType]}
  /\ UNCHANGED <<pinVars, pdcVars, lineEnabled, history>>

-----------------------------------------------------------------------------
(* ProtocolGpioRegisterGpioInterrupt, GpioRegisterGpioIrq and              *)
(* PdcRegisterInterrupt, for a pin with a PDC pin.                         *)

\* A client registers a pin once.
RegisterGpioIrq(p, type) ==
  /\ Goto("idle", "type")
  /\ p \in Registrable => granted[p] = None
  /\ call' = [op |-> "register", pin |-> p, type |-> type]
  /\ UNCHANGED <<pinVars, pdcVars, gic, read, blinks, history>>

PinNotMapped ==
  /\ Return("type", FALSE)
  /\ IrqOf(call.pin) = NotFound
  /\ UNCHANGED <<pinVars, pdcVars, gic, history>>

TypeNotSet ==
  /\ Return("type", FALSE)
  /\ IrqOf(call.pin) # NotFound /\ TypeRefused(PdcPinNumber[call.pin], call.type)
  /\ PdcGicSetType(PdcPinNumber[call.pin], call.type)
  /\ UNCHANGED <<pinVars, gic, history>>

SetType ==
  /\ Goto("type", "enable")
  /\ IrqOf(call.pin) # NotFound /\ ~TypeRefused(PdcPinNumber[call.pin], call.type)
  /\ PdcGicSetType(PdcPinNumber[call.pin], call.type)
  /\ UNCHANGED <<pinVars, gic, call, read, blinks, history>>

EnablePin ==
  /\ Goto("enable", "ask")
  /\ PdcEnableInterrupt(PdcPinNumber[call.pin], TRUE)
  /\ UNCHANGED <<pinVars, gic, call, read, blinks, history>>

-----------------------------------------------------------------------------
(* PdcUnregisterInterrupt.                                                 *)

UnregisterPin(p) ==
  /\ Goto("idle", "disable")
  /\ call' = [op |-> "unregister", pin |-> p]
  /\ UNCHANGED <<pinVars, pdcVars, gic, read, blinks, history>>

NothingMapped ==
  /\ Return("disable", FALSE)
  /\ IrqOf(call.pin) = NotFound
  /\ UNCHANGED <<pinVars, pdcVars, gic, history>>

DisablePin ==
  /\ Goto("disable", "unask")
  /\ IrqOf(call.pin) # NotFound
  /\ PdcEnableInterrupt(PdcPinNumber[call.pin], FALSE)
  /\ granted' = [granted EXCEPT ![call.pin] = None]
  /\ UNCHANGED <<pinVars, gic, call, read, blinks, serial>>

CrUnregisterInterrupt ==
  /\ Goto("unask", "remove")
  /\ Registry!Ask
  /\ request' = [op |-> "remove", source |-> IrqOf(call.pin)]
  /\ UNCHANGED <<pinVars, pdcVars, lineType, lineEnabled, call, read, blinks, history>>

EntryDropped ==
  /\ called = None /\ pc = "remove"
  /\ Registry!Remove
  /\ UNCHANGED <<pinVars, pdcVars, lineType, lineEnabled, thread, history>>

NoEntry ==
  /\ Return("remove", FALSE)
  /\ request.op = "remove" /\ queue[IrqOf(call.pin)] = <<>>
  /\ Registry!Reply
  /\ UNCHANGED <<pinVars, pdcVars, lineType, lineEnabled, history>>

\* The line is disabled, or the interrupt controller fails to.
LineDisabled ==
  /\ Return("remove", TRUE)
  /\ request = Registry!Done
  /\ Registry!Reply
  /\ lineEnabled' \in {lineEnabled, lineEnabled \ {IrqOf(call.pin)}}
  /\ UNCHANGED <<pinVars, pdcVars, lineType, history>>

-----------------------------------------------------------------------------
(* Interrupts.                                                             *)

\* What the hardware makes of a configuration: the conditions of the pin it
\* reports, and whether as pulses or as a level.
Reported(cfg) ==
  CASE cfg = 0 -> [conditions |-> {"low"}, as |-> "LEVEL_HIGH"]
    [] cfg = 2 -> [conditions |-> {"falling"}, as |-> "EDGE_RISING"]
    [] cfg = 4 -> [conditions |-> {"high"}, as |-> "LEVEL_HIGH"]
    [] cfg = 6 -> [conditions |-> {"rising"}, as |-> "EDGE_RISING"]
    [] cfg = 7 -> [conditions |-> {"rising", "falling"}, as |-> "EDGE_RISING"]
    [] OTHER -> [conditions |-> {}, as |-> "EDGE_RISING"]

\* The interrupt the pins of a region are wired to, in order.
Wired(pin, irq) ==
  \E i \in DOMAIN PdcRegion : \E k \in 0 .. PdcRegion[i].PdcCount - 1 :
    pin = PdcRegion[i].PdcPinBase + k /\ irq = GIC_SPI(PdcRegion[i].GicSpiBase + k)

\* A pin interrupts, or those that share a line.
Interrupt(irq) ==
  /\ irq \in lineEnabled
  /\ \/ irq = TlmmIrq
     \/ \E pin \in MappedPins : Wired(pin, irq) /\ PdcEnabled(pin) /\ Reported(irqCfg[pin]).as = lineType[irq]
  /\ Registry!Interrupt(irq)
  /\ UNCHANGED <<pinVars, pdcVars, lineType, lineEnabled, thread, history>>

\* The setter's handler calls ProtocolGpioSetIOValue.
HandlerSetsIoValue(v) ==
  LET params == SetIoValue(HandlerPin, v) IN
  /\ called # None /\ called[2] = Setter
  /\ GpioSetConfig(params)
  /\ serial' = IF serial # {} /\ call.params.PinNumber = HandlerPin
                 THEN Completed({After(s, params) : s \in serial}, call.params)
                 ELSE serial
  /\ UNCHANGED <<pdcVars, gic, thread, granted>>

HandlerReturns ==
  /\ Registry!Return
  /\ UNCHANGED <<pinVars, pdcVars, lineType, lineEnabled, thread, history>>

-----------------------------------------------------------------------------
(* GpioEntryPoint.                                                         *)

PdcLibInit ==
  /\ Goto("entry", "gpiolib")
  /\ PdcPinsMapping
  /\ UNCHANGED <<pinVars, gic, call, read, blinks, history>>

GpioLibInit ==
  /\ Goto("gpiolib", "ask")
  /\ call' = [op |-> "initirq"]
  /\ UNCHANGED <<pinVars, pdcVars, gic, read, blinks, history>>

\* The target has no context for the library.
NoTarget ==
  /\ \/ Goto("entry", "unloaded") \/ Goto("gpiolib", "unloaded")
  /\ UNCHANGED <<pinVars, pdcVars, gic, call, read, blinks, history>>

\* Installing the protocol fails after the handler of the shared line has
\* been registered.
Install ==
  /\ \/ Goto("install", "blink") \/ Goto("install", "unloaded")
  /\ UNCHANGED <<pinVars, pdcVars, gic, call, read, blinks, history>>

Init ==
  /\ ctl = [p \in Pins |-> [FunctionSel |-> 1, OutputEnable |-> FALSE, Pull |-> 1, DriveStrength |-> 0]]
  /\ out = [p \in Pins |-> 0]
  /\ enableBank = [n \in Banks |-> {pin % 32 : pin \in {q \in LeftEnabled : q \div 32 = n}}]
  /\ irqCfg = [pin \in MappedPins |-> 0]
  /\ spiConfig = {}
  /\ Registry!RegistryInit
  /\ lineType = [irq \in Irqs |-> "LEVEL_HIGH"] /\ lineEnabled = {}
  /\ pc = "entry" /\ call = None /\ read = None /\ blinks = 0
  /\ granted = [p \in Registrable |-> None] /\ serial = {}

Entry == PdcLibInit \/ GpioLibInit \/ NoTarget \/ Install \/ Blink

Config ==
  \/ \E params \in Params : ProtocolGpioConfig(params)
  \/ WriteControlRegister \/ WriteValueRegister \/ ConfigDone

Register ==
  \/ \E p \in PdcPins, type \in Types : RegisterGpioIrq(p, type)
  \/ PinNotMapped \/ TypeNotSet \/ SetType \/ EnablePin
  \/ CrRegisterInterrupt \/ EntryTaken \/ NoFreeEntry \/ LineReady \/ LineFails

Unregister ==
  \/ \E p \in PdcPins : UnregisterPin(p)
  \/ NothingMapped \/ DisablePin \/ CrUnregisterInterrupt
  \/ EntryDropped \/ NoEntry \/ LineDisabled

Next ==
  \/ Entry \/ Config \/ Register \/ Unregister
  \/ \E irq \in Irqs : Interrupt(irq)
  \/ \E v \in Values : HandlerSetsIoValue(v)
  \/ HandlerReturns

Spec == Init /\ [][Next]_vars

-----------------------------------------------------------------------------
(* Properties.                                                             *)

\* When a call has configured a pin, its registers are what that call and
\* the handlers that interrupted it give one after the other, in some order:
\* no handler's output value is lost to a write of a value read before.  The
\* one exception is the pull of an input, left unchanged by the call, which
\* is that of the register as it was read.  Between its two writes, too, an
\* output drives only values of such an order.
Serial ==
  serial # {} =>
    LET p == call.params.PinNumber
        stalePull == ~call.params.OutputEnable /\ call.params.Pull = Unchange
        same(c, d) == IF stalePull THEN [c EXCEPT !.Pull = d.Pull] = d ELSE c = d
    IN  /\ ctl[p].OutputEnable => \E s \in serial : s.out = out[p]
        /\ pc = "done" => \E s \in serial : s.mine /\ same(s.ctl, ctl[p]) /\ s.out = out[p]

\* The pins of the PDC promise their clients what the interrupt library
\* promises for its lines, through the mapping: a pin's interrupt calls the
\* handler registered for that pin.
PinOf(irq) == CHOOSE p \in PdcPins : PdcPinNumber[p] = PdcGetPdcPinFromGicIrq(irq)
PinQueue == [p \in Registrable |-> queue[IrqOf(p)]]
PinRequest ==
  IF call # None /\ call.op = "initirq" THEN Registry!Idle
  ELSE IF request.op \in {"add", "remove"}
    THEN [request EXCEPT !.source = PinOf(request.source)]
    ELSE request
PinCalled ==
  IF called = None \/ called[1] = TlmmIrq THEN None
  ELSE <<PinOf(called[1]), called[2], called[3]>>
OfPin ==
  INSTANCE IrqRegistry WITH
    Sources <- Registrable, Handlers <- Pins, Params <- Pins, NoCall <- None,
    queue <- PinQueue, request <- PinRequest, called <- PinCalled
RefinesPins == OfPin!RegistrySpec

\* Between calls, a pin registered for a type interrupts on exactly the
\* conditions of that type: PDC, line and handler agree, whatever failed
\* registrations and other types have left on the way.
Conditions(type) ==
  CASE type = "EDGE_RISING" -> {"rising"}
    [] type = "EDGE_FALLING" -> {"falling"}
    [] type = "EDGE_BOTH" -> {"rising", "falling"}
    [] type = "LEVEL_HIGH" -> {"high"}
    [] type = "LEVEL_LOW" -> {"low"}
ChainAgrees ==
  pc = "idle" => \A p \in Registrable : granted[p] # None =>
    \E pin \in MappedPins : Wired(pin, IrqOf(p)) /\
      LET reported == Reported(irqCfg[pin]) IN
      /\ PdcEnabled(pin) /\ IrqOf(p) \in lineEnabled /\ queue[IrqOf(p)] # <<>>
      /\ reported.conditions = Conditions(granted[p])
      /\ reported.as = lineType[IrqOf(p)]

\* After PdcLibInit no pin is enabled that nobody has registered: "Disable
\* All IRQs in PDC" (pdc.c:213).
NothingLeftEnabled ==
  pc = "install" => \A pin \in MappedPins : ~PdcEnabled(pin)
=============================================================================
