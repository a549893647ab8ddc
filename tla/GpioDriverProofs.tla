-------------------------- MODULE GpioDriverProofs --------------------------
(***************************************************************************)
(* Theorems about GpioDriver: its variables have their types; a call's     *)
(* registers are those of some order of the calls (Serial); a registered   *)
(* pin interrupts on the conditions of its type (ChainAgrees); and the     *)
(* pins of the PDC are what the interrupt library promises for its lines   *)
(* (RefinesPins).                                                          *)
(***************************************************************************)
EXTENDS GpioDriver, SequenceTheorems, TLAPS

-----------------------------------------------------------------------------
(* The invariants.                                                         *)

AnyParams == Params \cup {BlinkParams(v) : v \in Values}

Configuring == pc \in {"control", "value", "done"}
Registering == pc \in {"type", "enable", "ask", "add", "line"} /\ call.op = "register"
Unregistering == pc \in {"disable", "unask", "remove"}

\* What call is at each place, and which of its pins are known to be mapped.
CallFits ==
  /\ pc \in {"entry", "gpiolib", "initirq", "install", "blink", "unloaded", "idle"} => call = None
  /\ Configuring =>
       /\ call.params \in AnyParams /\ call = [op |-> "config", params |-> call.params]
       /\ read \in [ctl : Controls, out : Values]
  /\ pc \in {"type", "enable", "ask", "add", "line"} =>
       \/ pc \in {"ask", "add", "line"} /\ call = [op |-> "initirq"]
       \/ /\ call.pin \in PdcPins /\ call.type \in Types
          /\ call = [op |-> "register", pin |-> call.pin, type |-> call.type]
          /\ pc # "type" => call.pin \in Registrable
  /\ Unregistering =>
       /\ call.pin \in PdcPins /\ call = [op |-> "unregister", pin |-> call.pin]
       /\ pc # "disable" => call.pin \in Registrable
  /\ ~Configuring => read = None

\* The entry point makes its pin blink before the first call of a client.
BlinksFit ==
  /\ pc = "blink" => blinks < 6
  /\ pc \in {"entry", "gpiolib", "install"} => blinks = 0
  /\ pc \in {"ask", "add", "line"} /\ call.op = "initirq" => blinks = 0

\* What has been asked of the interrupt library at each place.
RequestFits ==
  /\ pc \notin {"add", "line", "remove"} => request = Registry!Idle
  /\ pc = "add" =>
       request = [op |-> "add", source |-> Irq, handler |-> Handler, param |-> Handler]
  /\ pc = "line" => request = Registry!Done
  /\ pc = "remove" =>
       request \in {Registry!Done, [op |-> "remove", source |-> IrqOf(call.pin)]}

CalledFits == called \in (Irqs \X Handlers \X Handlers) \cup {None}

TypeInv == TypeOK /\ CallFits /\ BlinksFit /\ RequestFits /\ CalledFits

\* The steps from the PDC pin to the handler, of a pin registered for a type.
TypeSet(p, type) == irqCfg[PdcPinNumber[p]] = PdcIrqConfig(type)
PassedOn(p) == PdcEnabled(PdcPinNumber[p])
HasHandler(p) == queue[IrqOf(p)] # <<>>
LineSet(p, type) == lineType[IrqOf(p)] = GicType(type) /\ IrqOf(p) \in lineEnabled

Chained(p, type) == TypeSet(p, type) /\ PassedOn(p) /\ HasHandler(p) /\ LineSet(p, type)

\* A pin granted to a client has all of them, at every place; the one that
\* is being registered has those that are done.
Grants ==
  \A p \in Registrable : granted[p] # None => granted[p] \in Types /\ Chained(p, granted[p])
NoneYet == pc \in {"entry", "gpiolib"} => \A p \in Registrable : granted[p] = None
Progress ==
  Registering /\ call.pin \in Registrable =>
    /\ granted[call.pin] = None
    /\ pc # "type" => TypeSet(call.pin, call.type)
    /\ pc \notin {"type", "enable"} => PassedOn(call.pin)
    /\ pc = "line" => HasHandler(call.pin)
Withdrawn == pc \in {"unask", "remove"} => granted[call.pin] = None

ChainInv == Grants /\ NoneYet /\ Progress /\ Withdrawn

\* What a handler makes of a control register, whatever the value it sets.
Driven(c) ==
  [FunctionSel |-> c.FunctionSel, OutputEnable |-> TRUE,
   Pull |-> GPIO_PULL_NONE, DriveStrength |-> c.DriveStrength]

Outcomes == [ctl : Controls, out : Values, mine : BOOLEAN]

\* m is what a call with these parameters makes of s.
Follows(m, s, params) ==
  /\ m.ctl = Control(s.ctl, params)
  /\ m.out = IF WritesValue(params) THEN params.OutputValue ELSE s.out

\* Two control registers agree, up to the stale pull of the call.
Same(c, d, params) ==
  IF ~params.OutputEnable /\ params.Pull = Unchange THEN [c EXCEPT !.Pull = d.Pull] = d
  ELSE c = d

\* An order in which the call is still to come: it has what the handlers have
\* made of the registers since they were read.
Pending(u) ==
  LET p == call.params.PinNumber IN
  /\ ~u.mine /\ \E m \in serial : m.mine /\ Follows(m, u, call.params)
  /\ u.ctl \in {read.ctl, Driven(read.ctl)}
  /\ u.out = out[p]

\* An order in which it has come, that explains both registers.
Explains(s) ==
  LET p == call.params.PinNumber IN
  s.mine /\ Same(s.ctl, ctl[p], call.params) /\ s.out = out[p]

SerialInv ==
  /\ serial \subseteq Outcomes
  /\ serial # {} <=> Configuring
  /\ pc = "control" =>
       \E u \in serial : Pending(u) /\ u.ctl = ctl[call.params.PinNumber]
  /\ pc = "value" =>
       /\ \E u \in serial : Pending(u)
       /\ IF WritesValue(call.params)
            THEN ctl[call.params.PinNumber] = Control(read.ctl, call.params)
            ELSE \E s \in serial : Explains(s)
  /\ pc = "done" => \E s \in serial : Explains(s)

-----------------------------------------------------------------------------
(* The mapping of the PDC's pins.                                          *)

\* Region i holds pin, or the interrupt irq.
HoldsPin(i, pin) ==
  pin >= PdcRegion[i].PdcPinBase /\ pin < PdcRegion[i].PdcPinBase + PdcRegion[i].PdcCount
HoldsIrq(i, irq) ==
  irq >= GIC_SPI(PdcRegion[i].GicSpiBase)
  /\ irq < GIC_SPI(PdcRegion[i].GicSpiBase + PdcRegion[i].PdcCount)

\* A region holds natural numbers, and no two hold the same pin or interrupt.
LEMMA Regions ==
  /\ \A i \in DOMAIN PdcRegion :
       PdcRegion[i].PdcPinBase \in Nat /\ PdcRegion[i].GicSpiBase \in Nat
       /\ PdcRegion[i].PdcCount \in Nat /\ PdcRegion[i].PdcCount # 0
  /\ \A i, j \in DOMAIN PdcRegion : i # j =>
       /\ \A pin \in Nat : ~(HoldsPin(i, pin) /\ HoldsPin(j, pin))
       /\ \A irq \in Nat : ~(HoldsIrq(i, irq) /\ HoldsIrq(j, irq))
  /\ DOMAIN PdcRegion \subseteq Nat
<1> DEFINE R == [PdcPinBase : Nat, GicSpiBase : Nat, PdcCount : Nat \ {0}]
<1>1. PdcRegion \in Seq(R)
  BY RegionsApart DEF RegionAssumption
<1> HIDE DEF R
<1>2. \A i \in DOMAIN PdcRegion : PdcRegion[i] \in R
  BY <1>1, LenProperties, ElementOfSeq
<1>3. DOMAIN PdcRegion \subseteq Nat
  <2>1. DOMAIN PdcRegion = 1 .. Len(PdcRegion) /\ Len(PdcRegion) \in Nat
    BY <1>1, LenProperties
  <2> QED  BY <2>1
<1>4. \A i \in DOMAIN PdcRegion :
        PdcRegion[i].PdcPinBase \in Nat /\ PdcRegion[i].GicSpiBase \in Nat
        /\ PdcRegion[i].PdcCount \in Nat /\ PdcRegion[i].PdcCount # 0
  BY <1>2 DEF R
<1>5. ASSUME NEW i \in DOMAIN PdcRegion, NEW j \in DOMAIN PdcRegion, i # j
      PROVE  /\ \A pin \in Nat : ~(HoldsPin(i, pin) /\ HoldsPin(j, pin))
             /\ \A irq \in Nat : ~(HoldsIrq(i, irq) /\ HoldsIrq(j, irq))
  <2>1. /\ \/ PdcRegion[i].PdcPinBase + PdcRegion[i].PdcCount <= PdcRegion[j].PdcPinBase
           \/ PdcRegion[j].PdcPinBase + PdcRegion[j].PdcCount <= PdcRegion[i].PdcPinBase
        /\ \/ PdcRegion[i].GicSpiBase + PdcRegion[i].PdcCount <= PdcRegion[j].GicSpiBase
           \/ PdcRegion[j].GicSpiBase + PdcRegion[j].PdcCount <= PdcRegion[i].GicSpiBase
    BY <1>5, RegionsApart DEF RegionAssumption
  <2> QED  BY <2>1, <1>4 DEF HoldsPin, HoldsIrq, GIC_SPI
<1> QED  BY <1>3, <1>4, <1>5

\* A pin that a region holds goes to the interrupt at the same place in it,
\* which leads back to the pin.
LEMMA PinMapped ==
  ASSUME NEW pin \in Nat, NEW i \in DOMAIN PdcRegion, HoldsPin(i, pin)
  PROVE  /\ PdcGetGicIrqFromPdcPin(pin)
              = GIC_SPI(PdcRegion[i].GicSpiBase + (pin - PdcRegion[i].PdcPinBase))
         /\ PdcGetGicIrqFromPdcPin(pin) \in Nat
         /\ PdcGetPdcPinFromGicIrq(PdcGetGicIrqFromPdcPin(pin)) = pin
         /\ Wired(pin, PdcGetGicIrqFromPdcPin(pin))
         /\ pin \in MappedPins
<1> DEFINE irq == GIC_SPI(PdcRegion[i].GicSpiBase + (pin - PdcRegion[i].PdcPinBase))
<1> DEFINE byPin == {j \in DOMAIN PdcRegion :
                       /\ pin >= PdcRegion[j].PdcPinBase
                       /\ pin < PdcRegion[j].PdcPinBase + PdcRegion[j].PdcCount}
<1> DEFINE byIrq == {j \in DOMAIN PdcRegion :
                       /\ irq >= GIC_SPI(PdcRegion[j].GicSpiBase)
                       /\ irq < GIC_SPI(PdcRegion[j].GicSpiBase + PdcRegion[j].PdcCount)}
<1>0. i \in Nat /\ PdcRegion[i].PdcPinBase \in Nat /\ PdcRegion[i].GicSpiBase \in Nat
      /\ PdcRegion[i].PdcCount \in Nat
  BY Regions
<1>1. irq \in Nat /\ HoldsIrq(i, irq)
  BY <1>0 DEF HoldsPin, HoldsIrq, GIC_SPI
<1>2. byPin = {i}
  <2>1. \A j \in DOMAIN PdcRegion : j \in byPin <=> HoldsPin(j, pin)
    BY DEF HoldsPin
  <2> QED  BY <2>1, Regions
<1>3. byIrq = {i}
  <2>1. \A j \in DOMAIN PdcRegion : j \in byIrq <=> HoldsIrq(j, irq)
    BY DEF HoldsIrq
  <2>2. \A j \in byIrq : j \in DOMAIN PdcRegion
    OBVIOUS
  <2> HIDE DEF byIrq
  <2> QED  BY <1>1, <2>1, <2>2, Regions
<1>4. First({i}) = i
  BY <1>0 DEF First
<1>5. PdcGetGicIrqFromPdcPin(pin) = irq
  BY <1>2, <1>4 DEF PdcGetGicIrqFromPdcPin
<1>6. PdcGetPdcPinFromGicIrq(irq) = pin
  <2>1. PdcGetPdcPinFromGicIrq(irq)
          = PdcRegion[i].PdcPinBase + (irq - GIC_SPI(PdcRegion[i].GicSpiBase))
    BY <1>3, <1>4 DEF PdcGetPdcPinFromGicIrq
  <2> QED  BY <2>1, <1>0 DEF GIC_SPI
<1>7. Wired(pin, irq)
  <2> DEFINE k == pin - PdcRegion[i].PdcPinBase
  <2>1. k \in 0 .. PdcRegion[i].PdcCount - 1
        /\ pin = PdcRegion[i].PdcPinBase + k /\ irq = GIC_SPI(PdcRegion[i].GicSpiBase + k)
    BY <1>0 DEF HoldsPin
  <2> QED  BY <2>1 DEF Wired
<1>8. pin \in MappedPins
  <2>1. pin \in PdcRegion[i].PdcPinBase .. (PdcRegion[i].PdcPinBase + PdcRegion[i].PdcCount - 1)
    BY <1>0 DEF HoldsPin
  <2> QED  BY <2>1 DEF MappedPins
<1>9. irq = GIC_SPI(PdcRegion[i].GicSpiBase + (pin - PdcRegion[i].PdcPinBase))
  OBVIOUS
<1> HIDE DEF irq
<1> QED  BY <1>1, <1>5, <1>6, <1>7, <1>8, <1>9

\* A pin that no region holds has no interrupt, and is not one of the mapped.
LEMMA PinUnmapped ==
  ASSUME NEW pin \in Nat, \A i \in DOMAIN PdcRegion : ~HoldsPin(i, pin)
  PROVE  PdcGetGicIrqFromPdcPin(pin) = NotFound /\ pin \notin MappedPins
<1>1. PdcGetGicIrqFromPdcPin(pin) = NotFound
  <2> DEFINE byPin == {j \in DOMAIN PdcRegion :
                         /\ pin >= PdcRegion[j].PdcPinBase
                         /\ pin < PdcRegion[j].PdcPinBase + PdcRegion[j].PdcCount}
  <2>1. byPin = {}
    BY DEF HoldsPin
  <2> QED  BY <2>1 DEF PdcGetGicIrqFromPdcPin
<1>2. pin \notin MappedPins
  <2> SUFFICES ASSUME NEW i \in DOMAIN PdcRegion,
                      pin \in PdcRegion[i].PdcPinBase
                                .. (PdcRegion[i].PdcPinBase + PdcRegion[i].PdcCount - 1)
               PROVE  FALSE
    BY DEF MappedPins
  <2> QED  BY Regions DEF HoldsPin
<1> QED  BY <1>1, <1>2

\* The mapped pins are natural numbers, each with its interrupt.
LEMMA MappedPinsType ==
  ASSUME NEW pin \in MappedPins
  PROVE  /\ pin \in Nat /\ pin \div 32 \in Banks /\ pin % 32 \in 0 .. 31
         /\ PdcGetGicIrqFromPdcPin(pin) \in Nat
<1>1. PICK i \in DOMAIN PdcRegion :
        pin \in PdcRegion[i].PdcPinBase .. (PdcRegion[i].PdcPinBase + PdcRegion[i].PdcCount - 1)
  BY DEF MappedPins
<1>2. pin \in Nat /\ HoldsPin(i, pin)
  BY <1>1, Regions DEF HoldsPin
<1>3. pin \div 32 \in Banks
  BY DEF Banks
<1> QED  BY <1>2, <1>3, PinMapped

\* A registrable pin has a mapped PDC pin, and its own line, which leads back
\* to it.
LEMMA RegistrablePin ==
  ASSUME NEW p \in Registrable
  PROVE  /\ p \in PdcPins /\ p \in Pins
         /\ PdcPinNumber[p] \in MappedPins
         /\ Wired(PdcPinNumber[p], IrqOf(p))
         /\ IrqOf(p) \in Irqs \ {TlmmIrq} /\ IrqOf(p) \in Nat
         /\ PdcGetPdcPinFromGicIrq(IrqOf(p)) = PdcPinNumber[p]
         /\ PinOf(IrqOf(p)) = p
<1>1. p \in PdcPins /\ p \in Pins /\ PdcPinNumber[p] \in Nat
  BY PdcPinAssumption DEF Registrable
<1>2. PdcGetGicIrqFromPdcPin(PdcPinNumber[p]) # NotFound
  BY DEF Registrable
<1>3. PICK i \in DOMAIN PdcRegion : HoldsPin(i, PdcPinNumber[p])
  BY <1>1, <1>2, PinUnmapped
<1>4. /\ PdcPinNumber[p] \in MappedPins
      /\ Wired(PdcPinNumber[p], IrqOf(p))
      /\ IrqOf(p) \in Nat
      /\ PdcGetPdcPinFromGicIrq(IrqOf(p)) = PdcPinNumber[p]
  BY <1>1, <1>3, PinMapped DEF IrqOf
<1>5. IrqOf(p) \in Irqs \ {TlmmIrq}
  BY TlmmIrqAssumption DEF Irqs
<1>6. PinOf(IrqOf(p)) = p
  BY <1>1, <1>4, PdcPinAssumption DEF PinOf
<1> QED  BY <1>1, <1>4, <1>5, <1>6

\* No two pins share a line, and no two share a bit of the enable banks.
LEMMA PinsApart ==
  ASSUME NEW p \in Registrable, NEW q \in Registrable, p # q
  PROVE  /\ IrqOf(p) # IrqOf(q)
         /\ PdcPinNumber[p] # PdcPinNumber[q]
         /\ PdcPinNumber[p] \div 32 = PdcPinNumber[q] \div 32
              => PdcPinNumber[p] % 32 # PdcPinNumber[q] % 32
<1>1. IrqOf(p) # IrqOf(q)
  BY RegistrablePin
<1>2. PdcPinNumber[p] # PdcPinNumber[q]
  BY RegistrablePin, PdcPinAssumption
<1>3. PdcPinNumber[p] \in Nat /\ PdcPinNumber[q] \in Nat
  BY RegistrablePin, MappedPinsType
<1>4. ASSUME NEW a \in Nat, NEW b \in Nat, a \div 32 = b \div 32, a % 32 = b % 32
      PROVE  a = b
  BY <1>4
<1> QED  BY <1>1, <1>2, <1>3, <1>4

\* A line other than the shared one is that of exactly one pin.
LEMMA LineOfPin ==
  ASSUME NEW irq \in Irqs, irq # TlmmIrq
  PROVE  PinOf(irq) \in Registrable /\ IrqOf(PinOf(irq)) = irq
BY RegistrablePin DEF Irqs

-----------------------------------------------------------------------------
(* The registers of a pin, and the types.                                  *)

\* Every call's parameters are of the enumerations.
LEMMA AnyParamsType == AnyParams \subseteq ConfigParams
<1>1. ASSUME NEW v \in Values
      PROVE  BlinkParams(v) \in ConfigParams
  <2> DEFINE i == GpioInitConfigParams(TestPin)
  <2>1. i \in ConfigParams
    BY TestPinAssumption DEF GpioInitConfigParams, ConfigParams
  <2> HIDE DEF i
  <2>2. 0 \in Functions /\ 3 \in DriveStrengths
    BY DEF Functions, DriveStrengths
  <2>3. [i EXCEPT !.OutputEnable = TRUE, !.FunctionSel = 0, !.DriveStrength = 3,
                  !.OutputValue = v] \in ConfigParams
    BY <2>1, <2>2 DEF ConfigParams
  <2> QED  BY <2>3 DEF BlinkParams, i
<1> QED  BY <1>1, ParamsAssumption DEF AnyParams

\* A call makes a control register of one.
LEMMA ControlType ==
  ASSUME NEW c \in Controls, NEW params \in ConfigParams
  PROVE  Control(c, params) \in Controls
<1>1. /\ c.FunctionSel \in Functions /\ c.Pull \in Pulls /\ c.DriveStrength \in DriveStrengths
      /\ params.OutputEnable \in BOOLEAN /\ params.FunctionSel \in Functions \cup {Unchange}
      /\ params.Pull \in Pulls \cup {Unchange}
      /\ params.DriveStrength \in DriveStrengths \cup {Unchange}
  BY DEF Controls, ConfigParams
<1>2. Control(c, params).Pull \in Pulls
  BY <1>1 DEF Control, Asked, Pulls, GPIO_PULL_NONE, GPIO_PULL_UP, GPIO_PULL_UP_NO_KEEPER
<1> DEFINE d == Control(c, params)
<1>3. d.FunctionSel \in Functions /\ d.DriveStrength \in DriveStrengths
      /\ d.OutputEnable \in BOOLEAN
  BY <1>1 DEF Control, Asked
<1>4. d = [FunctionSel |-> d.FunctionSel, OutputEnable |-> d.OutputEnable,
           Pull |-> d.Pull, DriveStrength |-> d.DriveStrength]
  BY DEF Control
<1> HIDE DEF d
<1> QED  BY <1>2, <1>3, <1>4 DEF Controls, d

\* A call that writes a value writes zero or one.
LEMMA ValueType ==
  ASSUME NEW params \in ConfigParams, WritesValue(params)
  PROVE  params.OutputValue \in Values /\ params.OutputEnable
BY DEF ConfigParams, WritesValue

\* What the registers hold, and the conditions reported, for each type.
LEMMA TypesReported ==
  ASSUME NEW type \in TriggerTypes
  PROVE  /\ PdcIrqConfig(type) \in 0 .. 7
         /\ GicType(type) \in {"LEVEL_HIGH", "EDGE_RISING"}
         /\ Reported(PdcIrqConfig(type)).conditions = Conditions(type)
         /\ Reported(PdcIrqConfig(type)).as = GicType(type)
<1>1. CASE type = "EDGE_RISING"
  BY <1>1 DEF PdcIrqConfig, GicType, Reported, Conditions
<1>2. CASE type = "EDGE_FALLING"
  BY <1>2 DEF PdcIrqConfig, GicType, Reported, Conditions
<1>3. CASE type = "EDGE_BOTH"
  BY <1>3 DEF PdcIrqConfig, GicType, Reported, Conditions
<1>4. CASE type = "LEVEL_HIGH"
  BY <1>4 DEF PdcIrqConfig, GicType, Reported, Conditions
<1>5. CASE type = "LEVEL_LOW"
  BY <1>5 DEF PdcIrqConfig, GicType, Reported, Conditions
<1> QED  BY <1>1, <1>2, <1>3, <1>4, <1>5 DEF TriggerTypes

\* The writes of the PDC library keep its registers in their types.
LEMMA PdcTypes ==
  ASSUME PdcTypeOK, NEW pin \in MappedPins
  PROVE  /\ \A type \in TriggerTypes : PdcGicSetType(pin, type) => PdcTypeOK'
         /\ \A Enable \in BOOLEAN : PdcEnableInterrupt(pin, Enable) => PdcTypeOK'
<1>1. ASSUME NEW type \in TriggerTypes, PdcGicSetType(pin, type)
      PROVE  PdcTypeOK'
  <2>1. irqCfg' \in [MappedPins -> 0 .. 7]
    BY <1>1, TypesReported DEF PdcGicSetType, PdcTypeOK
  <2>2. spiConfig' \subseteq {PdcGetGicIrqFromPdcPin(q) - GIC_SPI(0) : q \in MappedPins}
    BY <1>1 DEF PdcGicSetType, PdcTypeOK
  <2> QED  BY <1>1, <2>1, <2>2 DEF PdcGicSetType, PdcTypeOK
<1>2. ASSUME NEW Enable \in BOOLEAN, PdcEnableInterrupt(pin, Enable)
      PROVE  PdcTypeOK'
  <2>1. pin \div 32 \in Banks /\ pin % 32 \in 0 .. 31
    BY MappedPinsType
  <2>2. enableBank' \in [Banks -> SUBSET (0 .. 31)]
    BY <1>2, <2>1 DEF PdcEnableInterrupt, PdcTypeOK
  <2> QED  BY <1>2, <2>2 DEF PdcEnableInterrupt, PdcTypeOK
<1> QED  BY <1>1, <1>2

\* PdcPinsMapping only clears bits.
LEMMA MappingType ==
  ASSUME PdcTypeOK, PdcPinsMapping
  PROVE  PdcTypeOK'
<1>1. enableBank' \in [Banks -> SUBSET (0 .. 31)]
  BY DEF PdcPinsMapping, PdcTypeOK
<1> QED  BY <1>1 DEF PdcPinsMapping, PdcTypeOK

-----------------------------------------------------------------------------
(* Types.                                                                  *)

\* A registration asks for a line and a handler that there are.
LEMMA RegistrationFits ==
  ASSUME TypeInv, pc \in {"ask", "add", "line"}
  PROVE  /\ Irq \in Irqs /\ Handler \in Handlers
         /\ LineType \in {"LEVEL_HIGH", "EDGE_RISING"}
         /\ \/ call = [op |-> "initirq"] /\ Irq = TlmmIrq
            \/ /\ call.op = "register" /\ call # [op |-> "initirq"]
               /\ call.pin \in Registrable /\ call.type \in TriggerTypes
               /\ Irq = IrqOf(call.pin) /\ Handler = call.pin /\ LineType = GicType(call.type)
<1>1. CASE call = [op |-> "initirq"]
  BY <1>1 DEF Irq, Handler, LineType, Irqs, Handlers
<1>2. CASE call # [op |-> "initirq"]
  <2>1. /\ call.pin \in Registrable /\ call.type \in Types
        /\ call = [op |-> "register", pin |-> call.pin, type |-> call.type]
    BY <1>2 DEF TypeInv, CallFits
  <2>2. call.op = "register" /\ call.op # "initirq"
    BY <2>1
  <2>3. call.pin \in Registrable /\ call.type \in TriggerTypes
    BY <2>1, TypesAssumption
  <2>4. Irq = IrqOf(call.pin) /\ Handler = call.pin /\ LineType = GicType(call.type)
    BY <2>2 DEF Irq, Handler, LineType
  <2>5. call.pin \in Pins
    BY <2>3, RegistrablePin
  <2>6. IrqOf(call.pin) \in Irqs
    BY <2>3 DEF Irqs
  <2> QED  BY <1>2, <2>2, <2>3, <2>4, <2>5, <2>6, TypesReported DEF Handlers
<1> QED  BY <1>1, <1>2

\* Where a call returns to, the next one may begin.
LEMMA ReturnFits ==
  ASSUME TypeInv, NEW ok \in BOOLEAN,
         NEW from \in {"done", "type", "add", "line", "disable", "remove"}, Return(from, ok)
  PROVE  /\ pc' \in {"install", "unloaded", "blink", "idle"}
         /\ call' = None /\ read' = None /\ blinks' = blinks
         /\ BlinksFit'
<1>1. /\ pc' \in {"install", "unloaded", "blink", "idle"}
      /\ call' = None /\ read' = None /\ blinks' = blinks
      /\ pc' = "blink" => blinks < 6
      /\ pc' = "install" => call.op = "initirq"
      /\ pc = from
  BY DEF Return, Goto
<1>2. CASE call = [op |-> "initirq"]
  <2>1. call.op = "initirq"
    BY <1>2
  <2>2. pc \in {"ask", "add", "line"}
    BY <1>1, <2>1 DEF TypeInv, CallFits, Configuring, Unregistering
  <2>3. blinks = 0
    BY <2>1, <2>2 DEF TypeInv, BlinksFit
  <2> QED  BY <1>1, <2>3 DEF BlinksFit
<1>3. CASE call # [op |-> "initirq"]
  <2>1. call.op # "initirq"
    BY <1>1, <1>3 DEF TypeInv, CallFits, Configuring, Unregistering
  <2> QED  BY <1>1, <2>1 DEF BlinksFit
<1> QED  BY <1>1, <1>2, <1>3

\* TypeOK by the parts that change together.
LinesOK ==
  /\ queue \in [Irqs -> Seq(Handlers \X Handlers)]
  /\ lineType \in [Irqs -> {"LEVEL_HIGH", "EDGE_RISING"}]
  /\ lineEnabled \in SUBSET Irqs
ThreadOK ==
  /\ pc \in {"entry", "gpiolib", "initirq", "install", "blink", "unloaded", "idle",
             "control", "value", "done", "type", "enable", "ask", "add", "line",
             "disable", "unask", "remove"}
  /\ call \in Calls \cup {None}
  /\ read \in [ctl : Controls, out : Values] \cup {None}
  /\ blinks \in 0 .. 6
GrantedOK == granted \in [Registrable -> Types \cup {None}]

\* The parts make up the whole, before a step and after it.
LEMMA TypeParts ==
  /\ TypeOK <=> PinsTypeOK /\ PdcTypeOK /\ LinesOK /\ ThreadOK /\ GrantedOK
  /\ TypeOK' <=> PinsTypeOK' /\ PdcTypeOK' /\ LinesOK' /\ ThreadOK' /\ GrantedOK'
BY DEF TypeOK, LinesOK, ThreadOK, GrantedOK

\* Variables left alone keep their types.
LEMMA Unchanged ==
  ASSUME TypeOK
  PROVE  /\ UNCHANGED pinVars => PinsTypeOK'
         /\ UNCHANGED pdcVars => PdcTypeOK'
         /\ UNCHANGED <<queue, lineType, lineEnabled>> => LinesOK'
         /\ UNCHANGED granted => GrantedOK'
BY DEF TypeOK, PinsTypeOK, PdcTypeOK, LinesOK, GrantedOK, pinVars, pdcVars

\* The initial states have the types.
LEMMA TypeInvInit == Init => TypeInv
<1> SUFFICES ASSUME Init PROVE TypeInv
  OBVIOUS
<1>1. PinsTypeOK
  <2>1. [FunctionSel |-> 1, OutputEnable |-> FALSE, Pull |-> 1, DriveStrength |-> 0] \in Controls
    BY DEF Controls, Functions, Pulls, DriveStrengths
  <2>2. 0 \in Values
    BY DEF Values
  <2> QED  BY <2>1, <2>2 DEF Init, PinsTypeOK
<1>2. PdcTypeOK
  <2>1. ASSUME NEW n \in Banks
        PROVE  {pin % 32 : pin \in {q \in LeftEnabled : q \div 32 = n}} \in SUBSET (0 .. 31)
    BY LeftEnabledAssumption, MappedPinsType
  <2>2. enableBank \in [Banks -> SUBSET (0 .. 31)]
    BY <2>1 DEF Init
  <2>3. irqCfg \in [MappedPins -> 0 .. 7]
    BY DEF Init
  <2>4. spiConfig = {}
    BY DEF Init
  <2> QED  BY <2>2, <2>3, <2>4 DEF PdcTypeOK
<1>3. LinesOK
  BY EmptySeq DEF Init, LinesOK, Registry!RegistryInit
<1>4. ThreadOK
  BY DEF Init, ThreadOK
<1>5. GrantedOK
  BY DEF Init, GrantedOK
<1>6. CallFits /\ BlinksFit
  BY DEF Init, CallFits, BlinksFit, Configuring, Unregistering
<1>7. RequestFits /\ CalledFits
  BY DEF Init, RequestFits, CalledFits, Registry!RegistryInit
<1> QED  BY <1>1, <1>2, <1>3, <1>4, <1>5, <1>6, <1>7, TypeParts DEF TypeInv

\* What a handler's call makes of its pin.
LEMMA HandlerSets ==
  ASSUME PinsTypeOK, NEW v \in Values, GpioSetConfig(SetIoValue(HandlerPin, v))
  PROVE  /\ ctl' = [ctl EXCEPT ![HandlerPin] = Driven(ctl[HandlerPin])]
         /\ out' = [out EXCEPT ![HandlerPin] = v]
         /\ PinsTypeOK'
<1> DEFINE params == SetIoValue(HandlerPin, v)
<1>1. /\ params.PinNumber = HandlerPin /\ params.OutputEnable = TRUE /\ params.OutputValue = v
      /\ params.FunctionSel = Unchange /\ params.Pull = Unchange /\ params.DriveStrength = Unchange
  BY DEF SetIoValue, GpioInitConfigParams
<1>2. v # Unchange
  BY UnchangeAssumption DEF Values
<1> HIDE DEF params
<1>3. WritesValue(params)
  BY <1>1, <1>2 DEF WritesValue
<1>4. \A c : Control(c, params) = Driven(c)
  BY <1>1 DEF Control, Driven, Asked
<1>5. GpioSetConfig(params)
  BY DEF params
<1>6. /\ ctl' = [ctl EXCEPT ![HandlerPin] = Driven(ctl[HandlerPin])]
      /\ out' = [out EXCEPT ![HandlerPin] = v]
  BY <1>1, <1>3, <1>4, <1>5 DEF GpioSetConfig, WriteControl, WriteValue
<1>7. HandlerPin \in Pins
  BY TestPinAssumption
<1>8. Driven(ctl[HandlerPin]) \in Controls
  BY <1>7 DEF PinsTypeOK, Controls, Driven, Pulls, GPIO_PULL_NONE
<1> QED  BY <1>6, <1>7, <1>8 DEF PinsTypeOK

\* Every step keeps the types.
LEMMA TypeInvNext == TypeInv /\ [Next]_vars => TypeInv'
<1> SUFFICES ASSUME TypeInv, [Next]_vars
             PROVE  TypeInv'
  OBVIOUS
<1> USE DEF TypeInv
<1>0. PinsTypeOK /\ PdcTypeOK /\ LinesOK /\ ThreadOK /\ GrantedOK
  BY TypeParts
<1> USE <1>0
<1>1. CASE PdcLibInit
  <2>1. PinsTypeOK'
    BY <1>1, Unchanged DEF PdcLibInit
  <2>2. PdcTypeOK'
    BY <1>1, MappingType DEF PdcLibInit
  <2>3. LinesOK'
    BY <1>1, Unchanged DEF PdcLibInit, gic
  <2>4. GrantedOK'
    BY <1>1, Unchanged DEF PdcLibInit, history
  <2>5. ThreadOK'
    BY <1>1 DEF PdcLibInit, ThreadOK, Goto, thread
  <2>6. CallFits'
    BY <1>1 DEF PdcLibInit, CallFits, Configuring, Unregistering, Goto, thread
  <2>7. BlinksFit'
    BY <1>1 DEF PdcLibInit, BlinksFit, Goto, thread
  <2>8. RequestFits' /\ CalledFits'
    BY <1>1 DEF PdcLibInit, RequestFits, CalledFits, Goto, gic, thread
  <2> QED  BY <2>1, <2>2, <2>3, <2>4, <2>5, <2>6, <2>7, <2>8, TypeParts DEF TypeInv
<1>2. CASE GpioLibInit
  <2>1. PinsTypeOK'
    BY <1>2, Unchanged DEF GpioLibInit
  <2>2. PdcTypeOK'
    BY <1>2, Unchanged DEF GpioLibInit
  <2>3. LinesOK'
    BY <1>2, Unchanged DEF GpioLibInit, gic
  <2>4. GrantedOK'
    BY <1>2, Unchanged DEF GpioLibInit, history
  <2>5. ThreadOK'
    BY <1>2 DEF GpioLibInit, ThreadOK, Goto, Calls
  <2>6. CallFits'
    BY <1>2 DEF GpioLibInit, CallFits, Configuring, Unregistering, Goto, thread
  <2>7. BlinksFit'
    BY <1>2 DEF GpioLibInit, BlinksFit, Goto, thread
  <2>8. RequestFits' /\ CalledFits'
    BY <1>2 DEF GpioLibInit, RequestFits, CalledFits, Goto, gic, thread
  <2> QED  BY <2>1, <2>2, <2>3, <2>4, <2>5, <2>6, <2>7, <2>8, TypeParts DEF TypeInv
<1>3. CASE NoTarget
  <2>1. PinsTypeOK'
    BY <1>3, Unchanged DEF NoTarget
  <2>2. PdcTypeOK'
    BY <1>3, Unchanged DEF NoTarget
  <2>3. LinesOK'
    BY <1>3, Unchanged DEF NoTarget, gic
  <2>4. GrantedOK'
    BY <1>3, Unchanged DEF NoTarget, history
  <2>5. ThreadOK'
    BY <1>3 DEF NoTarget, ThreadOK, Goto, thread
  <2>6. CallFits'
    BY <1>3 DEF NoTarget, CallFits, Configuring, Unregistering, Goto, thread
  <2>7. BlinksFit'
    BY <1>3 DEF NoTarget, BlinksFit, Goto, thread
  <2>8. RequestFits' /\ CalledFits'
    BY <1>3 DEF NoTarget, RequestFits, CalledFits, Goto, gic, thread
  <2> QED  BY <2>1, <2>2, <2>3, <2>4, <2>5, <2>6, <2>7, <2>8, TypeParts DEF TypeInv
<1>4. CASE Install
  <2>1. PinsTypeOK'
    BY <1>4, Unchanged DEF Install
  <2>2. PdcTypeOK'
    BY <1>4, Unchanged DEF Install
  <2>3. LinesOK'
    BY <1>4, Unchanged DEF Install, gic
  <2>4. GrantedOK'
    BY <1>4, Unchanged DEF Install, history
  <2>5. ThreadOK'
    BY <1>4 DEF Install, ThreadOK, Goto, thread
  <2>6. CallFits'
    BY <1>4 DEF Install, CallFits, Configuring, Unregistering, Goto, thread
  <2>7. BlinksFit'
    BY <1>4 DEF Install, BlinksFit, Goto, thread
  <2>8. RequestFits' /\ CalledFits'
    BY <1>4 DEF Install, RequestFits, CalledFits, Goto, gic, thread
  <2> QED  BY <2>1, <2>2, <2>3, <2>4, <2>5, <2>6, <2>7, <2>8, TypeParts DEF TypeInv
<1>5. CASE Blink
  <2>0. ASSUME NEW params \in AnyParams, GpioConfig(params)
        PROVE  /\ call' = [op |-> "config", params |-> params] /\ call' \in Calls
               /\ call'.params = params
               /\ read' \in [ctl : Controls, out : Values]
               /\ UNCHANGED <<ctl, out, enableBank, irqCfg, spiConfig, granted>>
               /\ UNCHANGED <<queue, request, called, lineType, lineEnabled>>
    <3>1. params.PinNumber \in Pins
      BY AnyParamsType DEF ConfigParams
    <3>2. read' \in [ctl : Controls, out : Values]
      BY <2>0, <3>1 DEF GpioConfig, PinsTypeOK
    <3>3. call' = [op |-> "config", params |-> params]
      BY <2>0 DEF GpioConfig
    <3>4. call' \in Calls
      BY <3>3 DEF Calls, AnyParams
    <3> QED  BY <2>0, <3>2, <3>3, <3>4 DEF GpioConfig, pinVars, pdcVars, gic
  <2>. PICK v \in Values : GpioConfig(BlinkParams(v))
    BY <1>5 DEF Blink, Values
  <2>. DEFINE params == BlinkParams(v)
  <2>9. params \in AnyParams
    BY DEF AnyParams
  <2>. HIDE DEF params
  <2>10. GpioConfig(params)
    BY DEF params
  <2>1. PinsTypeOK'
    BY <2>0, <2>9, <2>10, Unchanged DEF pinVars
  <2>2. PdcTypeOK'
    BY <2>0, <2>9, <2>10, Unchanged DEF pdcVars
  <2>3. LinesOK'
    BY <2>0, <2>9, <2>10, Unchanged
  <2>4. GrantedOK'
    BY <2>0, <2>9, <2>10, Unchanged
  <2>5. ThreadOK'
    BY <1>5, <2>0, <2>9, <2>10 DEF Blink, ThreadOK, BlinksFit, Goto
  <2>6. CallFits'
    BY <1>5, <2>0, <2>9, <2>10 DEF Blink, CallFits, Configuring, Unregistering, Goto
  <2>7. BlinksFit'
    BY <1>5 DEF Blink, BlinksFit, Goto, thread
  <2>8. RequestFits' /\ CalledFits'
    BY <1>5, <2>0, <2>9, <2>10 DEF Blink, RequestFits, CalledFits, Goto
  <2> QED  BY <2>1, <2>2, <2>3, <2>4, <2>5, <2>6, <2>7, <2>8, TypeParts DEF TypeInv
<1>6. CASE \E params \in Params : ProtocolGpioConfig(params)
  <2>0. ASSUME NEW params \in AnyParams, GpioConfig(params)
        PROVE  /\ call' = [op |-> "config", params |-> params] /\ call' \in Calls
               /\ call'.params = params
               /\ read' \in [ctl : Controls, out : Values]
               /\ UNCHANGED <<ctl, out, enableBank, irqCfg, spiConfig, granted>>
               /\ UNCHANGED <<queue, request, called, lineType, lineEnabled>>
    <3>1. params.PinNumber \in Pins
      BY AnyParamsType DEF ConfigParams
    <3>2. read' \in [ctl : Controls, out : Values]
      BY <2>0, <3>1 DEF GpioConfig, PinsTypeOK
    <3>3. call' = [op |-> "config", params |-> params]
      BY <2>0 DEF GpioConfig
    <3>4. call' \in Calls
      BY <3>3 DEF Calls, AnyParams
    <3> QED  BY <2>0, <3>2, <3>3, <3>4 DEF GpioConfig, pinVars, pdcVars, gic
  <2>. PICK params \in Params : ProtocolGpioConfig(params)
    BY <1>6
  <2>9. params \in AnyParams
    BY DEF AnyParams
  <2>10. GpioConfig(params) /\ Goto("idle", "control") /\ blinks' = blinks
    BY DEF ProtocolGpioConfig
  <2>1. PinsTypeOK'
    BY <2>0, <2>9, <2>10, Unchanged DEF pinVars
  <2>2. PdcTypeOK'
    BY <2>0, <2>9, <2>10, Unchanged DEF pdcVars
  <2>3. LinesOK'
    BY <2>0, <2>9, <2>10, Unchanged
  <2>4. GrantedOK'
    BY <2>0, <2>9, <2>10, Unchanged
  <2>5. ThreadOK'
    BY <2>0, <2>9, <2>10 DEF ThreadOK, Goto
  <2>6. CallFits'
    BY <2>0, <2>9, <2>10 DEF CallFits, Configuring, Unregistering, Goto
  <2>7. BlinksFit'
    BY <2>10 DEF BlinksFit, Goto
  <2>8. RequestFits' /\ CalledFits'
    BY <2>0, <2>9, <2>10 DEF RequestFits, CalledFits, Goto
  <2> QED  BY <2>1, <2>2, <2>3, <2>4, <2>5, <2>6, <2>7, <2>8, TypeParts DEF TypeInv
<1>7. CASE WriteControlRegister
  <2>0. call.params \in ConfigParams /\ call.params.PinNumber \in Pins
    BY <1>7, AnyParamsType DEF WriteControlRegister, CallFits, Configuring, Goto, ConfigParams
  <2>1. PinsTypeOK'
    <3>1. Control(read.ctl, call.params) \in Controls
      BY <1>7, <2>0, ControlType DEF WriteControlRegister, CallFits, Configuring, Goto
    <3> QED  BY <1>7, <2>0, <3>1 DEF WriteControlRegister, WriteControl, PinsTypeOK
  <2>2. PdcTypeOK'
    BY <1>7, Unchanged DEF WriteControlRegister
  <2>3. LinesOK'
    BY <1>7, Unchanged DEF WriteControlRegister, gic
  <2>4. GrantedOK'
    BY <1>7, Unchanged DEF WriteControlRegister, history
  <2>5. ThreadOK'
    BY <1>7 DEF WriteControlRegister, ThreadOK, Goto, thread
  <2>6. CallFits'
    BY <1>7 DEF WriteControlRegister, CallFits, Configuring, Unregistering, Goto, thread
  <2>7. BlinksFit'
    BY <1>7 DEF WriteControlRegister, BlinksFit, Goto, thread
  <2>8. RequestFits' /\ CalledFits'
    BY <1>7 DEF WriteControlRegister, RequestFits, CalledFits, Goto, gic, thread
  <2> QED  BY <2>1, <2>2, <2>3, <2>4, <2>5, <2>6, <2>7, <2>8, TypeParts DEF TypeInv
<1>8. CASE WriteValueRegister
  <2>0. call.params \in ConfigParams /\ call.params.PinNumber \in Pins
    BY <1>8, AnyParamsType DEF WriteValueRegister, CallFits, Configuring, Goto, ConfigParams
  <2>1. PinsTypeOK'
    <3>1. WritesValue(call.params) => call.params.OutputValue \in Values
      BY <2>0, ValueType
    <3> QED  BY <1>8, <2>0, <3>1 DEF WriteValueRegister, WriteValue, PinsTypeOK
  <2>2. PdcTypeOK'
    BY <1>8, Unchanged DEF WriteValueRegister
  <2>3. LinesOK'
    BY <1>8, Unchanged DEF WriteValueRegister, gic
  <2>4. GrantedOK'
    BY <1>8, Unchanged DEF WriteValueRegister, history
  <2>5. ThreadOK'
    BY <1>8 DEF WriteValueRegister, ThreadOK, Goto, thread
  <2>6. CallFits'
    BY <1>8 DEF WriteValueRegister, CallFits, Configuring, Unregistering, Goto, thread
  <2>7. BlinksFit'
    BY <1>8 DEF WriteValueRegister, BlinksFit, Goto, thread
  <2>8. RequestFits' /\ CalledFits'
    BY <1>8 DEF WriteValueRegister, RequestFits, CalledFits, Goto, gic, thread
  <2> QED  BY <2>1, <2>2, <2>3, <2>4, <2>5, <2>6, <2>7, <2>8, TypeParts DEF TypeInv
<1>9. CASE ConfigDone
  <2>0. /\ pc' \in {"install", "unloaded", "blink", "idle"} /\ call' = None /\ read' = None
        /\ blinks' = blinks /\ BlinksFit'
    BY <1>9, ReturnFits DEF ConfigDone
  <2>1. PinsTypeOK'
    BY <1>9, Unchanged DEF ConfigDone
  <2>2. PdcTypeOK'
    BY <1>9, Unchanged DEF ConfigDone
  <2>3. LinesOK'
    BY <1>9, Unchanged DEF ConfigDone, gic
  <2>4. GrantedOK'
    BY <1>9, Unchanged DEF ConfigDone
  <2>5. ThreadOK'
    BY <2>0 DEF ThreadOK
  <2>6. CallFits'
    BY <2>0 DEF CallFits, Configuring, Unregistering
  <2>7. BlinksFit'
    BY <2>0
  <2>8. RequestFits' /\ CalledFits'
    BY <2>0, <1>9 DEF ConfigDone, RequestFits, CalledFits, Return, Goto, gic, Registry!Reply
  <2> QED  BY <2>1, <2>2, <2>3, <2>4, <2>5, <2>6, <2>7, <2>8, TypeParts DEF TypeInv
<1>10. CASE \E p \in PdcPins, type \in Types : RegisterGpioIrq(p, type)
  <2>1. PinsTypeOK'
    BY <1>10, Unchanged DEF RegisterGpioIrq
  <2>2. PdcTypeOK'
    BY <1>10, Unchanged DEF RegisterGpioIrq
  <2>3. LinesOK'
    BY <1>10, Unchanged DEF RegisterGpioIrq, gic
  <2>4. GrantedOK'
    BY <1>10, Unchanged DEF RegisterGpioIrq, history
  <2>5. ThreadOK'
    BY <1>10 DEF RegisterGpioIrq, ThreadOK, Goto, Calls
  <2>6. CallFits'
    BY <1>10 DEF RegisterGpioIrq, CallFits, Configuring, Unregistering, Goto, thread
  <2>7. BlinksFit'
    BY <1>10 DEF RegisterGpioIrq, BlinksFit, Goto, thread
  <2>8. RequestFits' /\ CalledFits'
    BY <1>10 DEF RegisterGpioIrq, RequestFits, CalledFits, Goto, gic, thread
  <2> QED  BY <2>1, <2>2, <2>3, <2>4, <2>5, <2>6, <2>7, <2>8, TypeParts DEF TypeInv
<1>11. CASE PinNotMapped
  <2>0. /\ pc' \in {"install", "unloaded", "blink", "idle"} /\ call' = None /\ read' = None
        /\ blinks' = blinks /\ BlinksFit'
    BY <1>11, ReturnFits DEF PinNotMapped
  <2>1. PinsTypeOK'
    BY <1>11, Unchanged DEF PinNotMapped
  <2>2. PdcTypeOK'
    BY <1>11, Unchanged DEF PinNotMapped
  <2>3. LinesOK'
    BY <1>11, Unchanged DEF PinNotMapped, gic
  <2>4. GrantedOK'
    BY <1>11, Unchanged DEF PinNotMapped, history
  <2>5. ThreadOK'
    BY <2>0 DEF ThreadOK
  <2>6. CallFits'
    BY <2>0 DEF CallFits, Configuring, Unregistering
  <2>7. BlinksFit'
    BY <2>0
  <2>8. RequestFits' /\ CalledFits'
    BY <2>0, <1>11 DEF PinNotMapped, RequestFits, CalledFits, Return, Goto, gic, Registry!Reply
  <2> QED  BY <2>1, <2>2, <2>3, <2>4, <2>5, <2>6, <2>7, <2>8, TypeParts DEF TypeInv
<1>12. CASE TypeNotSet
  <2>0. /\ pc' \in {"install", "unloaded", "blink", "idle"} /\ call' = None /\ read' = None
        /\ blinks' = blinks /\ BlinksFit'
    BY <1>12, ReturnFits DEF TypeNotSet
  <2>0a. call.pin \in Registrable /\ PdcPinNumber[call.pin] \in MappedPins /\ call.type \in TriggerTypes
    <3>1. call.pin \in PdcPins /\ call.type \in Types /\ IrqOf(call.pin) # NotFound
      BY <1>12 DEF TypeNotSet, Return, CallFits, Goto
    <3>2. call.pin \in Registrable
      BY <3>1 DEF Registrable, IrqOf
    <3> QED  BY <3>1, <3>2, RegistrablePin, TypesAssumption
  <2>1. PinsTypeOK'
    BY <1>12, Unchanged DEF TypeNotSet
  <2>2. PdcTypeOK'
    <3>1. PICK pin \in MappedPins, type \in TriggerTypes :
            pin = PdcPinNumber[call.pin] /\ type = call.type
      BY <2>0a
    <3>2. PdcGicSetType(pin, type)
      BY <1>12, <3>1 DEF TypeNotSet
    <3> QED  BY <3>2, PdcTypes
  <2>3. LinesOK'
    BY <1>12, Unchanged DEF TypeNotSet, gic
  <2>4. GrantedOK'
    BY <1>12, Unchanged DEF TypeNotSet, history
  <2>5. ThreadOK'
    BY <2>0 DEF ThreadOK
  <2>6. CallFits'
    BY <2>0 DEF CallFits, Configuring, Unregistering
  <2>7. BlinksFit'
    BY <2>0
  <2>8. RequestFits' /\ CalledFits'
    BY <2>0, <1>12 DEF TypeNotSet, RequestFits, CalledFits, Return, Goto, gic, Registry!Reply
  <2> QED  BY <2>1, <2>2, <2>3, <2>4, <2>5, <2>6, <2>7, <2>8, TypeParts DEF TypeInv
<1>13. CASE SetType
  <2>0. call.pin \in Registrable /\ PdcPinNumber[call.pin] \in MappedPins /\ call.type \in TriggerTypes
    <3>1. call.pin \in PdcPins /\ call.type \in Types /\ IrqOf(call.pin) # NotFound
      BY <1>13 DEF SetType, Return, CallFits, Goto
    <3>2. call.pin \in Registrable
      BY <3>1 DEF Registrable, IrqOf
    <3> QED  BY <3>1, <3>2, RegistrablePin, TypesAssumption
  <2>1. PinsTypeOK'
    BY <1>13, Unchanged DEF SetType
  <2>2. PdcTypeOK'
    <3>1. PICK pin \in MappedPins, type \in TriggerTypes :
            pin = PdcPinNumber[call.pin] /\ type = call.type
      BY <2>0
    <3>2. PdcGicSetType(pin, type)
      BY <1>13, <3>1 DEF SetType
    <3> QED  BY <3>2, PdcTypes
  <2>3. LinesOK'
    BY <1>13, Unchanged DEF SetType, gic
  <2>4. GrantedOK'
    BY <1>13, Unchanged DEF SetType, history
  <2>5. ThreadOK'
    BY <1>13 DEF SetType, ThreadOK, Goto, thread
  <2>6. CallFits'
    BY <1>13, <2>0 DEF SetType, CallFits, Configuring, Unregistering, Goto
  <2>7. BlinksFit'
    BY <1>13 DEF SetType, BlinksFit, Goto, thread
  <2>8. RequestFits' /\ CalledFits'
    BY <1>13 DEF SetType, RequestFits, CalledFits, Goto, gic, thread
  <2> QED  BY <2>1, <2>2, <2>3, <2>4, <2>5, <2>6, <2>7, <2>8, TypeParts DEF TypeInv
<1>14. CASE EnablePin
  <2>0. call.op = "register" /\ call.pin \in Registrable /\ PdcPinNumber[call.pin] \in MappedPins
    BY <1>14, RegistrablePin DEF EnablePin, CallFits, Goto
  <2>1. PinsTypeOK'
    BY <1>14, Unchanged DEF EnablePin
  <2>2. PdcTypeOK'
    <3>1. PICK pin \in MappedPins : pin = PdcPinNumber[call.pin]
      BY <2>0
    <3>2. PdcEnableInterrupt(pin, TRUE)
      BY <1>14, <3>1 DEF EnablePin
    <3>3. TRUE \in BOOLEAN
      OBVIOUS
    <3> QED  BY <3>2, <3>3, PdcTypes
  <2>3. LinesOK'
    BY <1>14, Unchanged DEF EnablePin, gic
  <2>4. GrantedOK'
    BY <1>14, Unchanged DEF EnablePin, history
  <2>5. ThreadOK'
    BY <1>14 DEF EnablePin, ThreadOK, Goto, thread
  <2>6. CallFits'
    BY <1>14 DEF EnablePin, CallFits, Configuring, Unregistering, Goto, thread
  <2>7. BlinksFit'
    BY <1>14, <2>0 DEF EnablePin, BlinksFit, Goto
  <2>8. RequestFits' /\ CalledFits'
    BY <1>14 DEF EnablePin, RequestFits, CalledFits, Goto, gic, thread
  <2> QED  BY <2>1, <2>2, <2>3, <2>4, <2>5, <2>6, <2>7, <2>8, TypeParts DEF TypeInv
<1>15. CASE CrRegisterInterrupt
  <2>1. PinsTypeOK'
    BY <1>15, Unchanged DEF CrRegisterInterrupt
  <2>2. PdcTypeOK'
    BY <1>15, Unchanged DEF CrRegisterInterrupt
  <2>3. LinesOK'
    BY <1>15, Unchanged DEF CrRegisterInterrupt, Registry!Ask
  <2>4. GrantedOK'
    BY <1>15, Unchanged DEF CrRegisterInterrupt, history
  <2>5. ThreadOK'
    BY <1>15 DEF CrRegisterInterrupt, ThreadOK, Goto, thread
  <2>6. CallFits'
    BY <1>15 DEF CrRegisterInterrupt, CallFits, Configuring, Unregistering, Goto, thread
  <2>7. BlinksFit'
    BY <1>15 DEF CrRegisterInterrupt, BlinksFit, Goto, thread
  <2>8. RequestFits' /\ CalledFits'
    BY <1>15 DEF CrRegisterInterrupt, RequestFits, CalledFits, Goto, Irq, Handler, Registry!Ask
  <2> QED  BY <2>1, <2>2, <2>3, <2>4, <2>5, <2>6, <2>7, <2>8, TypeParts DEF TypeInv
<1>16. CASE EntryTaken
  <2>0. /\ Irq \in Irqs /\ Handler \in Handlers
        /\ request = [op |-> "add", source |-> Irq, handler |-> Handler, param |-> Handler]
    BY <1>16, RegistrationFits DEF EntryTaken, Goto, RequestFits
  <2>1. PinsTypeOK'
    BY <1>16, Unchanged DEF EntryTaken
  <2>2. PdcTypeOK'
    BY <1>16, Unchanged DEF EntryTaken
  <2>3. LinesOK'
    <3>1. queue' = [queue EXCEPT ![Irq] = Append(@, <<Handler, Handler>>)]
      BY <1>16, <2>0 DEF EntryTaken, Registry!Add
    <3>2. Append(queue[Irq], <<Handler, Handler>>) \in Seq(Handlers \X Handlers)
      BY <2>0, AppendProperties DEF LinesOK
    <3> QED  BY <1>16, <2>0, <3>1, <3>2 DEF EntryTaken, LinesOK
  <2>4. GrantedOK'
    BY <1>16, Unchanged DEF EntryTaken, history
  <2>5. ThreadOK'
    BY <1>16 DEF EntryTaken, ThreadOK, Goto, thread
  <2>6. CallFits'
    BY <1>16 DEF EntryTaken, CallFits, Configuring, Unregistering, Goto, thread
  <2>7. BlinksFit'
    BY <1>16 DEF EntryTaken, BlinksFit, Goto, thread
  <2>8. RequestFits' /\ CalledFits'
    BY <1>16 DEF EntryTaken, RequestFits, CalledFits, Goto, Registry!Add
  <2> QED  BY <2>1, <2>2, <2>3, <2>4, <2>5, <2>6, <2>7, <2>8, TypeParts DEF TypeInv
<1>17. CASE NoFreeEntry
  <2>0. /\ pc' \in {"install", "unloaded", "blink", "idle"} /\ call' = None /\ read' = None
        /\ blinks' = blinks /\ BlinksFit'
    BY <1>17, ReturnFits DEF NoFreeEntry
  <2>1. PinsTypeOK'
    BY <1>17, Unchanged DEF NoFreeEntry
  <2>2. PdcTypeOK'
    BY <1>17, Unchanged DEF NoFreeEntry
  <2>3. LinesOK'
    BY <1>17, Unchanged DEF NoFreeEntry, Registry!Reply
  <2>4. GrantedOK'
    BY <1>17, Unchanged DEF NoFreeEntry, history
  <2>5. ThreadOK'
    BY <2>0 DEF ThreadOK
  <2>6. CallFits'
    BY <2>0 DEF CallFits, Configuring, Unregistering
  <2>7. BlinksFit'
    BY <2>0
  <2>8. RequestFits' /\ CalledFits'
    BY <2>0, <1>17 DEF NoFreeEntry, RequestFits, CalledFits, Return, Goto, gic, Registry!Reply
  <2> QED  BY <2>1, <2>2, <2>3, <2>4, <2>5, <2>6, <2>7, <2>8, TypeParts DEF TypeInv
<1>18. CASE LineReady
  <2>0. /\ pc' \in {"install", "unloaded", "blink", "idle"} /\ call' = None /\ read' = None
        /\ blinks' = blinks /\ BlinksFit'
    BY <1>18, ReturnFits DEF LineReady
  <2>1. PinsTypeOK'
    BY <1>18, Unchanged DEF LineReady
  <2>2. PdcTypeOK'
    BY <1>18, Unchanged DEF LineReady
  <2>3. LinesOK'
    <3>1. Irq \in Irqs /\ LineType \in {"LEVEL_HIGH", "EDGE_RISING"}
      BY <1>18, RegistrationFits DEF LineReady, Return, Goto
    <3> QED  BY <1>18, <3>1 DEF LineReady, LinesOK, Registry!Reply
  <2>4. GrantedOK'
    <3>1. call.op = "register" => call.type \in Types
      BY <1>18 DEF LineReady, Return, Goto, CallFits
    <3> QED  BY <1>18, <3>1 DEF LineReady, Granted, GrantedOK
  <2>5. ThreadOK'
    BY <2>0 DEF ThreadOK
  <2>6. CallFits'
    BY <2>0 DEF CallFits, Configuring, Unregistering
  <2>7. BlinksFit'
    BY <2>0
  <2>8. RequestFits' /\ CalledFits'
    BY <2>0, <1>18 DEF LineReady, RequestFits, CalledFits, Return, Goto, gic, Registry!Reply
  <2> QED  BY <2>1, <2>2, <2>3, <2>4, <2>5, <2>6, <2>7, <2>8, TypeParts DEF TypeInv
<1>19. CASE LineFails
  <2>0. /\ pc' \in {"install", "unloaded", "blink", "idle"} /\ call' = None /\ read' = None
        /\ blinks' = blinks /\ BlinksFit'
    BY <1>19, ReturnFits DEF LineFails
  <2>1. PinsTypeOK'
    BY <1>19, Unchanged DEF LineFails
  <2>2. PdcTypeOK'
    BY <1>19, Unchanged DEF LineFails
  <2>3. LinesOK'
    <3>1. Irq \in Irqs /\ LineType \in {"LEVEL_HIGH", "EDGE_RISING"}
      BY <1>19, RegistrationFits DEF LineFails, Return, Goto
    <3> QED  BY <1>19, <3>1 DEF LineFails, LinesOK, Registry!Reply
  <2>4. GrantedOK'
    BY <1>19, Unchanged DEF LineFails, history
  <2>5. ThreadOK'
    BY <2>0 DEF ThreadOK
  <2>6. CallFits'
    BY <2>0 DEF CallFits, Configuring, Unregistering
  <2>7. BlinksFit'
    BY <2>0
  <2>8. RequestFits' /\ CalledFits'
    BY <2>0, <1>19 DEF LineFails, RequestFits, CalledFits, Return, Goto, gic, Registry!Reply
  <2> QED  BY <2>1, <2>2, <2>3, <2>4, <2>5, <2>6, <2>7, <2>8, TypeParts DEF TypeInv
<1>20. CASE \E p \in PdcPins : UnregisterPin(p)
  <2>1. PinsTypeOK'
    BY <1>20, Unchanged DEF UnregisterPin
  <2>2. PdcTypeOK'
    BY <1>20, Unchanged DEF UnregisterPin
  <2>3. LinesOK'
    BY <1>20, Unchanged DEF UnregisterPin, gic
  <2>4. GrantedOK'
    BY <1>20, Unchanged DEF UnregisterPin, history
  <2>5. ThreadOK'
    BY <1>20 DEF UnregisterPin, ThreadOK, Goto, Calls
  <2>6. CallFits'
    BY <1>20 DEF UnregisterPin, CallFits, Configuring, Unregistering, Goto, thread
  <2>7. BlinksFit'
    BY <1>20 DEF UnregisterPin, BlinksFit, Goto, thread
  <2>8. RequestFits' /\ CalledFits'
    BY <1>20 DEF UnregisterPin, RequestFits, CalledFits, Goto, gic, thread
  <2> QED  BY <2>1, <2>2, <2>3, <2>4, <2>5, <2>6, <2>7, <2>8, TypeParts DEF TypeInv
<1>21. CASE NothingMapped
  <2>0. /\ pc' \in {"install", "unloaded", "blink", "idle"} /\ call' = None /\ read' = None
        /\ blinks' = blinks /\ BlinksFit'
    BY <1>21, ReturnFits DEF NothingMapped
  <2>1. PinsTypeOK'
    BY <1>21, Unchanged DEF NothingMapped
  <2>2. PdcTypeOK'
    BY <1>21, Unchanged DEF NothingMapped
  <2>3. LinesOK'
    BY <1>21, Unchanged DEF NothingMapped, gic
  <2>4. GrantedOK'
    BY <1>21, Unchanged DEF NothingMapped, history
  <2>5. ThreadOK'
    BY <2>0 DEF ThreadOK
  <2>6. CallFits'
    BY <2>0 DEF CallFits, Configuring, Unregistering
  <2>7. BlinksFit'
    BY <2>0
  <2>8. RequestFits' /\ CalledFits'
    BY <2>0, <1>21 DEF NothingMapped, RequestFits, CalledFits, Return, Goto, gic, Registry!Reply
  <2> QED  BY <2>1, <2>2, <2>3, <2>4, <2>5, <2>6, <2>7, <2>8, TypeParts DEF TypeInv
<1>22. CASE DisablePin
  <2>0. call.pin \in Registrable /\ PdcPinNumber[call.pin] \in MappedPins
    <3>1. call.pin \in PdcPins /\ IrqOf(call.pin) # NotFound
      BY <1>22 DEF DisablePin, CallFits, Goto, Unregistering
    <3>2. call.pin \in Registrable
      BY <3>1 DEF Registrable, IrqOf
    <3> QED  BY <3>2, RegistrablePin
  <2>1. PinsTypeOK'
    BY <1>22, Unchanged DEF DisablePin
  <2>2. PdcTypeOK'
    <3>1. PICK pin \in MappedPins : pin = PdcPinNumber[call.pin]
      BY <2>0
    <3>2. PdcEnableInterrupt(pin, FALSE)
      BY <1>22, <3>1 DEF DisablePin
    <3>3. FALSE \in BOOLEAN
      OBVIOUS
    <3> QED  BY <3>2, <3>3, PdcTypes
  <2>3. LinesOK'
    BY <1>22, Unchanged DEF DisablePin, gic
  <2>4. GrantedOK'
    BY <1>22 DEF DisablePin, GrantedOK
  <2>5. ThreadOK'
    BY <1>22 DEF DisablePin, ThreadOK, Goto, thread
  <2>6. CallFits'
    BY <1>22, <2>0 DEF DisablePin, CallFits, Configuring, Unregistering, Goto
  <2>7. BlinksFit'
    BY <1>22 DEF DisablePin, BlinksFit, Goto, thread
  <2>8. RequestFits' /\ CalledFits'
    BY <1>22 DEF DisablePin, RequestFits, CalledFits, Goto, gic, thread
  <2> QED  BY <2>1, <2>2, <2>3, <2>4, <2>5, <2>6, <2>7, <2>8, TypeParts DEF TypeInv
<1>23. CASE CrUnregisterInterrupt
  <2>1. PinsTypeOK'
    BY <1>23, Unchanged DEF CrUnregisterInterrupt
  <2>2. PdcTypeOK'
    BY <1>23, Unchanged DEF CrUnregisterInterrupt
  <2>3. LinesOK'
    BY <1>23, Unchanged DEF CrUnregisterInterrupt, Registry!Ask
  <2>4. GrantedOK'
    BY <1>23, Unchanged DEF CrUnregisterInterrupt, history
  <2>5. ThreadOK'
    BY <1>23 DEF CrUnregisterInterrupt, ThreadOK, Goto, thread
  <2>6. CallFits'
    BY <1>23 DEF CrUnregisterInterrupt, CallFits, Configuring, Unregistering, Goto, thread
  <2>7. BlinksFit'
    BY <1>23 DEF CrUnregisterInterrupt, BlinksFit, Goto, thread
  <2>8. RequestFits' /\ CalledFits'
    BY <1>23 DEF CrUnregisterInterrupt, RequestFits, CalledFits, Goto, Registry!Ask
  <2> QED  BY <2>1, <2>2, <2>3, <2>4, <2>5, <2>6, <2>7, <2>8, TypeParts DEF TypeInv
<1>24. CASE EntryDropped
  <2>0. /\ request = [op |-> "remove", source |-> IrqOf(call.pin)]
        /\ call.pin \in Registrable /\ IrqOf(call.pin) \in Irqs
    <3>1. request = [op |-> "remove", source |-> IrqOf(call.pin)]
      BY <1>24 DEF EntryDropped, RequestFits, Registry!Remove, Registry!Done
    <3> QED  BY <1>24, <3>1 DEF EntryDropped, CallFits, Unregistering, Irqs
  <2>1. PinsTypeOK'
    BY <1>24, Unchanged DEF EntryDropped
  <2>2. PdcTypeOK'
    BY <1>24, Unchanged DEF EntryDropped
  <2>3. LinesOK'
    <3>1. /\ queue' = [queue EXCEPT ![IrqOf(call.pin)] = Tail(@)]
          /\ queue[IrqOf(call.pin)] # <<>>
      BY <1>24, <2>0 DEF EntryDropped, Registry!Remove
    <3>2. Tail(queue[IrqOf(call.pin)]) \in Seq(Handlers \X Handlers)
      BY <2>0, <3>1, HeadTailProperties DEF LinesOK
    <3> QED  BY <1>24, <2>0, <3>1, <3>2 DEF EntryDropped, LinesOK
  <2>4. GrantedOK'
    BY <1>24, Unchanged DEF EntryDropped, history
  <2>5. ThreadOK'
    BY <1>24 DEF EntryDropped, ThreadOK, Goto, thread
  <2>6. CallFits'
    BY <1>24 DEF EntryDropped, CallFits, Configuring, Unregistering, Goto, thread
  <2>7. BlinksFit'
    BY <1>24 DEF EntryDropped, BlinksFit, Goto, thread
  <2>8. RequestFits' /\ CalledFits'
    BY <1>24 DEF EntryDropped, RequestFits, CalledFits, thread, Registry!Remove, Registry!Done
  <2> QED  BY <2>1, <2>2, <2>3, <2>4, <2>5, <2>6, <2>7, <2>8, TypeParts DEF TypeInv
<1>25. CASE NoEntry
  <2>0. /\ pc' \in {"install", "unloaded", "blink", "idle"} /\ call' = None /\ read' = None
        /\ blinks' = blinks /\ BlinksFit'
    BY <1>25, ReturnFits DEF NoEntry
  <2>1. PinsTypeOK'
    BY <1>25, Unchanged DEF NoEntry
  <2>2. PdcTypeOK'
    BY <1>25, Unchanged DEF NoEntry
  <2>3. LinesOK'
    BY <1>25, Unchanged DEF NoEntry, Registry!Reply
  <2>4. GrantedOK'
    BY <1>25, Unchanged DEF NoEntry, history
  <2>5. ThreadOK'
    BY <2>0 DEF ThreadOK
  <2>6. CallFits'
    BY <2>0 DEF CallFits, Configuring, Unregistering
  <2>7. BlinksFit'
    BY <2>0
  <2>8. RequestFits' /\ CalledFits'
    BY <2>0, <1>25 DEF NoEntry, RequestFits, CalledFits, Return, Goto, gic, Registry!Reply
  <2> QED  BY <2>1, <2>2, <2>3, <2>4, <2>5, <2>6, <2>7, <2>8, TypeParts DEF TypeInv
<1>26. CASE LineDisabled
  <2>0. /\ pc' \in {"install", "unloaded", "blink", "idle"} /\ call' = None /\ read' = None
        /\ blinks' = blinks /\ BlinksFit'
    BY <1>26, ReturnFits DEF LineDisabled
  <2>1. PinsTypeOK'
    BY <1>26, Unchanged DEF LineDisabled
  <2>2. PdcTypeOK'
    BY <1>26, Unchanged DEF LineDisabled
  <2>3. LinesOK'
    BY <1>26 DEF LineDisabled, LinesOK, Registry!Reply
  <2>4. GrantedOK'
    BY <1>26, Unchanged DEF LineDisabled, history
  <2>5. ThreadOK'
    BY <2>0 DEF ThreadOK
  <2>6. CallFits'
    BY <2>0 DEF CallFits, Configuring, Unregistering
  <2>7. BlinksFit'
    BY <2>0
  <2>8. RequestFits' /\ CalledFits'
    BY <2>0, <1>26 DEF LineDisabled, RequestFits, CalledFits, Return, Goto, gic, Registry!Reply
  <2> QED  BY <2>1, <2>2, <2>3, <2>4, <2>5, <2>6, <2>7, <2>8, TypeParts DEF TypeInv
<1>27. CASE \E irq \in Irqs : Interrupt(irq)
  <2>1. PinsTypeOK'
    BY <1>27, Unchanged DEF Interrupt
  <2>2. PdcTypeOK'
    BY <1>27, Unchanged DEF Interrupt
  <2>3. LinesOK'
    BY <1>27, Unchanged DEF Interrupt, Registry!Interrupt
  <2>4. GrantedOK'
    BY <1>27, Unchanged DEF Interrupt, history
  <2>5. ThreadOK'
    BY <1>27 DEF Interrupt, ThreadOK, Goto, thread
  <2>6. CallFits'
    BY <1>27 DEF Interrupt, CallFits, Configuring, Unregistering, Goto, thread
  <2>7. BlinksFit'
    BY <1>27 DEF Interrupt, BlinksFit, Goto, thread
  <2>8. RequestFits' /\ CalledFits'
    <3>1. PICK irq \in Irqs : Interrupt(irq)
      BY <1>27
    <3>2. Head(queue[irq]) \in Handlers \X Handlers
      BY <3>1, HeadTailProperties DEF Interrupt, Registry!Interrupt, LinesOK
    <3>3. called' \in Irqs \X Handlers \X Handlers
      BY <3>1, <3>2 DEF Interrupt, Registry!Interrupt
    <3> QED  BY <3>1, <3>3 DEF Interrupt, Registry!Interrupt, RequestFits, CalledFits, thread, Irq,
                Handler
  <2> QED  BY <2>1, <2>2, <2>3, <2>4, <2>5, <2>6, <2>7, <2>8, TypeParts DEF TypeInv
<1>28. CASE \E v \in Values : HandlerSetsIoValue(v)
  <2>1. PinsTypeOK'
    <3>1. PICK v \in Values : GpioSetConfig(SetIoValue(HandlerPin, v))
      BY <1>28 DEF HandlerSetsIoValue
    <3> QED  BY <3>1, HandlerSets
  <2>2. PdcTypeOK'
    BY <1>28, Unchanged DEF HandlerSetsIoValue
  <2>3. LinesOK'
    BY <1>28, Unchanged DEF HandlerSetsIoValue, gic
  <2>4. GrantedOK'
    BY <1>28, Unchanged DEF HandlerSetsIoValue
  <2>5. ThreadOK'
    BY <1>28 DEF HandlerSetsIoValue, ThreadOK, Goto, thread
  <2>6. CallFits'
    BY <1>28 DEF HandlerSetsIoValue, CallFits, Configuring, Unregistering, Goto, thread
  <2>7. BlinksFit'
    BY <1>28 DEF HandlerSetsIoValue, BlinksFit, Goto, thread
  <2>8. RequestFits' /\ CalledFits'
    BY <1>28 DEF HandlerSetsIoValue, RequestFits, CalledFits, gic, thread, Irq, Handler
  <2> QED  BY <2>1, <2>2, <2>3, <2>4, <2>5, <2>6, <2>7, <2>8, TypeParts DEF TypeInv
<1>29. CASE HandlerReturns
  <2>1. PinsTypeOK'
    BY <1>29, Unchanged DEF HandlerReturns
  <2>2. PdcTypeOK'
    BY <1>29, Unchanged DEF HandlerReturns
  <2>3. LinesOK'
    BY <1>29, Unchanged DEF HandlerReturns, Registry!Return
  <2>4. GrantedOK'
    BY <1>29, Unchanged DEF HandlerReturns, history
  <2>5. ThreadOK'
    BY <1>29 DEF HandlerReturns, ThreadOK, Goto, thread
  <2>6. CallFits'
    BY <1>29 DEF HandlerReturns, CallFits, Configuring, Unregistering, Goto, thread
  <2>7. BlinksFit'
    BY <1>29 DEF HandlerReturns, BlinksFit, Goto, thread
  <2>8. RequestFits' /\ CalledFits'
    BY <1>29 DEF HandlerReturns, RequestFits, CalledFits, thread, Registry!Return, Irq, Handler
  <2> QED  BY <2>1, <2>2, <2>3, <2>4, <2>5, <2>6, <2>7, <2>8, TypeParts DEF TypeInv
<1>30. CASE UNCHANGED vars
  <2>1. TypeOK'
    BY <1>30, Unchanged, TypeParts DEF vars, pinVars, pdcVars, gic, thread, history, ThreadOK
  <2>2. CallFits' /\ BlinksFit' /\ RequestFits' /\ CalledFits'
    BY <1>30 DEF vars, gic, thread, history, CallFits, Configuring, Unregistering, BlinksFit,
                 RequestFits, CalledFits, Irq, Handler
  <2> QED  BY <2>1, <2>2
<1> QED
  BY <1>1, <1>2, <1>3, <1>4, <1>5, <1>6, <1>7, <1>8, <1>9, <1>10, <1>11, <1>12, <1>13, <1>14,
     <1>15, <1>16, <1>17, <1>18, <1>19, <1>20, <1>21, <1>22, <1>23, <1>24, <1>25, <1>26, <1>27,
     <1>28, <1>29, <1>30
     DEF Next, Entry, Config, Register, Unregister

\* Each variable has its type in every reachable state.
THEOREM GpioTypeCorrect == Spec => []TypeOK
<1>1. TypeInv => TypeOK
  BY DEF TypeInv
<1> QED  BY <1>1, TypeInvInit, TypeInvNext, PTL DEF Spec

-----------------------------------------------------------------------------
(* A pin and its interrupt agree.                                          *)

chainVars == <<enableBank, irqCfg, queue, lineType, lineEnabled, granted>>

\* What the chains are made of left alone, they stay.
LEMMA GrantsKept == Grants /\ UNCHANGED chainVars => Grants'
BY DEF Grants, Chained, TypeSet, PassedOn, HasHandler, LineSet, PdcEnabled, chainVars

\* No pin is granted at first.
LEMMA ChainInvInit == Init => ChainInv
BY DEF Init, ChainInv, Grants, NoneYet, Progress, Withdrawn, Registering

\* Every step keeps the chains: a registration grants its pin when all is
\* done, and an unregistration withdraws it before it undoes anything.
LEMMA ChainInvNext == TypeInv /\ ChainInv /\ [Next]_vars => ChainInv'
<1> SUFFICES ASSUME TypeInv, ChainInv, [Next]_vars
             PROVE  ChainInv'
  OBVIOUS
<1>0. /\ PdcTypeOK /\ LinesOK /\ GrantedOK /\ CallFits /\ RequestFits
      /\ Grants /\ NoneYet /\ Progress /\ Withdrawn
  BY TypeParts DEF TypeInv, ChainInv
<1> USE <1>0 DEF ChainInv
<1>1. CASE GpioLibInit
  <2>1. UNCHANGED chainVars
    BY <1>1 DEF GpioLibInit, Goto, pinVars, pdcVars, gic, thread, history, chainVars, Return,
       Registry!Ask, Registry!Reply, Registry!Interrupt, Registry!Return
  <2>2. NoneYet' /\ Progress' /\ Withdrawn'
    BY <1>1, <2>1 DEF GpioLibInit, Goto, pinVars, pdcVars, gic, thread, history, chainVars, Return,
       Registry!Ask, Registry!Reply, Registry!Interrupt, Registry!Return, NoneYet, Progress,
       Withdrawn, Registering, TypeSet, PassedOn, HasHandler, PdcEnabled
  <2> QED  BY <2>1, <2>2, GrantsKept
<1>2. CASE NoTarget
  <2>1. UNCHANGED chainVars
    BY <1>2 DEF NoTarget, Goto, pinVars, pdcVars, gic, thread, history, chainVars, Return,
       Registry!Ask, Registry!Reply, Registry!Interrupt, Registry!Return
  <2>2. NoneYet' /\ Progress' /\ Withdrawn'
    BY <1>2, <2>1 DEF NoTarget, Goto, pinVars, pdcVars, gic, thread, history, chainVars, Return,
       Registry!Ask, Registry!Reply, Registry!Interrupt, Registry!Return, NoneYet, Progress,
       Withdrawn, Registering, TypeSet, PassedOn, HasHandler, PdcEnabled
  <2> QED  BY <2>1, <2>2, GrantsKept
<1>3. CASE Install
  <2>1. UNCHANGED chainVars
    BY <1>3 DEF Install, Goto, pinVars, pdcVars, gic, thread, history, chainVars, Return,
       Registry!Ask, Registry!Reply, Registry!Interrupt, Registry!Return
  <2>2. NoneYet' /\ Progress' /\ Withdrawn'
    BY <1>3, <2>1 DEF Install, Goto, pinVars, pdcVars, gic, thread, history, chainVars, Return,
       Registry!Ask, Registry!Reply, Registry!Interrupt, Registry!Return, NoneYet, Progress,
       Withdrawn, Registering, TypeSet, PassedOn, HasHandler, PdcEnabled
  <2> QED  BY <2>1, <2>2, GrantsKept
<1>4. CASE Blink
  <2>1. UNCHANGED chainVars
    BY <1>4 DEF Blink, GpioConfig, Goto, pinVars, pdcVars, gic, thread, history, chainVars, Return,
       Registry!Ask, Registry!Reply, Registry!Interrupt, Registry!Return
  <2>2. NoneYet' /\ Progress' /\ Withdrawn'
    BY <1>4, <2>1 DEF Blink, GpioConfig, Goto, pinVars, pdcVars, gic, thread, history, chainVars,
       Return, Registry!Ask, Registry!Reply, Registry!Interrupt, Registry!Return, NoneYet,
       Progress, Withdrawn, Registering, TypeSet, PassedOn, HasHandler, PdcEnabled
  <2> QED  BY <2>1, <2>2, GrantsKept
<1>5. CASE \E params \in Params : ProtocolGpioConfig(params)
  <2>1. UNCHANGED chainVars
    BY <1>5 DEF ProtocolGpioConfig, GpioConfig, Goto, pinVars, pdcVars, gic, thread, history,
       chainVars, Return, Registry!Ask, Registry!Reply, Registry!Interrupt, Registry!Return
  <2>2. NoneYet' /\ Progress' /\ Withdrawn'
    BY <1>5, <2>1 DEF ProtocolGpioConfig, GpioConfig, Goto, pinVars, pdcVars, gic, thread, history,
       chainVars, Return, Registry!Ask, Registry!Reply, Registry!Interrupt, Registry!Return,
       NoneYet, Progress, Withdrawn, Registering, TypeSet, PassedOn, HasHandler, PdcEnabled
  <2> QED  BY <2>1, <2>2, GrantsKept
<1>6. CASE WriteControlRegister
  <2>1. UNCHANGED chainVars
    BY <1>6 DEF WriteControlRegister, Goto, pinVars, pdcVars, gic, thread, history, chainVars,
       Return, Registry!Ask, Registry!Reply, Registry!Interrupt, Registry!Return
  <2>2. NoneYet' /\ Progress' /\ Withdrawn'
    BY <1>6, <2>1 DEF WriteControlRegister, Goto, pinVars, pdcVars, gic, thread, history,
       chainVars, Return, Registry!Ask, Registry!Reply, Registry!Interrupt, Registry!Return,
       NoneYet, Progress, Withdrawn, Registering, TypeSet, PassedOn, HasHandler, PdcEnabled
  <2> QED  BY <2>1, <2>2, GrantsKept
<1>7. CASE WriteValueRegister
  <2>1. UNCHANGED chainVars
    BY <1>7 DEF WriteValueRegister, Goto, pinVars, pdcVars, gic, thread, history, chainVars,
       Return, Registry!Ask, Registry!Reply, Registry!Interrupt, Registry!Return
  <2>2. NoneYet' /\ Progress' /\ Withdrawn'
    BY <1>7, <2>1 DEF WriteValueRegister, Goto, pinVars, pdcVars, gic, thread, history, chainVars,
       Return, Registry!Ask, Registry!Reply, Registry!Interrupt, Registry!Return, NoneYet,
       Progress, Withdrawn, Registering, TypeSet, PassedOn, HasHandler, PdcEnabled
  <2> QED  BY <2>1, <2>2, GrantsKept
<1>8. CASE \E p \in PdcPins, type \in Types : RegisterGpioIrq(p, type)
  <2>1. UNCHANGED chainVars
    BY <1>8 DEF RegisterGpioIrq, Goto, pinVars, pdcVars, gic, thread, history, chainVars, Return,
       Registry!Ask, Registry!Reply, Registry!Interrupt, Registry!Return
  <2>2. NoneYet' /\ Progress' /\ Withdrawn'
    BY <1>8, <2>1 DEF RegisterGpioIrq, Goto, pinVars, pdcVars, gic, thread, history, chainVars,
       Return, Registry!Ask, Registry!Reply, Registry!Interrupt, Registry!Return, NoneYet,
       Progress, Withdrawn, Registering, TypeSet, PassedOn, HasHandler, PdcEnabled
  <2> QED  BY <2>1, <2>2, GrantsKept
<1>9. CASE CrRegisterInterrupt
  <2>1. UNCHANGED chainVars
    BY <1>9 DEF CrRegisterInterrupt, Goto, pinVars, pdcVars, gic, thread, history, chainVars,
       Return, Registry!Ask, Registry!Reply, Registry!Interrupt, Registry!Return
  <2>2. NoneYet' /\ Progress' /\ Withdrawn'
    BY <1>9, <2>1 DEF CrRegisterInterrupt, Goto, pinVars, pdcVars, gic, thread, history, chainVars,
       Return, Registry!Ask, Registry!Reply, Registry!Interrupt, Registry!Return, NoneYet,
       Progress, Withdrawn, Registering, TypeSet, PassedOn, HasHandler, PdcEnabled
  <2> QED  BY <2>1, <2>2, GrantsKept
<1>10. CASE \E p \in PdcPins : UnregisterPin(p)
  <2>1. UNCHANGED chainVars
    BY <1>10 DEF UnregisterPin, Goto, pinVars, pdcVars, gic, thread, history, chainVars, Return,
       Registry!Ask, Registry!Reply, Registry!Interrupt, Registry!Return
  <2>2. NoneYet' /\ Progress' /\ Withdrawn'
    BY <1>10, <2>1 DEF UnregisterPin, Goto, pinVars, pdcVars, gic, thread, history, chainVars,
       Return, Registry!Ask, Registry!Reply, Registry!Interrupt, Registry!Return, NoneYet,
       Progress, Withdrawn, Registering, TypeSet, PassedOn, HasHandler, PdcEnabled
  <2> QED  BY <2>1, <2>2, GrantsKept
<1>11. CASE CrUnregisterInterrupt
  <2>1. UNCHANGED chainVars
    BY <1>11 DEF CrUnregisterInterrupt, Goto, pinVars, pdcVars, gic, thread, history, chainVars,
       Return, Registry!Ask, Registry!Reply, Registry!Interrupt, Registry!Return
  <2>2. NoneYet' /\ Progress' /\ Withdrawn'
    BY <1>11, <2>1 DEF CrUnregisterInterrupt, Goto, pinVars, pdcVars, gic, thread, history,
       chainVars, Return, Registry!Ask, Registry!Reply, Registry!Interrupt, Registry!Return,
       NoneYet, Progress, Withdrawn, Registering, TypeSet, PassedOn, HasHandler, PdcEnabled
  <2> QED  BY <2>1, <2>2, GrantsKept
<1>12. CASE \E irq \in Irqs : Interrupt(irq)
  <2>1. UNCHANGED chainVars
    BY <1>12 DEF Interrupt, Goto, pinVars, pdcVars, gic, thread, history, chainVars, Return,
       Registry!Ask, Registry!Reply, Registry!Interrupt, Registry!Return
  <2>2. NoneYet' /\ Progress' /\ Withdrawn'
    BY <1>12, <2>1 DEF Interrupt, Goto, pinVars, pdcVars, gic, thread, history, chainVars, Return,
       Registry!Ask, Registry!Reply, Registry!Interrupt, Registry!Return, NoneYet, Progress,
       Withdrawn, Registering, TypeSet, PassedOn, HasHandler, PdcEnabled
  <2> QED  BY <2>1, <2>2, GrantsKept
<1>13. CASE \E v \in Values : HandlerSetsIoValue(v)
  <2>1. UNCHANGED chainVars
    BY <1>13 DEF HandlerSetsIoValue, Goto, pinVars, pdcVars, gic, thread, history, chainVars,
       Return, Registry!Ask, Registry!Reply, Registry!Interrupt, Registry!Return
  <2>2. NoneYet' /\ Progress' /\ Withdrawn'
    BY <1>13, <2>1 DEF HandlerSetsIoValue, Goto, pinVars, pdcVars, gic, thread, history, chainVars,
       Return, Registry!Ask, Registry!Reply, Registry!Interrupt, Registry!Return, NoneYet,
       Progress, Withdrawn, Registering, TypeSet, PassedOn, HasHandler, PdcEnabled
  <2> QED  BY <2>1, <2>2, GrantsKept
<1>14. CASE HandlerReturns
  <2>1. UNCHANGED chainVars
    BY <1>14 DEF HandlerReturns, Goto, pinVars, pdcVars, gic, thread, history, chainVars, Return,
       Registry!Ask, Registry!Reply, Registry!Interrupt, Registry!Return
  <2>2. NoneYet' /\ Progress' /\ Withdrawn'
    BY <1>14, <2>1 DEF HandlerReturns, Goto, pinVars, pdcVars, gic, thread, history, chainVars,
       Return, Registry!Ask, Registry!Reply, Registry!Interrupt, Registry!Return, NoneYet,
       Progress, Withdrawn, Registering, TypeSet, PassedOn, HasHandler, PdcEnabled
  <2> QED  BY <2>1, <2>2, GrantsKept
<1>15. CASE ConfigDone
  <2>1. UNCHANGED chainVars
    BY <1>15 DEF ConfigDone, Goto, pinVars, pdcVars, gic, thread, history, chainVars, Return,
       Registry!Ask, Registry!Reply, Registry!Interrupt, Registry!Return
  <2>2. pc' \in {"install", "unloaded", "blink", "idle"}
    BY <1>15, ReturnFits DEF ConfigDone
  <2> QED  BY <2>1, <2>2, GrantsKept DEF NoneYet, Progress, Withdrawn, Registering
<1>16. CASE PinNotMapped
  <2>1. UNCHANGED chainVars
    BY <1>16 DEF PinNotMapped, Goto, pinVars, pdcVars, gic, thread, history, chainVars, Return,
       Registry!Ask, Registry!Reply, Registry!Interrupt, Registry!Return
  <2>2. pc' \in {"install", "unloaded", "blink", "idle"}
    BY <1>16, ReturnFits DEF PinNotMapped
  <2> QED  BY <2>1, <2>2, GrantsKept DEF NoneYet, Progress, Withdrawn, Registering
<1>17. CASE NoFreeEntry
  <2>1. UNCHANGED chainVars
    BY <1>17 DEF NoFreeEntry, Goto, pinVars, pdcVars, gic, thread, history, chainVars, Return,
       Registry!Ask, Registry!Reply, Registry!Interrupt, Registry!Return
  <2>2. pc' \in {"install", "unloaded", "blink", "idle"}
    BY <1>17, ReturnFits DEF NoFreeEntry
  <2> QED  BY <2>1, <2>2, GrantsKept DEF NoneYet, Progress, Withdrawn, Registering
<1>18. CASE NothingMapped
  <2>1. UNCHANGED chainVars
    BY <1>18 DEF NothingMapped, Goto, pinVars, pdcVars, gic, thread, history, chainVars, Return,
       Registry!Ask, Registry!Reply, Registry!Interrupt, Registry!Return
  <2>2. pc' \in {"install", "unloaded", "blink", "idle"}
    BY <1>18, ReturnFits DEF NothingMapped
  <2> QED  BY <2>1, <2>2, GrantsKept DEF NoneYet, Progress, Withdrawn, Registering
<1>19. CASE NoEntry
  <2>1. UNCHANGED chainVars
    BY <1>19 DEF NoEntry, Goto, pinVars, pdcVars, gic, thread, history, chainVars, Return,
       Registry!Ask, Registry!Reply, Registry!Interrupt, Registry!Return
  <2>2. pc' \in {"install", "unloaded", "blink", "idle"}
    BY <1>19, ReturnFits DEF NoEntry
  <2> QED  BY <2>1, <2>2, GrantsKept DEF NoneYet, Progress, Withdrawn, Registering
<1>20. CASE PdcLibInit
  <2>1. \A p \in Registrable : granted'[p] = None
    BY <1>20 DEF PdcLibInit, Goto, history, NoneYet
  <2> QED  BY <1>20, <2>1 DEF PdcLibInit, Goto, Grants, NoneYet, Progress, Withdrawn, Registering
<1>21. CASE TypeNotSet
  <2>1. call.op = "register" /\ call.pin \in Registrable /\ call.type \in Types
    BY <1>21 DEF TypeNotSet, Return, Goto, CallFits, Registrable, IrqOf
  <2>2. PICK p \in Registrable : p = call.pin
    BY <2>1
  <2>3. granted[p] = None
    BY <1>21, <2>1, <2>2 DEF TypeNotSet, Return, Goto, Progress, Registering
  <2>4. irqCfg' = [irqCfg EXCEPT ![PdcPinNumber[p]] = PdcIrqConfig(call.type)]
        /\ enableBank' = enableBank /\ UNCHANGED <<gic, history>>
    BY <1>21, <2>2 DEF TypeNotSet, PdcGicSetType
  <2>5. \A q \in Registrable : PdcPinNumber[q] \in MappedPins
    BY RegistrablePin
  <2>6. Grants'
    <3> SUFFICES ASSUME NEW q \in Registrable, granted'[q] # None
                 PROVE  granted'[q] \in Types /\ Chained(q, granted[q])'
      BY DEF Grants
    <3>1. q # p /\ granted[q] \in Types /\ Chained(q, granted[q]) /\ granted'[q] = granted[q]
      BY <2>3, <2>4 DEF Grants, history
    <3>2. irqCfg'[PdcPinNumber[q]] = irqCfg[PdcPinNumber[q]]
      BY <2>4, <2>5, <3>1, PinsApart DEF PdcTypeOK
    <3> QED  BY <2>4, <3>1, <3>2
             DEF Chained, TypeSet, PassedOn, HasHandler, LineSet, PdcEnabled, gic
  <2>7. pc' \in {"install", "unloaded", "blink", "idle"}
    BY <1>21, ReturnFits DEF TypeNotSet
  <2> QED  BY <2>6, <2>7 DEF NoneYet, Progress, Withdrawn, Registering
<1>22. CASE SetType
  <2>1. call.op = "register" /\ call.pin \in Registrable /\ call.type \in Types
    BY <1>22 DEF SetType, Return, Goto, CallFits, Registrable, IrqOf
  <2>2. PICK p \in Registrable : p = call.pin
    BY <2>1
  <2>3. granted[p] = None
    BY <1>22, <2>1, <2>2 DEF SetType, Return, Goto, Progress, Registering
  <2>4. irqCfg' = [irqCfg EXCEPT ![PdcPinNumber[p]] = PdcIrqConfig(call.type)]
        /\ enableBank' = enableBank /\ UNCHANGED <<gic, history>>
    BY <1>22, <2>2 DEF SetType, PdcGicSetType
  <2>5. \A q \in Registrable : PdcPinNumber[q] \in MappedPins
    BY RegistrablePin
  <2>6. Grants'
    <3> SUFFICES ASSUME NEW q \in Registrable, granted'[q] # None
                 PROVE  granted'[q] \in Types /\ Chained(q, granted[q])'
      BY DEF Grants
    <3>1. q # p /\ granted[q] \in Types /\ Chained(q, granted[q]) /\ granted'[q] = granted[q]
      BY <2>3, <2>4 DEF Grants, history
    <3>2. irqCfg'[PdcPinNumber[q]] = irqCfg[PdcPinNumber[q]]
      BY <2>4, <2>5, <3>1, PinsApart DEF PdcTypeOK
    <3> QED  BY <2>4, <3>1, <3>2
             DEF Chained, TypeSet, PassedOn, HasHandler, LineSet, PdcEnabled, gic
  <2>7. pc' = "enable" /\ call' = call
    BY <1>22 DEF SetType, Goto
  <2>8. TypeSet(call.pin, call.type)'
    BY <2>2, <2>4, <2>5, <2>7 DEF TypeSet, PdcTypeOK
  <2>9. granted'[call'.pin] = None
    BY <2>2, <2>3, <2>4, <2>7 DEF history
  <2> QED  BY <2>6, <2>7, <2>8, <2>9 DEF NoneYet, Progress, Withdrawn, Registering
<1>23. CASE EnablePin
  <2>1. call.op = "register" /\ call.pin \in Registrable
    BY <1>23 DEF EnablePin, Goto, CallFits
  <2>2. PICK p \in Registrable : p = call.pin
    BY <2>1
  <2>3. /\ enableBank' = [enableBank EXCEPT ![PdcPinNumber[p] \div 32] = @ \cup {PdcPinNumber[p] % 32}]
        /\ UNCHANGED <<irqCfg, gic, history, call>>
        /\ pc = "enable" /\ pc' = "ask"
    BY <1>23, <2>2 DEF EnablePin, Goto, PdcEnableInterrupt
  <2>4. \A q \in Registrable : PdcPinNumber[q] \div 32 \in Banks
    BY RegistrablePin, MappedPinsType
  <2>5. \A q \in Registrable : PassedOn(q) \/ q = p => PassedOn(q)'
    BY <2>3, <2>4 DEF PassedOn, PdcEnabled, PdcTypeOK
  <2>6. Grants'
    BY <2>3, <2>5 DEF Grants, Chained, TypeSet, HasHandler, LineSet, gic, history
  <2>7. granted[p] = None /\ TypeSet(p, call.type)
    BY <2>1, <2>2, <2>3 DEF Progress, Registering
  <2>8. Progress'
    BY <2>2, <2>3, <2>5, <2>7 DEF Progress, TypeSet, history, PassedOn
  <2> QED  BY <2>3, <2>6, <2>8 DEF NoneYet, Withdrawn
<1>24. CASE EntryTaken
  <2>1. /\ request = [op |-> "add", source |-> Irq, handler |-> Handler, param |-> Handler]
        /\ pc = "add" /\ pc' = "line"
        /\ UNCHANGED <<enableBank, irqCfg, lineType, lineEnabled, granted, call>>
    BY <1>24 DEF EntryTaken, Goto, RequestFits, pdcVars, history
  <2>2. Irq \in Irqs /\ Handler \in Handlers
    BY <2>1, RegistrationFits
  <2>3. queue' = [queue EXCEPT ![Irq] = Append(@, <<Handler, Handler>>)]
    BY <1>24, <2>1 DEF EntryTaken, Registry!Add
  <2>4. Append(queue[Irq], <<Handler, Handler>>) # <<>>
    <3>1. queue[Irq] \in Seq(Handlers \X Handlers)
          /\ <<Handler, Handler>> \in Handlers \X Handlers
      BY <2>2 DEF LinesOK
    <3>2. \A q \in Seq(Handlers \X Handlers), e \in Handlers \X Handlers : Append(q, e) # <<>>
      BY AppendProperties
    <3> QED  BY <3>1, <3>2
  <2>5. \A q \in Registrable : IrqOf(q) = Irq \/ HasHandler(q) => HasHandler(q)'
    BY <2>2, <2>3, <2>4 DEF HasHandler, LinesOK, Irqs
  <2>6. Grants'
    BY <2>1, <2>5 DEF Grants, Chained, TypeSet, PassedOn, PdcEnabled, LineSet
  <2>7. call.op = "register" => Irq = IrqOf(call.pin) /\ call.pin \in Registrable
    BY <2>1, RegistrationFits
  <2>8. Progress'
    <3> SUFFICES ASSUME call.op = "register"
                 PROVE  Progress'
      BY <2>1 DEF Progress, Registering
    <3>1. PICK p \in Registrable : p = call.pin /\ HasHandler(p)'
      BY <2>5, <2>7
    <3>2. granted[p] = None /\ TypeSet(p, call.type) /\ PassedOn(p)
      BY <2>1, <3>1 DEF Progress, Registering
    <3> QED  BY <2>1, <3>1, <3>2 DEF Progress, TypeSet, PassedOn, HasHandler, PdcEnabled
  <2> QED  BY <2>1, <2>6, <2>8 DEF NoneYet, Withdrawn
<1>25. CASE LineReady
  <2>1. /\ pc = "line" /\ UNCHANGED <<enableBank, irqCfg, queue>>
        /\ pc' \in {"install", "unloaded", "blink", "idle"}
        /\ Irq \in Irqs
    BY <1>25, ReturnFits, RegistrationFits DEF LineReady, Return, Goto, pdcVars, Registry!Reply
  <2>2. \/ Irq = TlmmIrq /\ call.op = "initirq"
        \/ \E p \in Registrable :
             /\ p = call.pin /\ Irq = IrqOf(p) /\ call.op = "register"
             /\ granted[p] = None /\ TypeSet(p, call.type) /\ PassedOn(p) /\ HasHandler(p)
             /\ call.type \in Types /\ LineType = GicType(call.type)
    <3>1. CASE call = [op |-> "initirq"]
      BY <3>1 DEF Irq
    <3>2. CASE call # [op |-> "initirq"]
      <4>1. /\ call.op = "register" /\ call.pin \in Registrable /\ Irq = IrqOf(call.pin)
            /\ LineType = GicType(call.type)
        BY <2>1, <3>2, RegistrationFits
      <4>2. call.type \in Types
        BY <2>1, <3>2 DEF CallFits
      <4> QED  BY <2>1, <4>1, <4>2 DEF Progress, Registering
    <3> QED  BY <3>1, <3>2
  <2>3. \A q \in Registrable : IrqOf(q) \in Irqs \ {TlmmIrq}
    BY RegistrablePin
  <2>4. /\ lineType' = [lineType EXCEPT ![Irq] = LineType]
        /\ lineEnabled' = lineEnabled \cup {Irq}
    BY <1>25 DEF LineReady
  <2>5. Grants'
    <3>1. CASE Irq = TlmmIrq /\ call.op = "initirq"
      <4>1. granted' = granted
        BY <1>25, <3>1 DEF LineReady, Granted
      <4>2. \A q \in Registrable : lineType'[IrqOf(q)] = lineType[IrqOf(q)]
        BY <2>3, <2>4, <3>1 DEF LinesOK
      <4> QED  BY <2>1, <2>4, <4>1, <4>2
               DEF Grants, Chained, TypeSet, PassedOn, PdcEnabled, HasHandler, LineSet
    <3>2. ASSUME NEW p \in Registrable,
                 p = call.pin, Irq = IrqOf(p), call.op = "register",
                 granted[p] = None, TypeSet(p, call.type), PassedOn(p), HasHandler(p),
                 call.type \in Types, LineType = GicType(call.type)
          PROVE  Grants'
      <4>1. granted' = [granted EXCEPT ![p] = call.type]
        BY <1>25, <3>2 DEF LineReady, Granted
      <4> SUFFICES ASSUME NEW q \in Registrable, granted'[q] # None
                   PROVE  granted'[q] \in Types /\ Chained(q, granted[q])'
        BY DEF Grants
      <4>2. CASE q = p
        <5>1. granted'[q] = call.type
          BY <4>1, <4>2 DEF GrantedOK
        <5>2. lineType'[IrqOf(q)] = GicType(call.type) /\ IrqOf(q) \in lineEnabled'
          BY <2>1, <2>4, <3>2, <4>2 DEF LinesOK
        <5> QED  BY <2>1, <3>2, <4>2, <5>1, <5>2
                 DEF Chained, TypeSet, PassedOn, PdcEnabled, HasHandler, LineSet
      <4>3. CASE q # p
        <5>1. granted'[q] = granted[q]
          BY <4>1, <4>3 DEF GrantedOK
        <5>2. granted[q] \in Types /\ Chained(q, granted[q])
          BY <5>1 DEF Grants
        <5>3. lineType'[IrqOf(q)] = lineType[IrqOf(q)] /\ lineEnabled \subseteq lineEnabled'
          BY <2>3, <2>4, <3>2, <4>3, PinsApart DEF LinesOK
        <5> QED  BY <2>1, <5>1, <5>2, <5>3
                 DEF Chained, TypeSet, PassedOn, PdcEnabled, HasHandler, LineSet
      <4> QED  BY <4>2, <4>3
    <3> QED  BY <2>2, <3>1, <3>2
  <2> QED  BY <2>1, <2>5 DEF NoneYet, Progress, Withdrawn, Registering
<1>26. CASE LineFails
  <2>1. /\ pc = "line" /\ UNCHANGED <<enableBank, irqCfg, queue>>
        /\ pc' \in {"install", "unloaded", "blink", "idle"}
        /\ Irq \in Irqs
    BY <1>26, ReturnFits, RegistrationFits DEF LineFails, Return, Goto, pdcVars, Registry!Reply
  <2>2. \/ Irq = TlmmIrq /\ call.op = "initirq"
        \/ \E p \in Registrable :
             /\ p = call.pin /\ Irq = IrqOf(p) /\ call.op = "register"
             /\ granted[p] = None /\ TypeSet(p, call.type) /\ PassedOn(p) /\ HasHandler(p)
             /\ call.type \in Types /\ LineType = GicType(call.type)
    <3>1. CASE call = [op |-> "initirq"]
      BY <3>1 DEF Irq
    <3>2. CASE call # [op |-> "initirq"]
      <4>1. /\ call.op = "register" /\ call.pin \in Registrable /\ Irq = IrqOf(call.pin)
            /\ LineType = GicType(call.type)
        BY <2>1, <3>2, RegistrationFits
      <4>2. call.type \in Types
        BY <2>1, <3>2 DEF CallFits
      <4> QED  BY <2>1, <4>1, <4>2 DEF Progress, Registering
    <3> QED  BY <3>1, <3>2
  <2>3. \A q \in Registrable : IrqOf(q) \in Irqs \ {TlmmIrq}
    BY RegistrablePin
  <2>4. /\ lineType' \in {lineType, [lineType EXCEPT ![Irq] = LineType]}
        /\ lineEnabled' = lineEnabled /\ granted' = granted
    BY <1>26 DEF LineFails, history
  <2>5. \A q \in Registrable : granted[q] # None => IrqOf(q) # Irq
    BY <2>2, <2>3, PinsApart
  <2>6. \A q \in Registrable : granted[q] # None => lineType'[IrqOf(q)] = lineType[IrqOf(q)]
    BY <2>3, <2>4, <2>5 DEF LinesOK
  <2>7. Grants'
    BY <2>1, <2>4, <2>6 DEF Grants, Chained, TypeSet, PassedOn, PdcEnabled, HasHandler, LineSet
  <2> QED  BY <2>1, <2>7 DEF NoneYet, Progress, Withdrawn, Registering
<1>27. CASE DisablePin
  <2>1. call.pin \in Registrable
    BY <1>27 DEF DisablePin, Goto, CallFits, Unregistering, Registrable, IrqOf
  <2>2. PICK p \in Registrable : p = call.pin
    BY <2>1
  <2>3. /\ enableBank' = [enableBank EXCEPT ![PdcPinNumber[p] \div 32] = @ \ {PdcPinNumber[p] % 32}]
        /\ granted' = [granted EXCEPT ![p] = None]
        /\ UNCHANGED <<irqCfg, gic, call>>
        /\ pc' = "unask"
    BY <1>27, <2>2 DEF DisablePin, Goto, PdcEnableInterrupt
  <2>4. \A q \in Registrable : PdcPinNumber[q] \div 32 \in Banks
    BY RegistrablePin, MappedPinsType
  <2>5. \A q \in Registrable : PassedOn(q) /\ q # p => PassedOn(q)'
    <3> SUFFICES ASSUME NEW q \in Registrable, PassedOn(q), q # p
                 PROVE  PassedOn(q)'
      OBVIOUS
    <3>1. CASE PdcPinNumber[q] \div 32 = PdcPinNumber[p] \div 32
      <4>1. PdcPinNumber[q] % 32 # PdcPinNumber[p] % 32
        BY <3>1, PinsApart
      <4> QED  BY <2>3, <2>4, <3>1, <4>1 DEF PassedOn, PdcEnabled, PdcTypeOK
    <3>2. CASE PdcPinNumber[q] \div 32 # PdcPinNumber[p] \div 32
      BY <2>3, <2>4, <3>2 DEF PassedOn, PdcEnabled, PdcTypeOK
    <3> QED  BY <3>1, <3>2
  <2>6. granted'[p] = None /\ \A q \in Registrable : q # p => granted'[q] = granted[q]
    BY <2>3 DEF GrantedOK
  <2>7. Grants'
    BY <2>3, <2>5, <2>6 DEF Grants, Chained, TypeSet, HasHandler, LineSet, gic
  <2> QED  BY <2>2, <2>3, <2>6, <2>7 DEF NoneYet, Progress, Withdrawn, Registering
<1>28. CASE EntryDropped
  <2>1. /\ pc = "remove" /\ call.pin \in Registrable /\ granted[call.pin] = None
        /\ UNCHANGED <<enableBank, irqCfg, lineType, granted>>
    BY <1>28 DEF EntryDropped, Return, Goto, CallFits, Unregistering, Withdrawn, pdcVars, history
  <2>2. PICK p \in Registrable : p = call.pin
    BY <2>1
  <2>3. \A q \in Registrable : granted[q] # None => IrqOf(q) # IrqOf(p) /\ IrqOf(q) \in Irqs
    BY <2>1, <2>2, PinsApart, RegistrablePin
  <2>4. request = [op |-> "remove", source |-> IrqOf(p)]
    BY <1>28, <2>1, <2>2 DEF EntryDropped, RequestFits, Registry!Remove, Registry!Done
  <2>5. queue' = [queue EXCEPT ![IrqOf(p)] = Tail(@)] /\ UNCHANGED <<lineEnabled, thread>>
    BY <1>28, <2>4 DEF EntryDropped, Registry!Remove
  <2>6. \A q \in Registrable : granted[q] # None => queue'[IrqOf(q)] = queue[IrqOf(q)]
    BY <2>3, <2>5 DEF LinesOK
  <2>7. Grants'
    BY <2>1, <2>5, <2>6 DEF Grants, Chained, TypeSet, PassedOn, PdcEnabled, HasHandler, LineSet
  <2> QED  BY <2>1, <2>5, <2>7 DEF NoneYet, Progress, Withdrawn, Registering, thread
<1>29. CASE LineDisabled
  <2>1. /\ pc = "remove" /\ call.pin \in Registrable /\ granted[call.pin] = None
        /\ UNCHANGED <<enableBank, irqCfg, lineType, granted>>
    BY <1>29 DEF LineDisabled, Return, Goto, CallFits, Unregistering, Withdrawn, pdcVars, history
  <2>2. PICK p \in Registrable : p = call.pin
    BY <2>1
  <2>3. \A q \in Registrable : granted[q] # None => IrqOf(q) # IrqOf(p) /\ IrqOf(q) \in Irqs
    BY <2>1, <2>2, PinsApart, RegistrablePin
  <2>4. queue' = queue /\ lineEnabled' \in {lineEnabled, lineEnabled \ {IrqOf(p)}}
    BY <1>29, <2>2 DEF LineDisabled, Registry!Reply
  <2>5. Grants'
    BY <2>1, <2>3, <2>4 DEF Grants, Chained, TypeSet, PassedOn, PdcEnabled, HasHandler, LineSet
  <2>6. pc' \in {"install", "unloaded", "blink", "idle"}
    BY <1>29, ReturnFits DEF LineDisabled
  <2> QED  BY <2>5, <2>6 DEF NoneYet, Progress, Withdrawn, Registering
<1>30. CASE UNCHANGED vars
  <2>1. UNCHANGED <<chainVars, pc, call>>
    BY <1>30 DEF vars, pdcVars, gic, thread, history, chainVars
  <2> QED  BY <2>1, GrantsKept DEF chainVars, NoneYet, Progress, Withdrawn, Registering, TypeSet,
             PassedOn, HasHandler, PdcEnabled
<1> QED
  BY <1>1, <1>2, <1>3, <1>4, <1>5, <1>6, <1>7, <1>8, <1>9, <1>10, <1>11, <1>12, <1>13, <1>14,
     <1>15, <1>16, <1>17, <1>18, <1>19, <1>20, <1>21, <1>22, <1>23, <1>24, <1>25, <1>26, <1>27,
     <1>28, <1>29, <1>30
     DEF Next, Entry, Config, Register, Unregister

\* Between calls a registered pin interrupts on exactly the conditions of its
\* type: PDC, line and handler agree.
THEOREM ChainsAgree == Spec => []ChainAgrees
<1>1. ASSUME TypeInv, ChainInv
      PROVE  ChainAgrees
  <2> SUFFICES ASSUME NEW p \in Registrable, granted[p] # None
               PROVE  \E pin \in MappedPins : Wired(pin, IrqOf(p)) /\
                        /\ PdcEnabled(pin) /\ IrqOf(p) \in lineEnabled /\ queue[IrqOf(p)] # <<>>
                        /\ Reported(irqCfg[pin]).conditions = Conditions(granted[p])
                        /\ Reported(irqCfg[pin]).as = lineType[IrqOf(p)]
    BY DEF ChainAgrees
  <2>1. granted[p] \in TriggerTypes /\ Chained(p, granted[p])
    BY <1>1, TypesAssumption DEF ChainInv, Grants
  <2>2. PdcPinNumber[p] \in MappedPins /\ Wired(PdcPinNumber[p], IrqOf(p))
    BY RegistrablePin
  <2>3. irqCfg[PdcPinNumber[p]] = PdcIrqConfig(granted[p])
    BY <2>1 DEF Chained, TypeSet
  <2>4. /\ Reported(irqCfg[PdcPinNumber[p]]).conditions = Conditions(granted[p])
        /\ Reported(irqCfg[PdcPinNumber[p]]).as = lineType[IrqOf(p)]
    <3>1. \A type \in TriggerTypes :
            /\ Reported(PdcIrqConfig(type)).conditions = Conditions(type)
            /\ Reported(PdcIrqConfig(type)).as = GicType(type)
      BY TypesReported
    <3> QED  BY <2>1, <2>3, <3>1 DEF Chained, LineSet
  <2> QED  BY <2>1, <2>2, <2>4 DEF Chained, PassedOn, HasHandler, LineSet
<1> QED  BY <1>1, TypeInvInit, TypeInvNext, ChainInvInit, ChainInvNext, PTL DEF Spec

-----------------------------------------------------------------------------
(* The pins of the PDC are what the interrupt library promises.            *)

\* The mapped request, by what is being asked: nothing of what the entry
\* point asks for the shared line is seen.
Mapped ==
  /\ call = [op |-> "initirq"] => PinRequest = Registry!Idle
  /\ call # [op |-> "initirq"] /\ request \in {Registry!Idle, Registry!Done} =>
       PinRequest = request
  /\ call # [op |-> "initirq"] /\ pc = "add" =>
       /\ PinRequest = [request EXCEPT !.source = call.pin]
       /\ request = [op |-> "add", source |-> IrqOf(call.pin),
                     handler |-> call.pin, param |-> call.pin]
       /\ PinRequest.op = "add" /\ PinRequest.source = call.pin
       /\ PinRequest.handler = call.pin /\ PinRequest.param = call.pin
  /\ pc = "remove" /\ request # Registry!Done =>
       /\ PinRequest = [request EXCEPT !.source = call.pin]
       /\ request = [op |-> "remove", source |-> IrqOf(call.pin)]
       /\ PinRequest.op = "remove" /\ PinRequest.source = call.pin

\* In a state of its type the request is mapped so.
LEMMA RequestMapped == TypeInv => Mapped
<1> SUFFICES ASSUME TypeInv PROVE Mapped
  OBVIOUS
<1> USE DEF TypeInv
<1>1. call = [op |-> "initirq"] => PinRequest = Registry!Idle
  BY NoneAssumption DEF PinRequest
<1>2. ASSUME call # [op |-> "initirq"]
      PROVE  call = None \/ call.op # "initirq"
  BY <1>2, TypeParts DEF CallFits, Configuring, Unregistering, ThreadOK
<1>3. call # [op |-> "initirq"] /\ request \in {Registry!Idle, Registry!Done} =>
        PinRequest = request
  BY <1>2 DEF PinRequest, Registry!Idle, Registry!Done
<1>4. ASSUME call # [op |-> "initirq"], pc = "add"
      PROVE  /\ PinRequest = [request EXCEPT !.source = call.pin]
             /\ request = [op |-> "add", source |-> IrqOf(call.pin),
                           handler |-> call.pin, param |-> call.pin]
             /\ PinRequest.op = "add" /\ PinRequest.source = call.pin
             /\ PinRequest.handler = call.pin /\ PinRequest.param = call.pin
  <2>1. call.pin \in Registrable /\ Irq = IrqOf(call.pin) /\ Handler = call.pin
    BY <1>4, RegistrationFits
  <2>2. request = [op |-> "add", source |-> IrqOf(call.pin),
                   handler |-> call.pin, param |-> call.pin]
    BY <1>4, <2>1 DEF RequestFits
  <2>3. PinOf(IrqOf(call.pin)) = call.pin
    BY <2>1, RegistrablePin
  <2>4. PinRequest = [request EXCEPT !.source = call.pin]
    BY <1>2, <1>4, <2>2, <2>3 DEF PinRequest
  <2> QED  BY <2>2, <2>4
<1>5. ASSUME pc = "remove", request # Registry!Done
      PROVE  /\ PinRequest = [request EXCEPT !.source = call.pin]
             /\ request = [op |-> "remove", source |-> IrqOf(call.pin)]
             /\ PinRequest.op = "remove" /\ PinRequest.source = call.pin
  <2>1. call.pin \in Registrable /\ call.op = "unregister"
    BY <1>5 DEF CallFits, Unregistering
  <2>2. request = [op |-> "remove", source |-> IrqOf(call.pin)]
    BY <1>5 DEF RequestFits
  <2>3. PinOf(IrqOf(call.pin)) = call.pin
    BY <2>1, RegistrablePin
  <2>4. PinRequest = [request EXCEPT !.source = call.pin]
    BY <2>1, <2>2, <2>3 DEF PinRequest
  <2> QED  BY <2>2, <2>4
<1> QED  BY <1>1, <1>3, <1>4, <1>5 DEF Mapped

\* What is left alone is left alone by the mapping too.
LEMMA Kept ==
  /\ queue' = queue => PinQueue' = PinQueue
  /\ called' = called => PinCalled' = PinCalled
  /\ request' = request /\ call' = call => PinRequest' = PinRequest
BY DEF PinQueue, PinCalled, PinRequest

\* A step that touches none of the library's state is none of the pins' either,
\* if no request is in progress or the call stays.
LEMMA Stutters ==
  ASSUME UNCHANGED <<queue, request, called>>, request = Registry!Idle \/ call' = call
  PROVE  UNCHANGED OfPin!registryVars
<1>1. PinRequest' = PinRequest
  BY DEF PinRequest, Registry!Idle
<1> QED  BY <1>1, Kept DEF OfPin!registryVars

\* No pin has a queue at first.
LEMMA PinsInitially == Init => OfPin!RegistryInit
<1> SUFFICES ASSUME Init PROVE OfPin!RegistryInit
  OBVIOUS
<1>1. \A p \in Registrable : IrqOf(p) \in Irqs
  BY RegistrablePin
<1>2. PinQueue = [p \in Registrable |-> <<>>]
  BY <1>1 DEF Init, PinQueue, Registry!RegistryInit
<1>3. PinRequest = OfPin!Idle /\ PinCalled = None
  BY DEF Init, PinRequest, PinCalled, Registry!RegistryInit, Registry!Idle, OfPin!Idle
<1> QED  BY <1>2, <1>3 DEF OfPin!RegistryInit

\* Every step is one of the promised steps, or none of the pins' business.
LEMMA PinsStep ==
  TypeInv /\ Mapped /\ Mapped' /\ [Next]_vars => [OfPin!RegistryNext]_(OfPin!registryVars)
<1> SUFFICES ASSUME TypeInv, Mapped, Mapped', [Next]_vars
             PROVE  [OfPin!RegistryNext]_(OfPin!registryVars)
  OBVIOUS
<1>0. LinesOK /\ CallFits /\ RequestFits
  BY TypeParts DEF TypeInv
<1> USE <1>0
<1>1. CASE PdcLibInit
  BY <1>1, Stutters DEF PdcLibInit, RequestFits, Goto, gic, thread
<1>2. CASE GpioLibInit
  BY <1>2, Stutters DEF GpioLibInit, RequestFits, Goto, gic, thread
<1>3. CASE NoTarget
  BY <1>3, Stutters DEF NoTarget, RequestFits, Goto, gic, thread
<1>4. CASE Install
  BY <1>4, Stutters DEF Install, RequestFits, Goto, gic, thread
<1>5. CASE Blink
  BY <1>5, Stutters DEF Blink, GpioConfig, RequestFits, Goto, gic, thread
<1>6. CASE \E params \in Params : ProtocolGpioConfig(params)
  BY <1>6, Stutters DEF ProtocolGpioConfig, GpioConfig, RequestFits, Goto, gic, thread
<1>7. CASE WriteControlRegister
  BY <1>7, Stutters DEF WriteControlRegister, RequestFits, Goto, gic, thread
<1>8. CASE WriteValueRegister
  BY <1>8, Stutters DEF WriteValueRegister, RequestFits, Goto, gic, thread
<1>9. CASE ConfigDone
  BY <1>9, Stutters DEF ConfigDone, Return, RequestFits, Goto, gic, thread
<1>10. CASE \E p \in PdcPins, type \in Types : RegisterGpioIrq(p, type)
  BY <1>10, Stutters DEF RegisterGpioIrq, RequestFits, Goto, gic, thread
<1>11. CASE PinNotMapped
  BY <1>11, Stutters DEF PinNotMapped, Return, RequestFits, Goto, gic, thread
<1>12. CASE TypeNotSet
  BY <1>12, Stutters DEF TypeNotSet, Return, RequestFits, Goto, gic, thread
<1>13. CASE SetType
  BY <1>13, Stutters DEF SetType, RequestFits, Goto, gic, thread
<1>14. CASE EnablePin
  BY <1>14, Stutters DEF EnablePin, RequestFits, Goto, gic, thread
<1>15. CASE \E p \in PdcPins : UnregisterPin(p)
  BY <1>15, Stutters DEF UnregisterPin, RequestFits, Goto, gic, thread
<1>16. CASE NothingMapped
  BY <1>16, Stutters DEF NothingMapped, Return, RequestFits, Goto, gic, thread
<1>17. CASE DisablePin
  BY <1>17, Stutters DEF DisablePin, RequestFits, Goto, gic, thread
<1>18. CASE \E v \in Values : HandlerSetsIoValue(v)
  BY <1>18, Stutters DEF HandlerSetsIoValue, RequestFits, Goto, gic, thread
<1>19. CASE CrRegisterInterrupt
  <2>1. /\ pc = "ask" /\ pc' = "add" /\ request = Registry!Idle
        /\ UNCHANGED <<queue, called, call>>
    BY <1>19 DEF CrRegisterInterrupt, Goto, RequestFits, Registry!Ask
  <2>2. CASE call = [op |-> "initirq"]
    BY <2>1, <2>2, Kept DEF Mapped, OfPin!registryVars
  <2>3. CASE call # [op |-> "initirq"]
    <3>1. call.pin \in Registrable /\ call.pin \in Pins
      BY <2>1, <2>3, RegistrationFits, RegistrablePin
    <3>2. PinRequest = OfPin!Idle
      BY <2>1, <2>3 DEF Mapped, Registry!Idle, OfPin!Idle
    <3>3. PinRequest' \in OfPin!AddRequests
      BY <2>1, <2>3, <3>1 DEF Mapped, OfPin!AddRequests
    <3> QED  BY <2>1, <3>2, <3>3, Kept DEF OfPin!RegistryNext, OfPin!Ask
  <2> QED  BY <2>2, <2>3
<1>20. CASE EntryTaken
  <2>1. /\ request = [op |-> "add", source |-> Irq, handler |-> Handler, param |-> Handler]
        /\ pc = "add" /\ pc' = "line"
        /\ Irq \in Irqs /\ call' = call
    BY <1>20, RegistrationFits DEF EntryTaken, Goto, RequestFits
  <2>2. /\ queue' = [queue EXCEPT ![Irq] = Append(@, <<Handler, Handler>>)]
        /\ request' = Registry!Done /\ called' = called
    BY <1>20, <2>1 DEF EntryTaken, Registry!Add
  <2>3. \A q \in Registrable : IrqOf(q) \in Irqs \ {TlmmIrq}
    BY RegistrablePin
  <2>4. CASE call = [op |-> "initirq"]
    <3>1. Irq = TlmmIrq
      BY <2>4 DEF Irq
    <3>2. PinQueue' = PinQueue
      BY <2>2, <2>3, <3>1 DEF PinQueue, LinesOK
    <3> QED  BY <2>1, <2>2, <2>4, <3>2, Kept DEF Mapped, OfPin!registryVars
  <2>5. CASE call # [op |-> "initirq"]
    <3>1. PICK p \in Registrable : p = call.pin /\ Irq = IrqOf(p) /\ Handler = p
      BY <2>1, <2>5, RegistrationFits
    <3>2. /\ PinRequest.op = "add" /\ PinRequest.source = p
          /\ PinRequest.handler = p /\ PinRequest.param = p
      BY <2>1, <2>5, <3>1 DEF Mapped
    <3>3. PinRequest' = OfPin!Done
      BY <2>1, <2>2, <2>5 DEF Mapped, Registry!Done, OfPin!Done
    <3>4. PinQueue' = [PinQueue EXCEPT ![p] = Append(@, <<p, p>>)]
      <4>1. \A q \in Registrable : q # p => queue'[IrqOf(q)] = queue[IrqOf(q)]
        BY <2>2, <2>3, <3>1, PinsApart DEF LinesOK
      <4>2. queue'[IrqOf(p)] = Append(queue[IrqOf(p)], <<p, p>>)
        BY <2>1, <2>2, <3>1 DEF LinesOK
      <4> QED  BY <4>1, <4>2 DEF PinQueue
    <3> QED  BY <2>2, <3>2, <3>3, <3>4, Kept DEF OfPin!RegistryNext, OfPin!Add
  <2> QED  BY <2>4, <2>5
<1>21. CASE NoFreeEntry
  <2>1. /\ pc \in {"add", "line", "remove"} /\ call' = None
        /\ request # Registry!Idle /\ request' = Registry!Idle
        /\ UNCHANGED <<queue, called>>
    BY <1>21 DEF NoFreeEntry, Return, Goto, Registry!Reply
  <2>2. PinRequest' = OfPin!Idle
    BY <2>1, NoneAssumption DEF Mapped, Registry!Idle, OfPin!Idle
  <2>3. CASE PinRequest = OfPin!Idle
    BY <2>1, <2>2, <2>3, Kept DEF OfPin!registryVars
  <2>4. CASE PinRequest # OfPin!Idle
    BY <2>1, <2>2, <2>4, Kept DEF OfPin!RegistryNext, OfPin!Reply
  <2> QED  BY <2>3, <2>4
<1>22. CASE LineReady
  <2>1. /\ pc \in {"add", "line", "remove"} /\ call' = None
        /\ request # Registry!Idle /\ request' = Registry!Idle
        /\ UNCHANGED <<queue, called>>
    BY <1>22 DEF LineReady, Return, Goto, Registry!Reply
  <2>2. PinRequest' = OfPin!Idle
    BY <2>1, NoneAssumption DEF Mapped, Registry!Idle, OfPin!Idle
  <2>3. CASE PinRequest = OfPin!Idle
    BY <2>1, <2>2, <2>3, Kept DEF OfPin!registryVars
  <2>4. CASE PinRequest # OfPin!Idle
    BY <2>1, <2>2, <2>4, Kept DEF OfPin!RegistryNext, OfPin!Reply
  <2> QED  BY <2>3, <2>4
<1>23. CASE LineFails
  <2>1. /\ pc \in {"add", "line", "remove"} /\ call' = None
        /\ request # Registry!Idle /\ request' = Registry!Idle
        /\ UNCHANGED <<queue, called>>
    BY <1>23 DEF LineFails, Return, Goto, Registry!Reply
  <2>2. PinRequest' = OfPin!Idle
    BY <2>1, NoneAssumption DEF Mapped, Registry!Idle, OfPin!Idle
  <2>3. CASE PinRequest = OfPin!Idle
    BY <2>1, <2>2, <2>3, Kept DEF OfPin!registryVars
  <2>4. CASE PinRequest # OfPin!Idle
    BY <2>1, <2>2, <2>4, Kept DEF OfPin!RegistryNext, OfPin!Reply
  <2> QED  BY <2>3, <2>4
<1>24. CASE NoEntry
  <2>1. /\ pc \in {"add", "line", "remove"} /\ call' = None
        /\ request # Registry!Idle /\ request' = Registry!Idle
        /\ UNCHANGED <<queue, called>>
    BY <1>24 DEF NoEntry, Return, Goto, Registry!Reply
  <2>2. PinRequest' = OfPin!Idle
    BY <2>1, NoneAssumption DEF Mapped, Registry!Idle, OfPin!Idle
  <2>3. CASE PinRequest = OfPin!Idle
    BY <2>1, <2>2, <2>3, Kept DEF OfPin!registryVars
  <2>4. CASE PinRequest # OfPin!Idle
    BY <2>1, <2>2, <2>4, Kept DEF OfPin!RegistryNext, OfPin!Reply
  <2> QED  BY <2>3, <2>4
<1>25. CASE LineDisabled
  <2>1. /\ pc \in {"add", "line", "remove"} /\ call' = None
        /\ request # Registry!Idle /\ request' = Registry!Idle
        /\ UNCHANGED <<queue, called>>
    BY <1>25 DEF LineDisabled, Return, Goto, Registry!Reply
  <2>2. PinRequest' = OfPin!Idle
    BY <2>1, NoneAssumption DEF Mapped, Registry!Idle, OfPin!Idle
  <2>3. CASE PinRequest = OfPin!Idle
    BY <2>1, <2>2, <2>3, Kept DEF OfPin!registryVars
  <2>4. CASE PinRequest # OfPin!Idle
    BY <2>1, <2>2, <2>4, Kept DEF OfPin!RegistryNext, OfPin!Reply
  <2> QED  BY <2>3, <2>4
<1>26. CASE CrUnregisterInterrupt
  <2>1. /\ pc = "unask" /\ pc' = "remove" /\ request = Registry!Idle
        /\ UNCHANGED <<queue, called, call>>
        /\ request' = [op |-> "remove", source |-> IrqOf(call.pin)]
    BY <1>26 DEF CrUnregisterInterrupt, Goto, RequestFits, Registry!Ask
  <2>2. call.pin \in Registrable /\ call # [op |-> "initirq"] /\ request' # Registry!Done
    BY <2>1 DEF CallFits, Unregistering, Registry!Done
  <2>3. PinRequest = OfPin!Idle
    BY <2>1, <2>2 DEF Mapped, Registry!Idle, OfPin!Idle
  <2>4. PinRequest' \in OfPin!RemoveRequests
    BY <2>1, <2>2 DEF Mapped, OfPin!RemoveRequests
  <2> QED  BY <2>1, <2>3, <2>4, Kept DEF OfPin!RegistryNext, OfPin!Ask
<1>27. CASE EntryDropped
  <2>1. /\ request = [op |-> "remove", source |-> IrqOf(call.pin)]
        /\ pc = "remove" /\ pc' = pc /\ call' = call
        /\ call # [op |-> "initirq"] /\ request # Registry!Done
    BY <1>27 DEF EntryDropped, RequestFits, CallFits, Unregistering, Registry!Remove,
       Registry!Done, thread
  <2>2. PICK p \in Registrable : p = call.pin
    BY <2>1 DEF CallFits, Unregistering
  <2>3. /\ queue' = [queue EXCEPT ![IrqOf(p)] = Tail(@)]
        /\ queue[IrqOf(p)] # <<>>
        /\ request' = Registry!Done /\ called' = called
    BY <1>27, <2>1, <2>2 DEF EntryDropped, Registry!Remove
  <2>4. PinRequest.op = "remove" /\ PinRequest.source = p
    BY <2>1, <2>2 DEF Mapped
  <2>5. PinRequest' = OfPin!Done
    BY <2>1, <2>3 DEF Mapped, Registry!Done, OfPin!Done
  <2>6. \A q \in Registrable : IrqOf(q) \in Irqs /\ (q # p => IrqOf(q) # IrqOf(p))
    BY RegistrablePin, PinsApart
  <2>7. PinQueue' = [PinQueue EXCEPT ![p] = Tail(@)]
    BY <2>3, <2>6 DEF PinQueue, LinesOK
  <2>8. PinQueue[p] # <<>>
    BY <2>3 DEF PinQueue
  <2> QED  BY <2>3, <2>4, <2>5, <2>7, <2>8, Kept DEF OfPin!RegistryNext, OfPin!Remove
<1>28. CASE \E irq \in Irqs : Interrupt(irq)
  <2>1. PICK irq \in Irqs : Interrupt(irq)
    BY <1>28
  <2>2. /\ called = None /\ queue[irq] # <<>>
        /\ called' = <<irq, Head(queue[irq])[1], Head(queue[irq])[2]>>
        /\ UNCHANGED <<queue, request, call>>
    BY <2>1 DEF Interrupt, Registry!Interrupt, thread
  <2>3. PinCalled = None
    BY <2>2 DEF PinCalled
  <2>4. CASE irq = TlmmIrq
    <3>1. PinCalled' = None
      BY <2>2, <2>4 DEF PinCalled
    <3> QED  BY <2>2, <2>3, <3>1, Kept DEF OfPin!registryVars
  <2>5. CASE irq # TlmmIrq
    <3>1. PICK p \in Registrable : irq = IrqOf(p) /\ PinOf(irq) = p
      BY <2>5, LineOfPin
    <3>2. called' # None
      <4>1. Head(queue[irq]) \in Handlers \X Handlers
        BY <2>2, HeadTailProperties DEF LinesOK
      <4>2. called' \in Irqs \X Handlers \X Handlers
        BY <2>2, <4>1
      <4> QED  BY <4>2, NoneAssumption
    <3>3. PinCalled' = <<p, Head(PinQueue[p])[1], Head(PinQueue[p])[2]>>
      BY <2>2, <2>5, <3>1, <3>2 DEF PinCalled, PinQueue
    <3>4. PinQueue[p] # <<>>
      BY <2>2, <3>1 DEF PinQueue
    <3> QED  BY <2>2, <2>3, <3>1, <3>3, <3>4, Kept DEF OfPin!RegistryNext, OfPin!Interrupt
  <2> QED  BY <2>4, <2>5
<1>29. CASE HandlerReturns
  <2>1. called # None /\ called' = None /\ UNCHANGED <<queue, request, call>>
    BY <1>29 DEF HandlerReturns, Registry!Return, thread
  <2>2. PinCalled' = None
    BY <2>1 DEF PinCalled
  <2>3. CASE PinCalled = None
    BY <2>1, <2>2, <2>3, Kept DEF OfPin!registryVars
  <2>4. CASE PinCalled # None
    BY <2>1, <2>2, <2>4, Kept DEF OfPin!RegistryNext, OfPin!Return
  <2> QED  BY <2>3, <2>4
<1>30. CASE UNCHANGED vars
  BY <1>30, Stutters DEF vars, gic, thread
<1> QED
  BY <1>1, <1>2, <1>3, <1>4, <1>5, <1>6, <1>7, <1>8, <1>9, <1>10, <1>11, <1>12, <1>13, <1>14,
     <1>15, <1>16, <1>17, <1>18, <1>19, <1>20, <1>21, <1>22, <1>23, <1>24, <1>25, <1>26, <1>27, <1>28,
     <1>29, <1>30
     DEF Next, Entry, Config, Register, Unregister

\* The pins of the PDC promise their clients what the interrupt library
\* promises for its lines.
THEOREM ImplementsPins == Spec => RefinesPins
<1> USE DEF RefinesPins, OfPin!RegistrySpec, Spec
<1> QED  BY TypeInvInit, TypeInvNext, RequestMapped, PinsInitially, PinsStep, PTL

-----------------------------------------------------------------------------
(* A call and the handlers that interrupt it come one after the other.     *)

\* One more call adds the orders in which it comes last.
LEMMA CompletedHas ==
  ASSUME NEW outcomes \in SUBSET Outcomes, NEW params \in ConfigParams
  PROVE  /\ Completed(outcomes, params) \subseteq Outcomes
         /\ outcomes \subseteq Completed(outcomes, params)
         /\ \A u \in outcomes : ~u.mine =>
              \E m \in Completed(outcomes, params) : m.mine /\ Follows(m, u, params)
<1>1. ASSUME NEW s \in Outcomes
      PROVE  /\ [After(s, params) EXCEPT !.mine = TRUE] \in Outcomes
             /\ [After(s, params) EXCEPT !.mine = TRUE].mine
             /\ Follows([After(s, params) EXCEPT !.mine = TRUE], s, params)
  <2>1. Control(s.ctl, params) \in Controls
    BY ControlType DEF Outcomes
  <2>2. WritesValue(params) => params.OutputValue \in Values
    BY ValueType
  <2> DEFINE a == After(s, params)
  <2>3. /\ a \in Outcomes /\ a.ctl = Control(s.ctl, params)
        /\ a.out = IF WritesValue(params) THEN params.OutputValue ELSE s.out
    BY <2>1, <2>2 DEF After, Outcomes
  <2> HIDE DEF a
  <2>4. /\ [a EXCEPT !.mine = TRUE] \in Outcomes /\ [a EXCEPT !.mine = TRUE].mine
        /\ [a EXCEPT !.mine = TRUE].ctl = a.ctl /\ [a EXCEPT !.mine = TRUE].out = a.out
    BY <2>3 DEF Outcomes
  <2> QED  BY <2>3, <2>4 DEF Follows, a
<1> QED  BY <1>1 DEF Completed

\* A handler drives the pin with its value, in every order.
LEMMA AfterHandler ==
  ASSUME NEW s \in Outcomes, NEW v \in Values
  PROVE  LET a == After(s, SetIoValue(HandlerPin, v)) IN
         a \in Outcomes /\ a.mine = s.mine /\ a.ctl = Driven(s.ctl) /\ a.out = v
<1> DEFINE params == SetIoValue(HandlerPin, v)
<1>1. /\ params.OutputEnable = TRUE /\ params.OutputValue = v
      /\ params.FunctionSel = Unchange /\ params.Pull = Unchange /\ params.DriveStrength = Unchange
  BY DEF SetIoValue, GpioInitConfigParams
<1>2. WritesValue(params)
  BY <1>1, UnchangeAssumption DEF WritesValue, Values
<1>3. Control(s.ctl, params) = Driven(s.ctl)
  <2> HIDE DEF params
  <2> QED  BY <1>1 DEF Control, Driven, Asked
<1>4. Driven(s.ctl) \in Controls
  BY DEF Outcomes, Controls, Driven, Pulls, GPIO_PULL_NONE
<1> HIDE DEF params
<1>5. /\ After(s, params) \in Outcomes /\ After(s, params).mine = s.mine
      /\ After(s, params).ctl = Driven(s.ctl) /\ After(s, params).out = v
  BY <1>1, <1>2, <1>3, <1>4 DEF After, Outcomes
<1> QED  BY <1>5 DEF params

\* A handler's write changes nothing of an output that a call has configured.
LEMMA DrivenOutput ==
  ASSUME NEW c, NEW params \in ConfigParams, params.OutputEnable
  PROVE  Driven(Control(c, params)) = Control(c, params)
<1>1. params.OutputEnable = TRUE
  BY DEF ConfigParams
<1> QED  BY <1>1 DEF Driven, Control

\* Two control registers that agree field by field, but for a stale pull.
LEMMA SameByFields ==
  ASSUME NEW c \in Controls, NEW d \in Controls, NEW params
  PROVE  Same(c, d, params) <=>
           /\ c.FunctionSel = d.FunctionSel /\ c.OutputEnable = d.OutputEnable
           /\ c.DriveStrength = d.DriveStrength
           /\ ~(~params.OutputEnable /\ params.Pull = Unchange) => c.Pull = d.Pull
BY DEF Same, Controls

\* A call makes the same of a control register before and after a handler,
\* but for a pull that it leaves unchanged.
LEMMA SameControl ==
  ASSUME NEW c \in Controls, NEW params \in ConfigParams, NEW d \in {c, Driven(c)}
  PROVE  Same(Control(d, params), Control(c, params), params)
<1>1. Driven(c) \in Controls
  BY DEF Controls, Driven, Pulls, GPIO_PULL_NONE
<1>2. Control(d, params) \in Controls /\ Control(c, params) \in Controls
  BY <1>1, ControlType
<1>3. d.FunctionSel = c.FunctionSel /\ d.DriveStrength = c.DriveStrength
  BY DEF Driven
<1>4. params.OutputEnable \in BOOLEAN
  BY DEF ConfigParams
<1>5. ~(~params.OutputEnable /\ params.Pull = Unchange) =>
        Control(d, params).Pull = Control(c, params).Pull
  BY <1>4 DEF Control, Asked
<1>6. /\ Control(d, params).FunctionSel = Control(c, params).FunctionSel
      /\ Control(d, params).OutputEnable = Control(c, params).OutputEnable
      /\ Control(d, params).DriveStrength = Control(c, params).DriveStrength
  BY <1>3 DEF Control
<1> QED  BY <1>2, <1>5, <1>6, SameByFields

\* Registers that agree before a handler agree after it.
LEMMA SameDriven ==
  ASSUME NEW c \in Controls, NEW d \in Controls, NEW params, Same(c, d, params)
  PROVE  Same(Driven(c), Driven(d), params)
<1>1. Driven(c) \in Controls /\ Driven(d) \in Controls
  BY DEF Controls, Driven, Pulls, GPIO_PULL_NONE
<1>2. c.FunctionSel = d.FunctionSel /\ c.DriveStrength = d.DriveStrength
  BY SameByFields
<1>3. /\ Driven(c).FunctionSel = Driven(d).FunctionSel
      /\ Driven(c).OutputEnable = Driven(d).OutputEnable
      /\ Driven(c).Pull = Driven(d).Pull
      /\ Driven(c).DriveStrength = Driven(d).DriveStrength
  BY <1>2 DEF Driven
<1> QED  BY <1>1, <1>3, SameByFields

\* Outside a configuring call there is nothing to explain.
LEMMA Elsewhere ==
  ~Configuring' /\ serial' = {} => SerialInv'
BY DEF SerialInv, Configuring

\* A step that leaves the call and its pin alone leaves its orders alone.
LEMMA Frozen ==
  SerialInv /\ UNCHANGED <<ctl, out, pc, call, read, serial>> => SerialInv'
BY DEF SerialInv, Configuring, Pending, Explains

\* At first nothing is being configured.
LEMMA SerialInvInit == Init => SerialInv
BY DEF Init, SerialInv, Configuring

\* Every step keeps an order for what the registers hold.
LEMMA SerialInvNext == TypeInv /\ SerialInv /\ [Next]_vars => SerialInv'
<1> SUFFICES ASSUME TypeInv, SerialInv, [Next]_vars
             PROVE  SerialInv'
  OBVIOUS
<1>0. PinsTypeOK /\ CallFits /\ (serial # {} <=> Configuring)
  BY TypeParts DEF TypeInv, SerialInv
<1> USE <1>0
<1>1. CASE PdcLibInit
  BY <1>1, Elsewhere DEF PdcLibInit, Goto, Configuring, history
<1>2. CASE GpioLibInit
  BY <1>2, Elsewhere DEF GpioLibInit, Goto, Configuring, history
<1>3. CASE NoTarget
  BY <1>3, Elsewhere DEF NoTarget, Goto, Configuring, history
<1>4. CASE Install
  BY <1>4, Elsewhere DEF Install, Goto, Configuring, history
<1>5. CASE \E p \in PdcPins, type \in Types : RegisterGpioIrq(p, type)
  BY <1>5, Elsewhere DEF RegisterGpioIrq, Goto, Configuring, history
<1>6. CASE SetType
  BY <1>6, Elsewhere DEF SetType, Goto, Configuring, history
<1>7. CASE EnablePin
  BY <1>7, Elsewhere DEF EnablePin, Goto, Configuring, history
<1>8. CASE CrRegisterInterrupt
  BY <1>8, Elsewhere DEF CrRegisterInterrupt, Goto, Configuring, history
<1>9. CASE EntryTaken
  BY <1>9, Elsewhere DEF EntryTaken, Goto, Configuring, history
<1>10. CASE \E p \in PdcPins : UnregisterPin(p)
  BY <1>10, Elsewhere DEF UnregisterPin, Goto, Configuring, history
<1>11. CASE DisablePin
  BY <1>11, Elsewhere DEF DisablePin, Goto, Configuring, history
<1>12. CASE CrUnregisterInterrupt
  BY <1>12, Elsewhere DEF CrUnregisterInterrupt, Goto, Configuring, history
<1>13. CASE PinNotMapped
  BY <1>13, Elsewhere, ReturnFits DEF PinNotMapped, Return, Goto, Configuring, history
<1>14. CASE TypeNotSet
  BY <1>14, Elsewhere, ReturnFits DEF TypeNotSet, Return, Goto, Configuring, history
<1>15. CASE NoFreeEntry
  BY <1>15, Elsewhere, ReturnFits DEF NoFreeEntry, Return, Goto, Configuring, history
<1>16. CASE LineReady
  BY <1>16, Elsewhere, ReturnFits DEF LineReady, Return, Goto, Configuring, history, Granted
<1>17. CASE LineFails
  BY <1>17, Elsewhere, ReturnFits DEF LineFails, Return, Goto, Configuring, history
<1>18. CASE NothingMapped
  BY <1>18, Elsewhere, ReturnFits DEF NothingMapped, Return, Goto, Configuring, history
<1>19. CASE NoEntry
  BY <1>19, Elsewhere, ReturnFits DEF NoEntry, Return, Goto, Configuring, history
<1>20. CASE LineDisabled
  BY <1>20, Elsewhere, ReturnFits DEF LineDisabled, Return, Goto, Configuring, history
<1>21. CASE ConfigDone
  BY <1>21, Elsewhere, ReturnFits DEF ConfigDone, Return, Goto, Configuring, history
<1>22. CASE EntryDropped
  BY <1>22, Elsewhere DEF EntryDropped, thread, Configuring, history
<1>23. CASE Blink
  <2> PICK v \in Values : GpioConfig(BlinkParams(v))
    BY <1>23 DEF Blink, Values
  <2> DEFINE params == BlinkParams(v)
  <2>1. params \in AnyParams
    BY DEF AnyParams
  <2>2. GpioConfig(params)
    OBVIOUS
  <2> HIDE DEF params
  <2>3. pc' = "control"
    BY <1>23 DEF Blink, Goto
  <2>4. /\ ctl' = ctl /\ out' = out
        /\ call'.params = params
        /\ read' = [ctl |-> ctl[params.PinNumber], out |-> out[params.PinNumber]]
        /\ serial' = Completed({[ctl |-> read'.ctl, out |-> read'.out, mine |-> FALSE]}, params)
    BY <2>2 DEF GpioConfig, pinVars
  <2> DEFINE u == [ctl |-> ctl[params.PinNumber], out |-> out[params.PinNumber], mine |-> FALSE]
  <2>5. serial' = Completed({u}, params)
    BY <2>4
  <2>6. params \in ConfigParams /\ params.PinNumber \in Pins
    BY <2>1, AnyParamsType DEF ConfigParams
  <2>7. u \in Outcomes
    BY <2>6 DEF Outcomes, PinsTypeOK
  <2>8. /\ u.ctl = ctl[params.PinNumber] /\ u.out = out[params.PinNumber] /\ ~u.mine
        /\ read'.ctl = u.ctl
    BY <2>4
  <2> HIDE DEF u
  <2>9. PICK e : e = u
    OBVIOUS
  <2>10. /\ serial' \subseteq Outcomes /\ e \in serial'
         /\ \E m \in serial' : m.mine /\ Follows(m, e, params)
    BY <2>5, <2>6, <2>7, <2>8, <2>9, CompletedHas
  <2>11. Pending(e)' /\ e.ctl = ctl'[call'.params.PinNumber]
    BY <2>4, <2>8, <2>9, <2>10 DEF Pending
  <2> QED  BY <2>3, <2>10, <2>11 DEF SerialInv, Configuring
<1>24. CASE \E params \in Params : ProtocolGpioConfig(params)
  <2> PICK params \in Params : ProtocolGpioConfig(params)
    BY <1>24
  <2>1. params \in AnyParams
    BY DEF AnyParams
  <2>2. GpioConfig(params)
    BY DEF ProtocolGpioConfig
  <2>3. pc' = "control"
    BY <1>24 DEF ProtocolGpioConfig, Goto
  <2>4. /\ ctl' = ctl /\ out' = out
        /\ call'.params = params
        /\ read' = [ctl |-> ctl[params.PinNumber], out |-> out[params.PinNumber]]
        /\ serial' = Completed({[ctl |-> read'.ctl, out |-> read'.out, mine |-> FALSE]}, params)
    BY <2>2 DEF GpioConfig, pinVars
  <2> DEFINE u == [ctl |-> ctl[params.PinNumber], out |-> out[params.PinNumber], mine |-> FALSE]
  <2>5. serial' = Completed({u}, params)
    BY <2>4
  <2>6. params \in ConfigParams /\ params.PinNumber \in Pins
    BY <2>1, AnyParamsType DEF ConfigParams
  <2>7. u \in Outcomes
    BY <2>6 DEF Outcomes, PinsTypeOK
  <2>8. /\ u.ctl = ctl[params.PinNumber] /\ u.out = out[params.PinNumber] /\ ~u.mine
        /\ read'.ctl = u.ctl
    BY <2>4
  <2> HIDE DEF u
  <2>9. PICK e : e = u
    OBVIOUS
  <2>10. /\ serial' \subseteq Outcomes /\ e \in serial'
         /\ \E m \in serial' : m.mine /\ Follows(m, e, params)
    BY <2>5, <2>6, <2>7, <2>8, <2>9, CompletedHas
  <2>11. Pending(e)' /\ e.ctl = ctl'[call'.params.PinNumber]
    BY <2>4, <2>8, <2>9, <2>10 DEF Pending
  <2> QED  BY <2>3, <2>10, <2>11 DEF SerialInv, Configuring
<1>25. CASE WriteControlRegister
  <2>1. /\ call.params \in ConfigParams /\ call.params.PinNumber \in Pins
        /\ read.ctl \in Controls
    BY <1>25, AnyParamsType DEF WriteControlRegister, CallFits, Configuring, Goto, ConfigParams
  <2> DEFINE p == call.params.PinNumber
  <2>2. /\ ctl' = [ctl EXCEPT ![p] = Control(read.ctl, call.params)]
        /\ UNCHANGED <<out, call, read, serial>> /\ pc = "control" /\ pc' = "value"
    BY <1>25 DEF WriteControlRegister, WriteControl, Goto, history
  <2>3. PICK u \in serial : Pending(u) /\ u.ctl = ctl[p]
    BY <2>2 DEF SerialInv
  <2>4. Pending(u)'
    BY <2>2, <2>3 DEF Pending
  <2>5. ctl'[p] = Control(read.ctl, call.params)
    BY <2>1, <2>2 DEF PinsTypeOK
  <2>6. ASSUME ~WritesValue(call.params)
        PROVE  \E s \in serial' : Explains(s)'
    <3>1. PICK m \in serial : m.mine /\ Follows(m, u, call.params)
      BY <2>3 DEF Pending
    <3>2. Same(m.ctl, ctl'[p], call.params)
      <4>1. u.ctl \in {read.ctl, Driven(read.ctl)}
        BY <2>3 DEF Pending
      <4> QED  BY <2>1, <2>5, <3>1, <4>1, SameControl DEF Follows
    <3>3. m.out = out[p]
      BY <2>3, <2>6, <3>1 DEF Pending, Follows
    <3>4. Explains(m)'
      BY <2>2, <3>1, <3>2, <3>3 DEF Explains
    <3> QED  BY <2>2, <3>1, <3>4
  <2> QED  BY <2>2, <2>3, <2>4, <2>5, <2>6 DEF SerialInv, Configuring
<1>26. CASE WriteValueRegister
  <2>1. /\ call.params \in ConfigParams /\ call.params.PinNumber \in Pins
        /\ read.ctl \in Controls
    BY <1>26, AnyParamsType DEF WriteValueRegister, CallFits, Configuring, Goto, ConfigParams
  <2> DEFINE p == call.params.PinNumber
  <2>2. /\ out' = IF WritesValue(call.params)
                    THEN [out EXCEPT ![p] = call.params.OutputValue] ELSE out
        /\ UNCHANGED <<ctl, call, read, serial>> /\ pc = "value" /\ pc' = "done"
    BY <1>26 DEF WriteValueRegister, WriteValue, Goto, history
  <2>3. \E s \in serial : Explains(s)'
    <3>1. CASE WritesValue(call.params)
      <4>1. PICK u \in serial : Pending(u)
        BY <2>2 DEF SerialInv
      <4>2. PICK m \in serial : m.mine /\ Follows(m, u, call.params)
        BY <4>1 DEF Pending
      <4>3. m.ctl = Control(u.ctl, call.params) /\ m.out = call.params.OutputValue
        BY <3>1, <4>2 DEF Follows
      <4>4. out'[p] = call.params.OutputValue
        BY <2>1, <2>2, <3>1 DEF PinsTypeOK
      <4>5. Same(m.ctl, ctl[p], call.params)
        <5>1. u.ctl \in {read.ctl, Driven(read.ctl)}
          BY <4>1 DEF Pending
        <5>2. ctl[p] = Control(read.ctl, call.params)
          BY <2>2, <3>1 DEF SerialInv
        <5> QED  BY <2>1, <4>3, <5>1, <5>2, SameControl
      <4>6. Explains(m)'
        BY <2>2, <4>2, <4>3, <4>4, <4>5 DEF Explains
      <4> QED  BY <4>6
    <3>2. CASE ~WritesValue(call.params)
      <4>1. PICK s \in serial : Explains(s)
        BY <2>2, <3>2 DEF SerialInv
      <4>2. Explains(s)'
        BY <2>2, <3>2, <4>1 DEF Explains
      <4> QED  BY <4>2
    <3> QED  BY <3>1, <3>2
  <2> QED  BY <2>2, <2>3 DEF SerialInv, Configuring
<1>27. CASE \E irq \in Irqs : Interrupt(irq)
  <2>1. UNCHANGED <<ctl, out, pc, call, read, serial>>
    BY <1>27 DEF Interrupt, pinVars, thread, history
  <2> QED  BY <2>1, Frozen
<1>28. CASE HandlerReturns
  <2>1. UNCHANGED <<ctl, out, pc, call, read, serial>>
    BY <1>28 DEF HandlerReturns, pinVars, thread, history
  <2> QED  BY <2>1, Frozen
<1>29. CASE UNCHANGED vars
  <2>1. UNCHANGED <<ctl, out, pc, call, read, serial>>
    BY <1>29 DEF vars, pinVars, thread, history
  <2> QED  BY <2>1, Frozen
<1>30. CASE \E v \in Values : HandlerSetsIoValue(v)
  <2> PICK v \in Values : HandlerSetsIoValue(v)
    BY <1>30
  <2> DEFINE H == SetIoValue(HandlerPin, v)
             P == call.params
  <2>1. /\ GpioSetConfig(H) /\ UNCHANGED <<pc, call, read>>
        /\ serial' = IF serial # {} /\ P.PinNumber = HandlerPin
                       THEN Completed({After(s, H) : s \in serial}, P) ELSE serial
    BY DEF HandlerSetsIoValue, thread
  <2>2. /\ ctl' = [ctl EXCEPT ![HandlerPin] = Driven(ctl[HandlerPin])]
        /\ out' = [out EXCEPT ![HandlerPin] = v]
    BY <2>1, HandlerSets
  <2>3. CASE serial = {}
    BY <2>1, <2>3 DEF SerialInv, Configuring
  <2>4. CASE serial # {} /\ P.PinNumber # HandlerPin
    <3>1. Configuring /\ P \in ConfigParams
      BY <2>4, AnyParamsType DEF SerialInv, CallFits
    <3>2. P.PinNumber \in Pins /\ serial' = serial
      BY <2>1, <2>4, <3>1 DEF ConfigParams
    <3>3. ctl'[P.PinNumber] = ctl[P.PinNumber] /\ out'[P.PinNumber] = out[P.PinNumber]
      BY <2>2, <2>4, <3>2 DEF PinsTypeOK
    <3>4. \A s : (Pending(s) => Pending(s)') /\ (Explains(s) => Explains(s)')
      BY <2>1, <3>2, <3>3 DEF Pending, Explains
    <3> HIDE DEF P
    <3> QED  BY <2>1, <3>2, <3>3, <3>4 DEF SerialInv, Configuring, P
  <2>5. CASE serial # {} /\ P.PinNumber = HandlerPin
    <3>1. Configuring /\ P \in ConfigParams /\ read.ctl \in Controls
      BY <2>5, AnyParamsType DEF SerialInv, CallFits
    <3>2. HandlerPin \in Pins
      BY TestPinAssumption
    <3>3. ctl'[HandlerPin] = Driven(ctl[HandlerPin]) /\ out'[HandlerPin] = v
          /\ ctl[HandlerPin] \in Controls
      BY <2>2, <3>2 DEF PinsTypeOK
    <3> DEFINE mid == {After(s, H) : s \in serial}
    <3>4. serial \subseteq Outcomes
      BY DEF SerialInv
    <3>5. \A s \in serial : /\ After(s, H) \in Outcomes /\ After(s, H).mine = s.mine
                           /\ After(s, H).ctl = Driven(s.ctl) /\ After(s, H).out = v
      BY <3>4, AfterHandler
    <3>6. mid \subseteq Outcomes /\ \A s \in serial : After(s, H) \in mid
      BY <3>5
    <3>7. serial' = Completed(mid, P)
      BY <2>1, <2>5
    <3> HIDE DEF mid, P, H
    <3>8. /\ serial' \subseteq Outcomes /\ mid \subseteq serial'
          /\ \A u \in mid : ~u.mine => \E m \in serial' : m.mine /\ Follows(m, u, P)
      BY <3>1, <3>6, <3>7, CompletedHas
    <3>9. ASSUME NEW u \in serial, Pending(u)
          PROVE  /\ After(u, H) \in serial' /\ Pending(After(u, H))'
                 /\ After(u, H).ctl = Driven(u.ctl)
      <4>1. /\ After(u, H) \in mid /\ ~After(u, H).mine
            /\ After(u, H).ctl = Driven(u.ctl) /\ After(u, H).out = v
        BY <3>5, <3>6, <3>9 DEF Pending
      <4>2. Driven(u.ctl) \in {read.ctl, Driven(read.ctl)}
        <5>1. \A c : Driven(Driven(c)) = Driven(c)
          BY DEF Driven
        <5>2. u.ctl \in {read.ctl, Driven(read.ctl)}
          BY <3>9 DEF Pending
        <5> QED  BY <5>1, <5>2
      <4>3. PICK e : e = After(u, H)
        OBVIOUS
      <4>4. Pending(e)'
        <5>1. ~e.mine /\ \E m \in serial' : m.mine /\ Follows(m, e, call'.params)
          BY <2>1, <3>8, <4>1, <4>3 DEF P
        <5>2. e.ctl \in {read'.ctl, Driven(read'.ctl)}
          BY <2>1, <4>1, <4>2, <4>3
        <5>3. e.out = out'[call'.params.PinNumber]
          BY <2>1, <2>5, <3>3, <4>1, <4>3 DEF P
        <5> QED  BY <5>1, <5>2, <5>3 DEF Pending
      <4> QED  BY <3>8, <4>1, <4>3, <4>4
    <3>10. ASSUME NEW s \in serial, Explains(s)
           PROVE  After(s, H) \in serial' /\ Explains(After(s, H))'
      <4>1. /\ After(s, H) \in serial' /\ After(s, H).mine
            /\ After(s, H).ctl = Driven(s.ctl) /\ After(s, H).out = v
        BY <3>5, <3>6, <3>8, <3>10 DEF Explains
      <4>2. Same(Driven(s.ctl), Driven(ctl[HandlerPin]), P)
        <5>1. Same(s.ctl, ctl[HandlerPin], P) /\ s.ctl \in Controls
          BY <2>5, <3>4, <3>10 DEF Explains, P, Outcomes
        <5> QED  BY <3>3, <5>1, SameDriven
      <4> QED  BY <2>1, <2>5, <3>3, <4>1, <4>2 DEF Explains, P
    <3>11. pc = "control" => \E u \in serial' : Pending(u)' /\ u.ctl = ctl'[HandlerPin]
      <4> SUFFICES ASSUME pc = "control"
                   PROVE  \E u \in serial' : Pending(u)' /\ u.ctl = ctl'[HandlerPin]
        OBVIOUS
      <4>1. PICK u \in serial : Pending(u) /\ u.ctl = ctl[HandlerPin]
        BY <2>5 DEF SerialInv, P
      <4> QED  BY <3>3, <3>9, <4>1
    <3>12. pc = "value" => \E u \in serial' : Pending(u)'
      BY <3>9 DEF SerialInv
    <3>13. pc = "value" /\ WritesValue(P) => ctl'[HandlerPin] = Control(read.ctl, P)
      <4> SUFFICES ASSUME pc = "value", WritesValue(P)
                   PROVE  ctl'[HandlerPin] = Control(read.ctl, P)
        OBVIOUS
      <4>1. ctl[HandlerPin] = Control(read.ctl, P)
        BY <2>5 DEF SerialInv, P
      <4>2. Driven(Control(read.ctl, P)) = Control(read.ctl, P)
        BY <3>1, ValueType, DrivenOutput
      <4> QED  BY <3>3, <4>1, <4>2
    <3>14. pc = "value" /\ ~WritesValue(P) => \E s \in serial' : Explains(s)'
      BY <3>10 DEF SerialInv, P
    <3>15. pc = "done" => \E s \in serial' : Explains(s)'
      BY <3>10 DEF SerialInv
    <3>16. serial' # {}
      BY <2>5, <3>6, <3>8
    <3>17. Configuring' /\ call' = call /\ read' = read /\ pc' = pc
      BY <2>1, <3>1 DEF Configuring
    <3> QED  BY <2>5, <3>8, <3>11, <3>12, <3>13, <3>14, <3>15, <3>16, <3>17 DEF SerialInv, P
  <2> QED  BY <2>3, <2>4, <2>5
<1> QED
  BY <1>1, <1>2, <1>3, <1>4, <1>5, <1>6, <1>7, <1>8, <1>9, <1>10, <1>11, <1>12, <1>13, <1>14,
     <1>15, <1>16, <1>17, <1>18, <1>19, <1>20, <1>21, <1>22, <1>23, <1>24, <1>25, <1>26, <1>27, <1>28,
     <1>29, <1>30
     DEF Next, Entry, Config, Register, Unregister

\* The registers of a configured pin are what its call and the handlers that
\* interrupted it give one after the other, in some order.
THEOREM ConfiguredInSomeOrder == Spec => []Serial
<1>1. ASSUME TypeInv, SerialInv
      PROVE  Serial
  <2>1. pc = "done" => \E s \in serial : Explains(s)
    BY <1>1 DEF SerialInv
  <2>2. ASSUME serial # {}
        PROVE  \E s \in serial : s.out = out[call.params.PinNumber]
    <3>1. pc \in {"control", "value", "done"}
      BY <1>1, <2>2 DEF SerialInv, Configuring
    <3> QED  BY <1>1, <3>1 DEF SerialInv, Pending, Explains
  <2> QED  BY <2>1, <2>2 DEF Serial, Explains, Same
<1> QED  BY <1>1, TypeInvInit, TypeInvNext, SerialInvInit, SerialInvNext, PTL DEF Spec
=============================================================================
