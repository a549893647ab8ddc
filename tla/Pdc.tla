-------------------------------- MODULE Pdc ---------------------------------
(***************************************************************************)
(* The power domain controller, which passes the signals of its pins on to *)
(* shared peripheral interrupts of the GIC: the mapping of its pins, and   *)
(* its registers.                                                          *)
(***************************************************************************)
EXTENDS Naturals, Sequences, FiniteSets

CONSTANTS
  PdcRegion,      \* ranges of pins: PdcPinBase, GicSpiBase, PdcCount
  SPIConfigBase,  \* 0 if there is no SPI configuration register
  SPIConfigSize,  \* size of those registers in bytes
  NotFound        \* neither an interrupt nor a pin

RegionAssumption ==
  /\ PdcRegion \in Seq([PdcPinBase : Nat, GicSpiBase : Nat, PdcCount : Nat \ {0}])
  /\ \A i, j \in DOMAIN PdcRegion : i # j =>
       /\ \/ PdcRegion[i].PdcPinBase + PdcRegion[i].PdcCount <= PdcRegion[j].PdcPinBase
          \/ PdcRegion[j].PdcPinBase + PdcRegion[j].PdcCount <= PdcRegion[i].PdcPinBase
       /\ \/ PdcRegion[i].GicSpiBase + PdcRegion[i].PdcCount <= PdcRegion[j].GicSpiBase
          \/ PdcRegion[j].GicSpiBase + PdcRegion[j].PdcCount <= PdcRegion[i].GicSpiBase
ASSUME RegionsApart == RegionAssumption
ASSUME SPIConfigAssumption == SPIConfigBase \in Nat /\ SPIConfigSize \in Nat
ASSUME NotFoundAssumption == NotFound \notin Nat

VARIABLES
  enableBank,  \* enableBank[n]: the bits set in PDC_IRQ_ENABLE_BANK n
  irqCfg,      \* irqCfg[pin]: PDC_IRQ_I_CFG
  spiConfig    \* the bits set in the SPI configuration registers, as SPIs

pdcVars == <<enableBank, irqCfg, spiConfig>>

\* GIC_SPI: the number of a shared peripheral interrupt at the GIC.
GIC_SPI(x) == 32 + x

-----------------------------------------------------------------------------
(* The mapping.                                                            *)

First(S) == CHOOSE i \in S : \A j \in S : i <= j

\* (slip) A region is taken to hold one pin too many.
PdcGetGicIrqFromPdcPinOnePast(pin) ==
  LET hits == {i \in DOMAIN PdcRegion :
                 /\ pin >= PdcRegion[i].PdcPinBase
                 /\ pin <= PdcRegion[i].PdcPinBase + PdcRegion[i].PdcCount}
      region == PdcRegion[First(hits)]
  IN  IF hits = {} THEN NotFound
      ELSE GIC_SPI(region.GicSpiBase + (pin - region.PdcPinBase))

PdcGetGicIrqFromPdcPin(pin) ==
  LET hits == {i \in DOMAIN PdcRegion :
                 /\ pin >= PdcRegion[i].PdcPinBase
                 /\ pin < PdcRegion[i].PdcPinBase + PdcRegion[i].PdcCount}
      region == PdcRegion[First(hits)]
  IN  IF hits = {} THEN NotFound
      ELSE GIC_SPI(region.GicSpiBase + (pin - region.PdcPinBase))

PdcGetPdcPinFromGicIrq(irq) ==
  LET hits == {i \in DOMAIN PdcRegion :
                 /\ irq >= GIC_SPI(PdcRegion[i].GicSpiBase)
                 /\ irq < GIC_SPI(PdcRegion[i].GicSpiBase + PdcRegion[i].PdcCount)}
      region == PdcRegion[First(hits)]
  IN  IF hits = {} THEN NotFound
      ELSE region.PdcPinBase + (irq - GIC_SPI(region.GicSpiBase))

MappedPins ==
  UNION {PdcRegion[i].PdcPinBase .. (PdcRegion[i].PdcPinBase + PdcRegion[i].PdcCount - 1) :
           i \in DOMAIN PdcRegion}
Banks == {pin \div 32 : pin \in MappedPins}

-----------------------------------------------------------------------------
(* The registers.                                                          *)

TriggerTypes == {"EDGE_RISING", "EDGE_FALLING", "EDGE_BOTH", "LEVEL_HIGH", "LEVEL_LOW"}

PdcIrqConfig(type) ==
  CASE type = "LEVEL_LOW" -> 0
    [] type = "EDGE_FALLING" -> 2
    [] type = "LEVEL_HIGH" -> 4
    [] type = "EDGE_RISING" -> 6
    [] type = "EDGE_BOTH" -> 7

\* (slip) The GIC is left to detect a low level.
GicTypeAsAsked(type) == IF type \in {"EDGE_FALLING", "EDGE_BOTH"} THEN "EDGE_RISING" ELSE type

\* The PDC inverts what the GIC does not support.
GicType(type) ==
  CASE type \in {"EDGE_FALLING", "EDGE_BOTH"} -> "EDGE_RISING"
    [] type = "LEVEL_LOW" -> "LEVEL_HIGH"
    [] OTHER -> type

PdcTypeOK ==
  /\ enableBank \in [Banks -> SUBSET (0 .. 31)]
  /\ irqCfg \in [MappedPins -> 0 .. 7]
  /\ spiConfig \subseteq {PdcGetGicIrqFromPdcPin(pin) - GIC_SPI(0) : pin \in MappedPins}

\* PdcCheckInterruptEnabled.
PdcEnabled(pin) == pin % 32 \in enableBank[pin \div 32]

\* (slip) The number of the bit is written where its mask is meant.
PdcEnableInterruptNumber(pin, Enable) ==
  /\ enableBank' =
       [enableBank EXCEPT ![pin \div 32] =
          IF Enable THEN @ \cup {k \in 0 .. 4 : ((pin % 32) \div 2 ^ k) % 2 = 1} ELSE @ \ {pin % 32}]
  /\ UNCHANGED <<irqCfg, spiConfig>>

PdcEnableInterrupt(pin, Enable) ==
  /\ enableBank' =
       [enableBank EXCEPT ![pin \div 32] = IF Enable THEN @ \cup {pin % 32} ELSE @ \ {pin % 32}]
  /\ UNCHANGED <<irqCfg, spiConfig>>

\* The register that would hold the bit of an SPI is past the end.  The one
\* that begins at the end is let through.
OutOfSpiRange(spi) == (spi \div 32) * 4 > SPIConfigSize

NeedsSpiConfig(type) == SPIConfigBase # 0 /\ type \in {"LEVEL_HIGH", "LEVEL_LOW"}

\* PdcGicSetType writes the configuration of the pin before it finds that
\* the SPI is out of range.  A bit once set is never cleared.
TypeRefused(pin, type) ==
  NeedsSpiConfig(type) /\ OutOfSpiRange(PdcGetGicIrqFromPdcPin(pin) - GIC_SPI(0))

PdcGicSetType(pin, type) ==
  /\ irqCfg' = [irqCfg EXCEPT ![pin] = PdcIrqConfig(type)]
  /\ spiConfig' = IF NeedsSpiConfig(type) /\ ~TypeRefused(pin, type)
                    THEN spiConfig \cup {PdcGetGicIrqFromPdcPin(pin) - GIC_SPI(0)}
                    ELSE spiConfig
  /\ UNCHANGED enableBank

\* PdcPinsMapping, at the start: for each pin the digits of its bit's number
\* are cleared in its bank.
BinaryDigits(n) == {k \in 0 .. 4 : (n \div 2 ^ k) % 2 = 1}

PdcPinsMapping ==
  /\ enableBank' =
       [n \in Banks |-> enableBank[n] \
          UNION {BinaryDigits(pin % 32) : pin \in {q \in MappedPins : q \div 32 = n}}]
  /\ UNCHANGED <<irqCfg, spiConfig>>
=============================================================================
