------------------------------ MODULE GpioPins ------------------------------
(***************************************************************************)
(* The registers that configure a GPIO pin and hold its output value, and  *)
(* what GpioSetConfig makes of them.  Each pin has registers of its own.   *)
(***************************************************************************)
EXTENDS Naturals

CONSTANTS
  Pins,            \* pins of the TLMM
  Reserved,        \* those the library refuses to touch: a call returns at once
  PullUpNoKeeper,  \* the controller has no keeper: a pull-up is encoded as one
  Unchange         \* GPIO_FUNC_UNCHANGE and its like

GPIO_PULL_NONE == 0
GPIO_PULL_UP_NO_KEEPER == 2
GPIO_PULL_UP == 3

Functions == 0 .. 15
Pulls == 0 .. 3
DriveStrengths == 0 .. 7
Values == 0 .. 1

ASSUME ReservedAssumption == Reserved \subseteq Pins
ASSUME KeeperAssumption == PullUpNoKeeper \in BOOLEAN
ASSUME UnchangeAssumption == Unchange \notin 0 .. 15

VARIABLES
  ctl,   \* ctl[p]: the control register, by its fields
  out    \* out[p]: the output bit of the value register

pinVars == <<ctl, out>>

Controls == [FunctionSel : Functions, OutputEnable : BOOLEAN,
             Pull : Pulls, DriveStrength : DriveStrengths]

PinsTypeOK == ctl \in [Pins -> Controls] /\ out \in [Pins -> Values]

\* The parameters of a call: a field that is not Unchange is of its enumeration.
ConfigParams ==
  [PinNumber : Pins, OutputEnable : BOOLEAN, FunctionSel : Functions \cup {Unchange},
   Pull : Pulls \cup {Unchange}, DriveStrength : DriveStrengths \cup {Unchange},
   OutputValue : Values \cup {Unchange}]

GpioInitConfigParams(p) ==
  [PinNumber |-> p, OutputEnable |-> FALSE, FunctionSel |-> Unchange,
   Pull |-> Unchange, DriveStrength |-> Unchange, OutputValue |-> Unchange]

Asked(value, old) == IF value = Unchange THEN old ELSE value

\* The control register that GpioSetConfig computes from the one it has read:
\* an output has no pull, and an input keeps its drive strength.
Control(c, params) ==
  [FunctionSel |-> Asked(params.FunctionSel, c.FunctionSel),
   OutputEnable |-> params.OutputEnable,
   Pull |-> CASE params.OutputEnable -> GPIO_PULL_NONE
              [] ~params.OutputEnable /\ PullUpNoKeeper /\ params.Pull = GPIO_PULL_UP ->
                   GPIO_PULL_UP_NO_KEEPER
              [] OTHER -> Asked(params.Pull, c.Pull),
   DriveStrength |-> IF params.OutputEnable THEN Asked(params.DriveStrength, c.DriveStrength)
                     ELSE c.DriveStrength]

\* The value register is written for an output whose value is asked for.
WritesValue(params) == params.OutputEnable /\ params.OutputValue # Unchange

WriteControl(p, c) == ctl' = [ctl EXCEPT ![p] = c]
WriteValue(p, v) == out' = [out EXCEPT ![p] = v]

\* ProtocolGpioSetIOValue.
SetIoValue(p, v) == [GpioInitConfigParams(p) EXCEPT !.OutputEnable = TRUE, !.OutputValue = v]

\* GpioSetConfig from its first read to its last write, undisturbed.
GpioSetConfig(params) ==
  LET p == params.PinNumber IN
  /\ p \notin Reserved
  /\ WriteControl(p, Control(ctl[p], params))
  /\ WriteValue(p, IF WritesValue(params) THEN params.OutputValue ELSE out[p])
=============================================================================
