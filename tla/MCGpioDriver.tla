---------------------------- MODULE MCGpioDriver ----------------------------
(***************************************************************************)
(* Pins and regions for TLC: the test pin, which handlers set too; a       *)
(* reserved pin; two pins at the end of a bank of the PDC, in two regions, *)
(* the second of which is past the SPI configuration; and one that no      *)
(* region maps.                                                            *)
(***************************************************************************)
EXTENDS GpioDriver

CONSTANTS led, reserved, button, sensor, unmapped

MCPdcRegion ==
  <<[PdcPinBase |-> 31, GicSpiBase |-> 62, PdcCount |-> 2],
    [PdcPinBase |-> 64, GicSpiBase |-> 64, PdcCount |-> 1]>>
MCPdcPinNumber ==
  [p \in {button, sensor, unmapped} |->
     CASE p = button -> 31 [] p = sensor -> 64 [] p = unmapped -> 33]

MCParams ==
  {GpioInitConfigParams(led),
   [GpioInitConfigParams(led) EXCEPT !.Pull = 3],
   [GpioInitConfigParams(led) EXCEPT !.OutputEnable = TRUE, !.DriveStrength = 3],
   [GpioInitConfigParams(led) EXCEPT !.OutputEnable = TRUE, !.OutputValue = 1],
   [GpioInitConfigParams(reserved) EXCEPT !.OutputEnable = TRUE]}
=============================================================================
