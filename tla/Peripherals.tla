----------------------------- MODULE Peripherals ------------------------------
(***************************************************************************)
(* The peripheral flags ECU::setPeripheralFlags copies from the saved      *)
(* configuration before ECU::begin.  Each is a check box of its own on the *)
(* settings page: all eight combinations are configurations a user can     *)
(* save.                                                                   *)
(***************************************************************************)
CONSTANTS
    I2cEnabled,             \* _i2cEnabled
    SpiExpandersEnabled,    \* _spiExpandersEnabled
    Expander0Enabled        \* _expander0Enabled

ASSUME PeripheralsAssumption ==
    {I2cEnabled, SpiExpandersEnabled, Expander0Enabled} \subseteq BOOLEAN
===============================================================================
