------------------------------ MODULE MCI2cBus ------------------------------
(* The devices of Controller::Init, behind an adapter with the SMBus method, *)
(* and those of the tests: the switch without internal address and with the  *)
(* plain method, and an EEPROM with an address of two bytes.                 *)
EXTENDS I2cBus

Info(addr, iaddr_bytes, method) ==
  [addr |-> addr, iaddr_bytes |-> iaddr_bytes, tenbit |-> FALSE, method |-> method]

MCDevice ==
  [drv    |-> Info(90, 1, "smbus"),
   tca    |-> Info(112, 1, "smbus"),
   byte   |-> Info(112, 0, "smbus"),
   plain  |-> Info(112, 0, "plain"),
   eeprom |-> Info(80, 2, "smbus")]

MCDevices == DOMAIN MCDevice

=============================================================================
