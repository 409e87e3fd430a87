-------------------------------- MODULE MCBoot --------------------------------
(* Trees of up to five nodes three deep, with two serial drivers, three    *)
(* single devices and two kinds of bus, on registries of two.              *)
EXTENDS Boot, TLC

CONSTANTS uart, usb, i2c, spi

MCSerialDrivers == {uart, usb}
MCBuses == {i2c, spi}
===============================================================================
