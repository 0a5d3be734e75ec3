---------------------------- MODULE MCDriverModule ----------------------------
(* The drivers that the run is about, and two measurements whose high and low *)
(* bits differ; as a temperature, the second is below zero.                   *)
EXTENDS DriverUse

MCDrivers ==
    {"led", "newchrled", "dtsled", "gpioled", "leddriver", "myclass",
     "key", "timer", "keyirq", "blockio", "noblockio", "fasync", "keyinput",
     "miscbeep", "ap3216c", "icm20608", "ft5x06", "helloDev", "globalmem",
     "chardev", "sysfstest", "xbus", "xdev", "xdrv"}

MCMeasures == {6, 40000}
=============================================================================
