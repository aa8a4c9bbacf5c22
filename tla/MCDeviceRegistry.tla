-------------------------- MODULE MCDeviceRegistry --------------------------
EXTENDS DeviceRegistry, TLC

CONSTANTS d1, d2, d3, d4, segMod, devMod, macMod

MCDevs == {d1, d2, d3, d4}

MCSymmetry == Permutations(MCDevs)
====
