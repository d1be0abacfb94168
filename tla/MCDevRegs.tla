----------------------------- MODULE MCDevRegs -----------------------------
\* Two disks, as on a machine with more than one device on a line.
EXTENDS DevRegs

MCInstalled == {<<3, 0>>, <<3, 1>>}
=============================================================================
