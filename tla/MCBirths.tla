------------------------------ MODULE MCBirths ------------------------------
\* The pcb of a child that has died is used again.
EXTENDS Births

MCTypes == {PrgTrap}
MCReporting == {1}
=============================================================================
