----------------------------- MODULE MCHandlers -----------------------------
\* Two pcbs, so that the first process creates, outlives and replaces its child.
EXTENDS Handlers

MCTypes == {PrgTrap}
MCRegistering == {1}
MCReporting == {1}
=============================================================================
