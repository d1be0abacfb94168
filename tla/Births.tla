------------------------------- MODULE Births -------------------------------
(***************************************************************************)
(* Handlers with a history of when the present process of each pcb was     *)
(* created, to say which times are its own.                                *)
(***************************************************************************)
EXTENDS Handlers

VARIABLE born               \* history: what the clock read at the creation of the process

BirthsInit == HandlersInit /\ born = [p \in Pcb |-> 1]
BirthsNext ==
  /\ HandlersNext
  /\ born' = [p \in Pcb |-> IF life'[p] /= life[p] THEN now ELSE born[p]]
BirthsSpec == BirthsInit /\ [][BirthsNext]_<<handlerVars, born>>

(***************************************************************************)
(* "Tempo passato dalla prima attivazione del processo" (syscall.c:84): no *)
(* process is told of more wallclock time, nor of more user time, than has *)
(* passed since it was created.                                            *)
(***************************************************************************)
ReportsOwnTimes ==
  \A p \in Pcb :
    LET r == report[p]
    IN  r.at /= 0 => r.wall <= r.at - born[p] /\ r.user <= r.at - born[p]
=============================================================================
