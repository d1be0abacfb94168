--------------------------- MODULE HandlersProofs ---------------------------
(***************************************************************************)
(* A process never goes on with a state that is not its own, for any       *)
(* number of pcbs, lives and types of exceptions; and the times the kernel *)
(* accounts, for any width of the clock.                                   *)
(***************************************************************************)
EXTENDS Handlers, TLAPS

State == [owner : Pcb \cup {NULL}, life : Nat, at : Int]
Status == {"free", "ready", "running", "blocked"}
Phase == {"user", "timer", "device", "call", "return", "tlb", "pgmtrap"}

TypeInv ==
  /\ current \in Pcb \cup {NULL}
  /\ status \in [Pcb -> Status]
  /\ phase \in Phase
  /\ p_parent \in [Pcb -> Pcb \cup {NULL}]
  /\ life \in [Pcb -> Nat]
  /\ cpu \in State
  /\ p_s \in [Pcb -> State]
  /\ mem \in [Areas -> State]
  /\ spec_assigned \in [Pcb -> SUBSET Types]
  /\ spec_oarea \in [Pcb -> [ExcType -> Areas \cup {<<>>}]]
  /\ spec_narea \in [Pcb -> [ExcType -> Areas \cup {<<>>}]]

Alive(p) == status[p] /= "free"

\* A state of its own that, if it is in a handler, the process can come back from.
Known(p, st) ==
  /\ OwnState(p, st)
  /\ st.at \in spec_assigned[p] => mem[area("old", p, st.at)].at /= Unused

\* The areas of a process that lives hold the start of its handler and, once they have been
\* used, a state of its own.
Registered(p, t) ==
  /\ p \in Registering
  /\ spec_oarea[p][t] = area("old", p, t)
  /\ spec_narea[p][t] = area("new", p, t)
  /\ mem[area("new", p, t)] = stateAt(p, life[p], t)
  /\ mem[area("old", p, t)].at /= Unused => Known(p, mem[area("old", p, t)])

StatesInv ==
  \A p \in Pcb : Alive(p) => /\ Known(p, p_s[p])
                             /\ \A t \in spec_assigned[p] : Registered(p, t)
CurrentInv ==
  /\ current /= NULL => Alive(current) /\ Known(current, cpu)
  /\ phase \notin {"user", "timer", "device"} => current /= NULL

\* The tree: fathers live, and come before their children in some order.
Older(rank) == \A q \in Pcb : p_parent[q] /= NULL => rank[p_parent[q]] < rank[q]
TreeInv ==
  /\ \A q \in Pcb : p_parent[q] /= NULL => Alive(p_parent[q])
  /\ \E rank \in [Pcb -> Nat] : Older(rank)

IInv == TypeInv /\ StatesInv /\ CurrentInv /\ TreeInv

\* The first process is one of the pcbs, and NULL is none.
LEMMA RootIsPcb == root \in Pcb /\ NULL \notin Pcb
BY MAXPROCAssumption DEF root, Pcb, NULL

\* Program and Unused are no types of exceptions.
LEMMA TypesAreExceptions ==
  /\ Types \subseteq ExcType /\ ExcType \subseteq Int /\ Registering \subseteq Pcb
  /\ Program \in Int \ ExcType /\ Unused \in Int \ ExcType /\ Program /= Unused
BY HandlersAssumption DEF ExcType, SysBp, Tlb, PrgTrap, Program, Unused

\* The areas of registering processes are areas, and all different.
LEMMA AreasOf ==
  /\ \A p \in Registering, t \in Types : area("old", p, t) \in Areas /\ area("new", p, t) \in Areas
  /\ \A p, q, t, u : /\ area("old", p, t) /= area("new", q, u)
                     /\ area("old", p, t) = area("old", q, u) => p = q /\ t = u
                     /\ area("new", p, t) = area("new", q, u) => p = q /\ t = u
BY DEF area, Areas

\* stateAt makes states.
LEMMA StateAtIsState ==
  \A p \in Pcb \cup {NULL}, l \in Nat, at \in Int :
    /\ stateAt(p, l, at) \in State
    /\ stateAt(p, l, at).owner = p /\ stateAt(p, l, at).life = l /\ stateAt(p, l, at).at = at
BY DEF stateAt, State

\* The initial states satisfy the invariant.
LEMMA InitIInv == HandlersInit => IInv
<1> SUFFICES ASSUME HandlersInit PROVE IInv
  OBVIOUS
<1> USE RootIsPcb, TypesAreExceptions, StateAtIsState
<1>1. life \in [Pcb -> Nat] /\ \A p \in Pcb : life[p] \in Nat
  BY DEF HandlersInit
<1>2. \A a \in Areas : a[2] \in Pcb
  BY DEF Areas
<1>3. p_s \in [Pcb -> State] /\ mem \in [Areas -> State] /\ cpu \in State
  BY <1>1, <1>2 DEF HandlersInit
<1>4. TypeInv
  BY <1>1, <1>3 DEF HandlersInit, TypeInv, initSpec, Status, Phase
<1>5. StatesInv
  BY <1>1 DEF HandlersInit, StatesInv, Alive, Known, OwnState, initSpec
<1>6. CurrentInv
  BY <1>1 DEF HandlersInit, CurrentInv, Alive, Known, OwnState, initSpec
<1>7. TreeInv
  <2>1. \A q \in Pcb : p_parent[q] = NULL
    BY DEF HandlersInit
  <2>2. [p \in Pcb |-> 0] \in [Pcb -> Nat]
    OBVIOUS
  <2> QED
    BY <2>1, <2>2 DEF TreeInv, Older
<1> QED
  BY <1>4, <1>5, <1>6, <1>7 DEF IInv

\* The invariant implies the property.
LEMMA IInvImplies == IInv => ResumesOwnState
BY DEF IInv, TypeInv, StatesInv, CurrentInv, ResumesOwnState, Known, Alive

-----------------------------------------------------------------------------
(***************************************************************************)
(* Steps that leave the areas, their registration and the lives alone.     *)
(***************************************************************************)
FrameStep ==
  /\ UNCHANGED <<mem, specVars, life>>
  /\ \A p \in Pcb : Alive(p)' => Alive(p)
  /\ \A p \in Pcb : p_s'[p] = p_s[p] \/ (p = current /\ p_s'[p] = cpu)

\* What was known of a state still is.
LEMMA FrameKnown ==
  ASSUME UNCHANGED <<mem, specVars, life>>
  PROVE  \A p, st : Known(p, st) <=> Known(p, st)'
BY DEF Known, OwnState, specVars

\* Such steps preserve what is said of the states that are not in the processor.
LEMMA FrameStates ==
  ASSUME IInv, FrameStep
  PROVE  StatesInv'
<1> SUFFICES ASSUME NEW p \in Pcb, Alive(p)'
             PROVE  /\ Known(p, p_s[p])'
                    /\ \A t \in spec_assigned'[p] : Registered(p, t)'
  BY DEF StatesInv
<1>1. Alive(p)
  BY DEF FrameStep
<1>2. Known(p, p_s[p]) /\ \A t \in spec_assigned[p] : Registered(p, t)
  BY <1>1 DEF IInv, StatesInv
<1>3. Known(p, p_s[p])'
  <2>1. Known(p, p_s'[p])
    BY <1>2, RootIsPcb DEF FrameStep, IInv, CurrentInv
  <2> QED
    BY <2>1 DEF FrameStep, Known, OwnState, specVars
<1>4. \A t \in spec_assigned'[p] : Registered(p, t)'
  BY <1>2 DEF FrameStep, Registered, Known, OwnState, specVars
<1> QED
  BY <1>3, <1>4

\* The current process of the next state goes on as it was saved, or as it was.
FrameCurrent ==
  /\ \/ current' = NULL
     \/ /\ current' \in Pcb /\ status'[current'] /= "free"
        /\ \/ cpu' = p_s'[current']
           \/ current' = current /\ cpu' = cpu
  /\ phase' \notin {"user", "timer", "device"} => current' /= NULL

\* Then the processor has a state of its own in it.
LEMMA FrameCurrentInv ==
  ASSUME IInv, FrameStep, FrameCurrent
  PROVE  CurrentInv'
<1>1. StatesInv'
  BY FrameStates
<1>2. current' /= NULL => (Known(current, cpu))'
  <2> SUFFICES ASSUME current' /= NULL PROVE (Known(current, cpu))'
    OBVIOUS
  <2>1. CASE cpu' = p_s'[current']
    BY <1>1, <2>1 DEF FrameCurrent, StatesInv, Known, OwnState, Alive
  <2>2. CASE current' = current /\ cpu' = cpu
    <3>1. Known(current, cpu)
      BY <2>2 DEF IInv, CurrentInv
    <3> QED
      BY <2>2, <3>1 DEF FrameStep, Known, OwnState, specVars, area
  <2> QED
    BY <2>1, <2>2 DEF FrameCurrent
<1> QED
  BY <1>2 DEF FrameCurrent, CurrentInv, Alive

\* The tree is not changed, and nobody dies.
LEMMA SameTree ==
  ASSUME IInv, UNCHANGED p_parent, \A p \in Pcb : Alive(p) => Alive(p)'
  PROVE  TreeInv'
<1>1. \A q \in Pcb : p_parent[q] \in Pcb \cup {NULL}
  BY DEF IInv, TypeInv
<1>2. \A q \in Pcb : p_parent'[q] /= NULL => Alive(p_parent[q])'
  BY <1>1 DEF IInv, TreeInv, Alive
<1>3. \A rank : Older(rank) => Older(rank)'
  BY DEF Older
<1> QED
  BY <1>2, <1>3 DEF IInv, TreeInv, Alive

\* A process and its progeny die together: who remains keeps a father that lives.
LEMMA ProgenyClosed ==
  ASSUME NEW x \in Pcb
  PROVE  /\ x \in Progeny(x)
         /\ \A c \in Pcb : p_parent[c] \in Progeny(x) => c \in Progeny(x)
BY DEF Progeny

\* The tree after a death.
LEMMA TreeAfterDeath ==
  ASSUME IInv, NEW x \in Pcb, unlink(Progeny(x)),
         \A p \in Pcb : Alive(p) /\ p \notin Progeny(x) => Alive(p)'
  PROVE  TreeInv'
<1>1. \A q \in Pcb : p_parent'[q] /= NULL => q \notin Progeny(x) /\ p_parent'[q] = p_parent[q]
  BY DEF unlink
<1>2. \A q \in Pcb : p_parent'[q] /= NULL => Alive(p_parent[q])'
  BY <1>1, ProgenyClosed DEF IInv, TypeInv, TreeInv
<1>3. \A rank : Older(rank) => Older(rank)'
  BY <1>1 DEF Older
<1>4. \A q \in Pcb : p_parent'[q] /= NULL => Alive(p_parent[q])' /\ p_parent'[q] = p_parent[q]
  BY <1>1, <1>2
<1> QED
  BY <1>3, <1>4 DEF IInv, TreeInv, Alive

\* The progeny of a process is younger than the process.
LEMMA ProgenyYounger ==
  ASSUME IInv, NEW rank \in [Pcb -> Nat], Older(rank), NEW x \in Pcb
  PROVE  \A q \in Progeny(x) : q = x \/ rank[x] < rank[q]
<1> DEFINE S == {q \in Pcb : q = x \/ rank[x] < rank[q]}
<1>1. \A c \in Pcb : p_parent[c] \in S => c \in S
  <2> SUFFICES ASSUME NEW c \in Pcb, p_parent[c] \in S PROVE c \in S
    OBVIOUS
  <2>1. p_parent[c] \in Pcb /\ p_parent[c] /= NULL
    BY RootIsPcb
  <2>2. rank[p_parent[c]] < rank[c]
    BY <2>1 DEF Older
  <2>3. rank[p_parent[c]] \in Nat /\ rank[c] \in Nat /\ rank[x] \in Nat
    BY <2>1
  <2> QED
    BY <2>2, <2>3
<1>2. x \in S /\ S \in SUBSET Pcb
  OBVIOUS
<1> HIDE DEF S
<1>3. \A q \in Progeny(x) : q \in S
  BY <1>1, <1>2 DEF Progeny
<1> QED
  BY <1>3 DEF S

\* So nobody is in the progeny of a process of its own progeny.
LEMMA NotOwnAncestor ==
  ASSUME IInv, NEW x \in Pcb, NEW y \in Progeny(x) \ {x}
  PROVE  x \notin Progeny(y)
<1>1. PICK rank \in [Pcb -> Nat] : Older(rank)
  BY DEF IInv, TreeInv
<1>2. y \in Pcb
  BY DEF Progeny
<1>3. rank[x] < rank[y]
  BY <1>1, ProgenyYounger
<1>4. x \in Progeny(y) => x = y \/ rank[y] < rank[x]
  BY <1>1, <1>2, ProgenyYounger
<1>5. rank[x] \in Nat /\ rank[y] \in Nat
  BY <1>2
<1> QED
  BY <1>3, <1>4, <1>5

\* What scheduler() leaves: the state of a ready process as it was saved, or no process.
Dispatched ==
  /\ status' \in [Pcb -> Status]
  /\ \/ current' = NULL /\ cpu' \in State
     \/ /\ current' \in Pcb /\ status'[current'] = "running"
        /\ cpu' = p_s[current'] /\ cpu' \in State

\* scheduler() loads a ready process or none, and frees nobody.
LEMMA DispatchFacts ==
  ASSUME TypeInv
  PROVE  \A st \in [Pcb -> Status] : dispatch(st) =>
           Dispatched /\ \A p \in Pcb : st[p] = "free" <=> status'[p] = "free"
<1> SUFFICES ASSUME NEW st \in [Pcb -> Status], dispatch(st)
             PROVE  Dispatched /\ \A p \in Pcb : st[p] = "free" <=> status'[p] = "free"
  OBVIOUS
<1>1. CASE \E p \in Pcb : /\ st[p] = "ready"
                          /\ current' = p
                          /\ status' = [st EXCEPT ![p] = "running"]
                          /\ cpu' = p_s[p]
  BY <1>1 DEF TypeInv, Status, Dispatched
<1>2. CASE current' = NULL /\ status' = st /\ cpu' = stateAt(NULL, 0, Program)
  BY <1>2, StateAtIsState, TypesAreExceptions DEF Dispatched
<1> QED
  BY <1>1, <1>2 DEF dispatch

-----------------------------------------------------------------------------
(***************************************************************************)
(* The actions, one by one.                                                *)
(***************************************************************************)
\* Types of what the frame of most actions leaves unchanged.
LEMMA FrameType ==
  ASSUME TypeInv, UNCHANGED <<mem, specVars, life>>,
         status' \in [Pcb -> Status], current' \in Pcb \cup {NULL}, phase' \in Phase,
         p_parent' \in [Pcb -> Pcb \cup {NULL}], cpu' \in State, p_s' \in [Pcb -> State]
  PROVE  TypeInv'
BY DEF TypeInv, specVars

\* What the actions with a running process know of it.
LEMMA CurrentIsPcb ==
  ASSUME IInv, current /= NULL
  PROVE  current \in Pcb /\ Alive(current) /\ Known(current, cpu)
BY DEF IInv, TypeInv, CurrentInv

\* The clock is not part of the invariant.
LEMMA TickStep == IInv /\ Tick => IInv'
<1> SUFFICES ASSUME IInv, Tick PROVE IInv'
  OBVIOUS
<1>1. UNCHANGED <<cpu, p_s, mem, specVars, current, status, p_parent, life, phase>>
  BY DEF Tick, procVars
<1>2. TypeInv'
  BY <1>1 DEF IInv, TypeInv, specVars
<1>3. FrameStep /\ FrameCurrent
  BY <1>1 DEF FrameStep, FrameCurrent, IInv, TypeInv, CurrentInv, Alive
<1>4. TreeInv'
  BY <1>1, SameTree DEF Alive
<1> QED
  BY <1>2, <1>3, <1>4, FrameStates, FrameCurrentInv DEF IInv

\* The entries of int_handler and syscall_handler save the state of the running process.
LEMMA SaveStep ==
  ASSUME IInv, UNCHANGED <<cpu, mem, specVars, procVars>>, phase' \in Phase,
         \/ p_s' = p_s
         \/ current /= NULL /\ updateCurrentProc(current, cpu),
         phase' \in {"user", "timer", "device"} \/ current /= NULL
  PROVE  IInv'
<1>1. p_s' \in [Pcb -> State]
  BY DEF IInv, TypeInv, updateCurrentProc
<1>2. UNCHANGED <<cpu, mem, specVars, current, status, p_parent, life>>
  BY DEF procVars
<1>3. TypeInv'
  BY <1>1, <1>2, FrameType DEF IInv, TypeInv
<1>4. FrameStep
  BY <1>2 DEF FrameStep, IInv, TypeInv, updateCurrentProc, Alive
<1>5. FrameCurrent
  BY <1>2 DEF FrameCurrent, IInv, TypeInv, CurrentInv, Alive
<1>6. TreeInv'
  BY <1>2, SameTree DEF Alive
<1> QED
  BY <1>3, <1>4, <1>5, <1>6, FrameStates, FrameCurrentInv DEF IInv

\* A dispatch that nobody comes to life by.
LEMMA DispatchStep ==
  ASSUME IInv, UNCHANGED <<p_s, mem, specVars, life>>,
         Dispatched, phase' = "user",
         \A p \in Pcb : Alive(p)' => Alive(p),
         p_parent' \in [Pcb -> Pcb \cup {NULL}], TreeInv'
  PROVE  IInv'
<1>1. TypeInv'
  BY FrameType DEF Dispatched, IInv, TypeInv, Phase
<1>2. FrameStep
  BY DEF FrameStep
<1>3. FrameCurrent
  BY DEF FrameCurrent, Dispatched
<1> QED
  BY <1>1, <1>2, <1>3, FrameStates, FrameCurrentInv DEF IInv

\* An interrupt or a call that kills nobody and dispatches.
LEMMA DispatchAllLive ==
  ASSUME IInv, UNCHANGED <<p_s, mem, specVars, life, p_parent>>, phase' = "user",
         \E st \in [Pcb -> Status] :
           /\ dispatch(st)
           /\ \A p \in Pcb : st[p] = "free" <=> status[p] = "free"
  PROVE  IInv'
<1>1. PICK st \in [Pcb -> Status] :
        dispatch(st) /\ \A p \in Pcb : st[p] = "free" <=> status[p] = "free"
  OBVIOUS
<1>2. Dispatched /\ \A p \in Pcb : st[p] = "free" <=> status'[p] = "free"
  BY <1>1, DispatchFacts DEF IInv
<1>3. \A p \in Pcb : Alive(p)' <=> Alive(p)
  BY <1>1, <1>2 DEF Alive
<1>4. TreeInv' /\ p_parent' \in [Pcb -> Pcb \cup {NULL}]
  BY <1>3, SameTree DEF IInv, TypeInv
<1> QED
  BY <1>2, <1>3, <1>4, DispatchStep

\* The timer: the running process becomes ready.
LEMMA TimerStep == IInv /\ TimerInterrupt => IInv'
<1> SUFFICES ASSUME IInv, TimerInterrupt PROVE IInv'
  OBVIOUS
<1> DEFINE st == IF current = NULL THEN status ELSE [status EXCEPT ![current] = "ready"]
<1>1. st \in [Pcb -> Status]
  BY DEF IInv, TypeInv, Status
<1>2. \A p \in Pcb : st[p] = "free" <=> status[p] = "free"
  BY CurrentIsPcb DEF IInv, TypeInv, Alive
<1>3. dispatch(st)
  BY DEF TimerInterrupt
<1> HIDE DEF st
<1> QED
  BY <1>1, <1>2, <1>3, DispatchAllLive DEF TimerInterrupt

\* A call that blocks: the running process becomes blocked.
LEMMA BlockStep == IInv /\ BlockCall => IInv'
<1> SUFFICES ASSUME IInv, BlockCall PROVE IInv'
  OBVIOUS
<1> DEFINE st == [status EXCEPT ![current] = "blocked"]
<1>1. current \in Pcb /\ Alive(current)
  BY CurrentIsPcb DEF IInv, CurrentInv, BlockCall, InCall
<1>2. st \in [Pcb -> Status] /\ \A p \in Pcb : st[p] = "free" <=> status[p] = "free"
  BY <1>1 DEF IInv, TypeInv, Status, Alive
<1>3. dispatch(st)
  BY DEF BlockCall
<1> HIDE DEF st
<1> QED
  BY <1>2, <1>3, DispatchAllLive DEF BlockCall

\* A process that is woken was not free.
LEMMA WakeStatus ==
  ASSUME IInv
  PROVE  \A st \in {status} \cup {[status EXCEPT ![p] = "ready"] : p \in Blocked} :
           st \in [Pcb -> Status] /\ \A p \in Pcb : st[p] = "free" <=> status[p] = "free"
BY DEF IInv, TypeInv, Status, Blocked

\* A step of the running process that leaves every state where it is.
LEMMA StayStep ==
  ASSUME IInv, UNCHANGED <<p_s, mem, specVars, life, current>>,
         cpu' = cpu \/ (current /= NULL /\ cpu' = p_s[current]), phase' \in Phase,
         current /= NULL \/ phase' = "user",
         status' \in [Pcb -> Status], \A p \in Pcb : Alive(p)' => Alive(p),
         current /= NULL => Alive(current)',
         p_parent' \in [Pcb -> Pcb \cup {NULL}], TreeInv'
  PROVE  IInv'
<1>1. TypeInv'
  BY FrameType DEF IInv, TypeInv
<1>2. FrameStep
  BY DEF FrameStep
<1>3. FrameCurrent
  BY DEF FrameCurrent, Alive, IInv, TypeInv
<1> QED
  BY <1>1, <1>2, <1>3, FrameStates, FrameCurrentInv DEF IInv

\* The devices: the interrupted process goes on, or one is dispatched.
LEMMA DeviceStep == IInv /\ DeviceInterrupt => IInv'
<1> SUFFICES ASSUME IInv, DeviceInterrupt PROVE IInv'
  OBVIOUS
<1>1. PICK st \in {status} \cup {[status EXCEPT ![p] = "ready"] : p \in Blocked} :
        IF current = NULL THEN dispatch(st)
        ELSE status' = st /\ UNCHANGED <<current, cpu>>
  BY DEF DeviceInterrupt
<1>2. st \in [Pcb -> Status] /\ \A p \in Pcb : st[p] = "free" <=> status[p] = "free"
  BY WakeStatus
<1>3. CASE current = NULL
  BY <1>1, <1>2, <1>3, DispatchAllLive DEF DeviceInterrupt
<1>4. CASE current /= NULL
  <2>1. \A p \in Pcb : Alive(p)' <=> Alive(p)
    BY <1>1, <1>2, <1>4 DEF Alive
  <2>2. TreeInv' /\ p_parent' \in [Pcb -> Pcb \cup {NULL}]
    BY <2>1, SameTree DEF DeviceInterrupt, IInv, TypeInv
  <2>3. Alive(current)'
    BY <1>1, <1>2, <1>4, CurrentIsPcb DEF Alive
  <2> QED
    BY <1>1, <1>2, <1>4, <2>1, <2>2, <2>3, StayStep DEF DeviceInterrupt, Phase
<1> QED
  BY <1>3, <1>4

\* A call that returns, and may wake a process.
LEMMA OtherCallStep == IInv /\ OtherCall => IInv'
<1> SUFFICES ASSUME IInv, OtherCall PROVE IInv'
  OBVIOUS
<1>1. PICK st \in {status} \cup {[status EXCEPT ![p] = "ready"] : p \in Blocked} : status' = st
  BY DEF OtherCall
<1>2. st \in [Pcb -> Status] /\ \A p \in Pcb : st[p] = "free" <=> status[p] = "free"
  BY WakeStatus
<1>3. current \in Pcb /\ current /= NULL /\ Alive(current)
  BY CurrentIsPcb DEF IInv, CurrentInv, OtherCall, InCall
<1>4. \A p \in Pcb : Alive(p)' <=> Alive(p)
  BY <1>1, <1>2 DEF Alive
<1>5. TreeInv' /\ p_parent' \in [Pcb -> Pcb \cup {NULL}]
  BY <1>4, SameTree DEF OtherCall, IInv, TypeInv
<1>6. Alive(current)'
  BY <1>1, <1>2, <1>3 DEF Alive, OtherCall
<1> QED
  BY <1>1, <1>2, <1>3, <1>4, <1>5, <1>6, StayStep DEF OtherCall, Phase

\* A call or a return that changes neither the status of a process nor the tree.
LEMMA QuietStep ==
  ASSUME IInv, UNCHANGED <<p_s, mem, specVars, procVars>>, current /= NULL, phase' \in Phase,
         cpu' = cpu \/ cpu' = p_s[current]
  PROVE  IInv'
<1>1. UNCHANGED <<current, status, p_parent, life>>
  BY DEF procVars
<1>2. \A p \in Pcb : Alive(p)' <=> Alive(p)
  BY <1>1 DEF Alive
<1>3. TreeInv'
  BY <1>1, <1>2, SameTree
<1>4. Alive(current)'
  BY <1>1, CurrentIsPcb DEF Alive
<1>5. status' \in [Pcb -> Status] /\ p_parent' \in [Pcb -> Pcb \cup {NULL}]
  BY <1>1 DEF IInv, TypeInv
<1> QED
  BY <1>1, <1>2, <1>3, <1>4, <1>5, StayStep

\* terminate_process on another process: the running one is not in its progeny.
LEMMA TerminateOtherStep == IInv /\ TerminateOther => IInv'
<1> SUFFICES ASSUME IInv, TerminateOther PROVE IInv'
  OBVIOUS
<1>1. current \in Pcb /\ current /= NULL /\ Alive(current)
  BY CurrentIsPcb DEF IInv, CurrentInv, TerminateOther, InCall
<1>2. PICK pid \in Progeny(current) \ {current} :
        status' = without(Progeny(pid)) /\ unlink(Progeny(pid))
  BY DEF TerminateOther
<1>3. pid \in Pcb /\ current \notin Progeny(pid)
  BY <1>1, NotOwnAncestor DEF Progeny
<1>4. /\ status' \in [Pcb -> Status]
      /\ p_parent' \in [Pcb -> Pcb \cup {NULL}]
      /\ \A p \in Pcb : /\ Alive(p)' => Alive(p)
                        /\ Alive(p) /\ p \notin Progeny(pid) => Alive(p)'
  BY <1>2 DEF without, unlink, IInv, TypeInv, Status, Alive
<1>5. TreeInv'
  BY <1>2, <1>3, <1>4, TreeAfterDeath
<1>6. Alive(current)'
  BY <1>1, <1>2, <1>3 DEF without, Alive, TerminateOther
<1> QED
  BY <1>1, <1>4, <1>5, <1>6, StayStep DEF TerminateOther, Phase

\* The running process dies with its progeny.
LEMMA DieStep ==
  ASSUME IInv, die, current /= NULL
  PROVE  IInv'
<1> DEFINE st == without(Progeny(current))
<1>1. current \in Pcb
  BY CurrentIsPcb
<1>2. /\ st \in [Pcb -> Status]
      /\ \A p \in Pcb : st[p] = "free" <=> status[p] = "free" \/ p \in Progeny(current)
  BY DEF without, IInv, TypeInv, Status
<1>3. dispatch(st) /\ unlink(Progeny(current))
  BY DEF die
<1> HIDE DEF st
<1>4. Dispatched /\ \A p \in Pcb : st[p] = "free" <=> status'[p] = "free"
  BY <1>2, <1>3, DispatchFacts DEF IInv
<1>5. \A p \in Pcb : /\ Alive(p)' => Alive(p)
                     /\ Alive(p) /\ p \notin Progeny(current) => Alive(p)'
  BY <1>2, <1>4 DEF Alive
<1>6. TreeInv'
  BY <1>1, <1>3, <1>5, TreeAfterDeath
<1>7. p_parent' \in [Pcb -> Pcb \cup {NULL}]
  BY <1>3 DEF unlink, IInv, TypeInv
<1> QED
  BY <1>4, <1>5, <1>6, <1>7, DispatchStep DEF die

\* create_process: the new pcb is in a new life, without handlers, and nobody's father.
LEMMA CreateStep == IInv /\ create_process => IInv'
<1> SUFFICES ASSUME IInv, create_process PROVE IInv'
  OBVIOUS
<1>1. current \in Pcb /\ current /= NULL /\ Alive(current) /\ Known(current, cpu)
  BY CurrentIsPcb DEF IInv, CurrentInv, create_process, InCall
<1>2. PICK p \in Pcb :
        /\ status[p] = "free"
        /\ status' = [status EXCEPT ![p] = "ready"]
        /\ life' = [life EXCEPT ![p] = @ + 1]
        /\ p_parent' = [p_parent EXCEPT ![p] = current]
        /\ p_s' = [p_s EXCEPT ![p] = stateAt(p, life'[p], Program)]
        /\ clearSpec(p)
  BY DEF create_process
<1>3. current /= p
  BY <1>1, <1>2 DEF Alive
<1>4. stateAt(p, life'[p], Program) \in State
  BY <1>2, StateAtIsState, TypesAreExceptions DEF IInv, TypeInv
<1>5. TypeInv'
  BY <1>1, <1>2, <1>4 DEF create_process, clearSpec, IInv, TypeInv, Status, Phase
<1>6. \A q \in Pcb : \A s : q /= p => (Known(q, s) <=> Known(q, s)')
  BY <1>2 DEF create_process, clearSpec, Known, OwnState, IInv, TypeInv
<1>7. \A q \in Pcb : q /= p => (Alive(q) <=> Alive(q)') /\ p_s'[q] = p_s[q]
                              /\ spec_assigned'[q] = spec_assigned[q]
  BY <1>2 DEF clearSpec, Alive, IInv, TypeInv
<1>8. StatesInv'
  <2> SUFFICES ASSUME NEW q \in Pcb, Alive(q)'
               PROVE  /\ Known(q, p_s[q])'
                      /\ \A t \in spec_assigned'[q] : Registered(q, t)'
    BY DEF StatesInv
  <2>1. CASE q = p
    <3>1. spec_assigned'[p] = {} /\ p_s'[p] = stateAt(p, life'[p], Program)
      BY <1>2 DEF clearSpec, IInv, TypeInv
    <3>2. life'[p] \in Nat
      BY <1>5 DEF TypeInv
    <3> QED
      BY <2>1, <3>1, <3>2, StateAtIsState, TypesAreExceptions DEF Known, OwnState
  <2>2. CASE q /= p
    <3>1. Known(q, p_s[q]) /\ \A t \in spec_assigned[q] : Registered(q, t)
      BY <1>7, <2>2 DEF IInv, StatesInv
    <3>2. Known(q, p_s[q])'
      BY <1>6, <1>7, <2>2, <3>1 DEF Known, OwnState
    <3>3. \A t \in spec_assigned'[q] : Registered(q, t)'
      BY <1>2, <1>7, <2>2, <3>1
         DEF create_process, clearSpec, Registered, Known, OwnState, IInv, TypeInv
    <3> QED
      BY <3>2, <3>3
  <2> QED
    BY <2>1, <2>2
<1>9. CurrentInv'
  <2>1. current' = current /\ cpu' = cpu
    BY DEF create_process
  <2>2. Alive(current)'
    BY <1>1, <1>3, <1>7, <2>1 DEF Alive
  <2>3. Known(current, cpu)'
    BY <1>1, <1>3, <1>6, <2>1 DEF Known, OwnState, area
  <2> QED
    BY <1>1, <2>1, <2>2, <2>3 DEF CurrentInv
<1>10. TreeInv'
  <2>1. PICK rank \in [Pcb -> Nat] : Older(rank)
    BY DEF IInv, TreeInv
  <2>2. \A q \in Pcb : p_parent[q] /= NULL => p_parent[q] \in Pcb /\ p_parent[q] /= p
    BY <1>2 DEF IInv, TypeInv, TreeInv, Alive
  <2>3. PICK k \in Nat : k = rank[current] + 1
    BY <1>1
  <2> DEFINE new == [rank EXCEPT ![p] = k]
  <2>4. new \in [Pcb -> Nat]
    OBVIOUS
  <2>5. Older(new)'
    <3> SUFFICES ASSUME NEW q \in Pcb, p_parent'[q] /= NULL
                 PROVE  new[p_parent'[q]] < new[q]
      BY DEF Older
    <3>1. CASE q = p
      BY <1>1, <1>2, <1>3, <2>3, <3>1 DEF IInv, TypeInv
    <3>2. CASE q /= p
      <4>1. p_parent'[q] = p_parent[q] /\ p_parent[q] /= p /\ p_parent[q] \in Pcb
        BY <1>2, <2>2, <3>2 DEF IInv, TypeInv
      <4>2. rank[p_parent[q]] < rank[q]
        BY <2>1, <4>1 DEF Older
      <4> QED
        BY <3>2, <4>1, <4>2
    <3> QED
      BY <3>1, <3>2
  <2> HIDE DEF new
  <2>6. \A q \in Pcb : p_parent'[q] /= NULL => Alive(p_parent[q])'
    <3> SUFFICES ASSUME NEW q \in Pcb, p_parent'[q] /= NULL PROVE Alive(p_parent[q])'
      OBVIOUS
    <3>1. CASE q = p
      BY <1>1, <1>2, <1>3, <1>7, <3>1 DEF IInv, TypeInv, Alive
    <3>2. CASE q /= p
      BY <1>2, <1>7, <2>2, <3>2 DEF IInv, TypeInv, TreeInv, Alive
    <3> QED
      BY <3>1, <3>2
  <2> QED
    BY <2>4, <2>5, <2>6 DEF TreeInv
<1> QED
  BY <1>5, <1>8, <1>9, <1>10 DEF IInv

\* SPECPASSUP: no state of the process is in the handler of the type it registers now.
LEMMA SpecPassUpStep == IInv /\ SpecPassUp => IInv'
<1> SUFFICES ASSUME IInv, SpecPassUp PROVE IInv'
  OBVIOUS
<1> USE RootIsPcb, TypesAreExceptions
<1>1. current \in Pcb /\ current \in Registering /\ current /= NULL /\ Alive(current)
  BY CurrentIsPcb DEF IInv, CurrentInv, SpecPassUp, InCall
<1>2. PICK t \in Types :
        /\ spec_passup(current, t, area("old", current, t), area("new", current, t))
        /\ mem' = IF t \in spec_assigned[current] THEN mem
                  ELSE [mem EXCEPT ![area("new", current, t)] = stateAt(current, life[current], t),
                                   ![area("old", current, t)] = stateAt(current, 0, Unused)]
  BY DEF SpecPassUp
<1>3. UNCHANGED <<cpu, p_s, current, status, p_parent, life>> /\ phase' = "return"
  BY DEF SpecPassUp, procVars
<1>4. CASE t \in spec_assigned[current]
  <2>1. UNCHANGED <<mem, specVars>>
    BY <1>2, <1>4 DEF spec_passup
  <2> QED
    BY <1>1, <2>1, QuietStep DEF SpecPassUp, Phase
<1>5. CASE t \notin spec_assigned[current]
  <2> DEFINE old == area("old", current, t)
             new == area("new", current, t)
             start == stateAt(current, life[current], t)
             blank == stateAt(current, 0, Unused)
  <2>1. old \in Areas /\ new \in Areas /\ old /= new /\ t \in ExcType
    BY <1>1, AreasOf
  <2>2. /\ start \in State /\ blank \in State /\ blank.at = Unused
        /\ start.owner = current /\ start.life = life[current] /\ start.at = t
    BY <1>1, <2>1, StateAtIsState DEF IInv, TypeInv
  <2>3. /\ mem' = [mem EXCEPT ![new] = start, ![old] = blank]
        /\ spec_assigned' = [spec_assigned EXCEPT ![current] = @ \cup {t}]
        /\ spec_oarea' = [spec_oarea EXCEPT ![current][t] = old]
        /\ spec_narea' = [spec_narea EXCEPT ![current][t] = new]
    BY <1>2, <1>5 DEF spec_passup
  <2>4. \A p \in Pcb, u \in Types : area("old", p, u) = old => p = current /\ u = t
    BY AreasOf
  <2>5. \A p \in Pcb, u \in Types : area("new", p, u) = new => p = current /\ u = t
    BY AreasOf
  <2>6. \A p, u : area("old", p, u) /= new /\ area("new", p, u) /= old
    BY AreasOf
  <2> HIDE DEF old, new, start, blank
  <2>7. /\ mem' \in [Areas -> State] /\ mem'[new] = start /\ mem'[old] = blank
        /\ \A a \in Areas : a /= new /\ a /= old => mem'[a] = mem[a]
    BY <2>1, <2>2, <2>3 DEF IInv, TypeInv
  <2>8. /\ spec_assigned' \in [Pcb -> SUBSET Types]
        /\ spec_assigned'[current] = spec_assigned[current] \cup {t}
        /\ \A p \in Pcb \ {current} : spec_assigned'[p] = spec_assigned[p]
    BY <1>1, <2>3 DEF IInv, TypeInv
  <2>9. /\ spec_oarea' \in [Pcb -> [ExcType -> Areas \cup {<<>>}]]
        /\ spec_narea' \in [Pcb -> [ExcType -> Areas \cup {<<>>}]]
        /\ spec_oarea'[current][t] = old /\ spec_narea'[current][t] = new
        /\ \A p \in Pcb, u \in ExcType : p /= current \/ u /= t =>
             spec_oarea'[p][u] = spec_oarea[p][u] /\ spec_narea'[p][u] = spec_narea[p][u]
    BY <1>1, <2>1, <2>3 DEF IInv, TypeInv
  <2>10. TypeInv'
    BY <1>3, <2>7, <2>8, <2>9 DEF IInv, TypeInv, Phase
  <2>11. \A p \in Pcb : \A u \in spec_assigned[p] : Registered(p, u) =>
           /\ u \in Types /\ p \in Registering /\ (p /= current \/ u /= t)
           /\ mem'[area("old", p, u)] = mem[area("old", p, u)]
           /\ mem'[area("new", p, u)] = mem[area("new", p, u)]
    BY <1>5, <2>4, <2>5, <2>6, <2>7, AreasOf DEF Registered, IInv, TypeInv
  <2>12. \A p \in Pcb : Alive(p) => \A s : Known(p, s) => Known(p, s)'
    <3> SUFFICES ASSUME NEW p \in Pcb, Alive(p), NEW s, Known(p, s) PROVE Known(p, s)'
      OBVIOUS
    <3>1. OwnState(p, s)' /\ (s.at \in spec_assigned'[p] => s.at \in spec_assigned[p])
      BY <1>3, <1>5, <2>8 DEF Known, OwnState
    <3>2. s.at \in spec_assigned[p] => mem'[area("old", p, s.at)] = mem[area("old", p, s.at)]
      BY <2>11 DEF IInv, StatesInv
    <3> QED
      BY <3>1, <3>2 DEF Known
  <2>13. \A p \in Pcb : Alive(p) => \A u \in spec_assigned'[p] : Registered(p, u)'
    <3> SUFFICES ASSUME NEW p \in Pcb, Alive(p), NEW u \in spec_assigned'[p]
                 PROVE  Registered(p, u)'
      OBVIOUS
    <3>1. CASE p = current /\ u = t
      BY <1>1, <1>3, <2>2, <2>7, <2>9, <3>1 DEF Registered, old, new, start
    <3>2. CASE p /= current \/ u /= t
      <4>1. u \in spec_assigned[p] /\ Registered(p, u)
        BY <2>8, <3>2 DEF IInv, StatesInv
      <4>2. /\ mem'[area("old", p, u)] = mem[area("old", p, u)]
            /\ mem'[area("new", p, u)] = mem[area("new", p, u)]
            /\ u \in ExcType
        BY <2>11, <4>1
      <4>3. spec_oarea'[p][u] = spec_oarea[p][u] /\ spec_narea'[p][u] = spec_narea[p][u]
        BY <2>9, <3>2, <4>2
      <4>4. mem[area("old", p, u)].at /= Unused => Known(p, mem[area("old", p, u)])'
        BY <2>12, <4>1, <4>2 DEF Registered, Known, OwnState
      <4> QED
        BY <1>3, <4>1, <4>2, <4>3, <4>4 DEF Registered, Known, OwnState
    <3> QED
      BY <3>1, <3>2
  <2>14. StatesInv'
    BY <1>3, <2>12, <2>13 DEF StatesInv, IInv, Alive, Known, OwnState
  <2>15. CurrentInv'
    BY <1>1, <1>3, <2>12 DEF CurrentInv, IInv, Alive, Known, OwnState, area
  <2>16. TreeInv'
    BY <1>3, SameTree DEF Alive
  <2> QED
    BY <2>10, <2>14, <2>15, <2>16 DEF IInv
<1> QED
  BY <1>4, <1>5

\* An exception passed up: its handler starts, and the state it may come back to is known.
LEMMA PassItUpStep == IInv /\ PassItUp => IInv'
<1> SUFFICES ASSUME IInv, PassItUp PROVE IInv'
  OBVIOUS
<1> USE RootIsPcb, TypesAreExceptions
<1>1. current \in Pcb /\ current /= NULL /\ Alive(current) /\ Known(current, cpu)
  BY CurrentIsPcb DEF IInv, CurrentInv, PassItUp
<1> DEFINE t == TypeIn(phase)
           old == area("old", current, t)
           new == area("new", current, t)
<1>2. t \in spec_assigned[current] /\ t \in Types
  BY <1>1 DEF PassItUp, IInv, TypeInv
<1>3. Registered(current, t)
  BY <1>1, <1>2 DEF IInv, StatesInv
<1>4. /\ spec_oarea[current][t] = old /\ spec_narea[current][t] = new
      /\ mem[new] = stateAt(current, life[current], t)
      /\ old \in Areas /\ new \in Areas /\ old /= new
  BY <1>2, <1>3, AreasOf DEF Registered
<1>5. /\ p_s' = [p_s EXCEPT ![current] = cpu]
      /\ mem' = [mem EXCEPT ![old] = cpu]
      /\ cpu' = mem'[new]
  BY <1>4 DEF PassItUp, passUp, updateCurrentProc
<1>6. UNCHANGED <<specVars, current, status, p_parent, life>> /\ phase' = "user"
  BY DEF PassItUp, procVars
<1>7. mem' \in [Areas -> State] /\ mem'[old] = cpu /\ \A a \in Areas \ {old} : mem'[a] = mem[a]
  BY <1>4, <1>5 DEF IInv, TypeInv
<1>8. cpu' = stateAt(current, life[current], t)
  BY <1>4, <1>5, <1>7
<1>9. \A p, u : area("new", p, u) /= old
  BY AreasOf
<1>10. \A p, u : area("old", p, u) = old => p = current /\ u = t
  BY AreasOf
<1> HIDE DEF old, new, t
<1>11. TypeInv'
  <2>1. cpu' \in State /\ p_s' \in [Pcb -> State]
    BY <1>4, <1>5, <1>7 DEF IInv, TypeInv
  <2> QED
    BY <1>6, <1>7, <2>1 DEF IInv, TypeInv, specVars, Phase
<1>12. cpu.at /= Unused
  BY <1>1 DEF Known, OwnState, IInv, TypeInv
<1>13. \A p \in Pcb : Alive(p) => \A s : Known(p, s) => Known(p, s)'
  <2> SUFFICES ASSUME NEW p \in Pcb, Alive(p), NEW s, Known(p, s) PROVE Known(p, s)'
    OBVIOUS
  <2>1. OwnState(p, s)' /\ spec_assigned' = spec_assigned
    BY <1>6 DEF Known, OwnState, specVars
  <2>2. s.at \in spec_assigned[p] => mem'[area("old", p, s.at)].at /= Unused
    <3>1. CASE area("old", p, s.at) = old
      BY <1>7, <1>12, <3>1
    <3>2. CASE s.at \in spec_assigned[p] /\ area("old", p, s.at) /= old
      <4>1. s.at \in Types /\ p \in Registering
        BY <3>2 DEF IInv, TypeInv, StatesInv, Registered
      <4>2. area("old", p, s.at) \in Areas
        BY <4>1, AreasOf
      <4> QED
        BY <1>7, <3>2, <4>2 DEF Known
    <3> QED
      BY <3>1, <3>2
  <2> QED
    BY <2>1, <2>2 DEF Known
<1>14. \A p \in Pcb : Alive(p) => \A u \in spec_assigned'[p] : Registered(p, u)'
  <2> SUFFICES ASSUME NEW p \in Pcb, Alive(p), NEW u \in spec_assigned'[p]
               PROVE  Registered(p, u)'
    OBVIOUS
  <2>1. u \in spec_assigned[p] /\ u \in Types
    BY <1>6 DEF specVars, IInv, TypeInv
  <2>2. Registered(p, u)
    BY <2>1 DEF IInv, StatesInv
  <2>3. area("old", p, u) \in Areas /\ area("new", p, u) \in Areas
    BY <2>1, <2>2, AreasOf DEF Registered
  <2>4. mem'[area("new", p, u)] = mem[area("new", p, u)]
    BY <1>7, <1>9, <2>3
  <2>5. (mem[area("old", p, u)].at /= Unused => Known(p, mem[area("old", p, u)]))'
    <3>1. CASE area("old", p, u) = old
      BY <1>1, <1>7, <1>10, <1>13, <3>1 DEF Known, OwnState, area
    <3>2. CASE area("old", p, u) /= old
      <4>1. mem'[area("old", p, u)] = mem[area("old", p, u)]
        BY <1>7, <2>3, <3>2
      <4> QED
        BY <1>13, <2>2, <4>1 DEF Registered, Known, OwnState, area
    <3> QED
      BY <3>1, <3>2
  <2> QED
    BY <1>6, <2>2, <2>4, <2>5 DEF Registered, specVars
<1>15. StatesInv'
  <2> SUFFICES ASSUME NEW p \in Pcb, Alive(p)' PROVE Known(p, p_s[p])'
    BY <1>6, <1>14 DEF StatesInv, Alive
  <2>1. Alive(p) /\ Known(p, p_s[p])
    BY <1>6 DEF Alive, IInv, StatesInv
  <2>2. p_s'[p] = p_s[p] \/ (p = current /\ p_s'[p] = cpu)
    BY <1>1, <1>5 DEF IInv, TypeInv
  <2>3. Known(p, p_s'[p])
    BY <1>1, <2>1, <2>2
  <2> QED
    BY <1>13, <2>1, <2>3 DEF Known, OwnState
<1>16. CurrentInv'
  <2>1. cpu'.owner = current /\ cpu'.life = life[current] /\ cpu'.at = t
    BY <1>1, <1>2, <1>8, StateAtIsState DEF IInv, TypeInv
  <2>2. mem'[area("old", current, t)].at /= Unused
    BY <1>7, <1>12 DEF old
  <2>3. Known(current, cpu)'
    BY <1>2, <1>6, <2>1, <2>2 DEF Known, OwnState, specVars, area
  <2> QED
    BY <1>1, <1>6, <2>3 DEF CurrentInv, Alive
<1>17. TreeInv'
  BY <1>6, SameTree DEF Alive
<1> QED
  BY <1>11, <1>15, <1>16, <1>17 DEF IInv

\* A handler returns to the state it was passed, which has been saved since it was registered.
LEMMA HandlerReturnsStep == IInv /\ HandlerReturns => IInv'
<1> SUFFICES ASSUME IInv, HandlerReturns PROVE IInv'
  OBVIOUS
<1> USE RootIsPcb, TypesAreExceptions
<1>1. current \in Pcb /\ current /= NULL /\ Alive(current) /\ Known(current, cpu)
  BY CurrentIsPcb DEF HandlerReturns, Running
<1>2. UNCHANGED <<p_s, mem, specVars, current, status, p_parent, life, phase>>
  BY DEF HandlerReturns, procVars
<1>3. cpu.at \in spec_assigned[current] /\ mem[area("old", current, cpu.at)].at /= Unused
  BY <1>1 DEF HandlerReturns, Known, OwnState
<1>4. Registered(current, cpu.at)
  BY <1>1, <1>3 DEF IInv, StatesInv
<1>5. cpu' = mem[area("old", current, cpu.at)] /\ Known(current, cpu')
  BY <1>3, <1>4 DEF HandlerReturns, Registered
<1>6. cpu' \in State
  BY <1>1, <1>3, <1>4, <1>5, AreasOf DEF Registered, IInv, TypeInv
<1>7. TypeInv'
  BY <1>2, <1>6 DEF IInv, TypeInv, specVars
<1>8. StatesInv'
  BY <1>2, FrameStates DEF FrameStep, Alive
<1>9. CurrentInv'
  BY <1>1, <1>2, <1>5 DEF CurrentInv, Alive, Known, OwnState, specVars, area
<1>10. TreeInv'
  BY <1>2, SameTree DEF Alive
<1> QED
  BY <1>7, <1>8, <1>9, <1>10 DEF IInv

\* Every step preserves the invariant.
LEMMA NextIInv == IInv /\ [HandlersNext]_handlerVars => IInv'
<1> SUFFICES ASSUME IInv, [HandlersNext]_handlerVars PROVE IInv'
  OBVIOUS
<1>1. CASE Tick
  BY <1>1, TickStep
<1>2. CASE EnterInterrupt
  BY <1>2, SaveStep DEF EnterInterrupt, Phase
<1>3. CASE TimerInterrupt
  BY <1>3, TimerStep
<1>4. CASE DeviceInterrupt
  BY <1>4, DeviceStep
<1>5. CASE EnterSyscall
  BY <1>5, SaveStep DEF EnterSyscall, Running, Phase
<1>6. CASE ReturnFromSyscall
  <2>1. current /= NULL
    BY <1>6 DEF IInv, CurrentInv, ReturnFromSyscall
  <2> QED
    BY <1>6, <2>1, QuietStep DEF ReturnFromSyscall, Phase
<1>7. CASE get_cpu_time
  <2>1. current /= NULL
    BY <1>7 DEF IInv, CurrentInv, get_cpu_time, InCall
  <2> QED
    BY <1>7, <2>1, QuietStep DEF get_cpu_time, Phase
<1>8. CASE create_process
  BY <1>8, CreateStep
<1>9. CASE SpecPassUp
  BY <1>9, SpecPassUpStep
<1>10. CASE OtherCall
  BY <1>10, OtherCallStep
<1>11. CASE BlockCall
  BY <1>11, BlockStep
<1>12. CASE TerminateOther
  BY <1>12, TerminateOtherStep
<1>13. CASE TerminateCall
  <2>1. current /= NULL
    BY <1>13 DEF IInv, CurrentInv, TerminateCall, InCall
  <2> QED
    BY <1>13, <2>1, DieStep DEF TerminateCall
<1>14. CASE EnterTrap
  <2>1. phase' \in Phase
    BY <1>14 DEF EnterTrap, Phase
  <2> QED
    BY <1>14, <2>1, QuietStep DEF EnterTrap, Running
<1>15. CASE PassItUp
  BY <1>15, PassItUpStep
<1>16. CASE DieUnhandled
  <2>1. current /= NULL
    BY <1>16 DEF IInv, CurrentInv, DieUnhandled
  <2> QED
    BY <1>16, <2>1, DieStep DEF DieUnhandled
<1>17. CASE HandlerReturns
  BY <1>17, HandlerReturnsStep
<1>18. CASE UNCHANGED handlerVars
  BY <1>18 DEF handlerVars, procVars, specVars, IInv, TypeInv, StatesInv, CurrentInv, TreeInv,
               Older, Alive, Known, OwnState, Registered
<1> QED
  BY <1>1, <1>2, <1>3, <1>4, <1>5, <1>6, <1>7, <1>8, <1>9, <1>10, <1>11, <1>12, <1>13,
     <1>14, <1>15, <1>16, <1>17, <1>18 DEF HandlersNext

(***************************************************************************)
(* Whatever it calls, is interrupted by or hands to its handlers, a        *)
(* process goes on with a state of its own (scheduler.c:68,                *)
(* handler.c:82, 225, 262): never with that of another, of the one that    *)
(* had its pcb before, or of a handler it has not registered.              *)
(***************************************************************************)
THEOREM OwnStatesOnly == HandlersSpec => []ResumesOwnState
<1>1. HandlersInit => IInv
  BY InitIInv
<1>2. IInv /\ [HandlersNext]_handlerVars => IInv'
  BY NextIInv
<1>3. IInv => ResumesOwnState
  BY IInvImplies
<1> QED
  BY <1>1, <1>2, <1>3, PTL DEF HandlersSpec

-----------------------------------------------------------------------------
(***************************************************************************)
(* The times.                                                              *)
(***************************************************************************)
Kernel == {"call", "return", "tlb", "pgmtrap"}

TimeType ==
  /\ now \in 1..TICKS
  /\ user_time \in [Pcb -> Word] /\ user_timeNEW \in [Pcb -> Word]
  /\ kernel_time \in [Pcb -> Word] /\ kernel_timeNEW \in [Pcb -> Word]
  /\ wallclock_time \in [Pcb -> Word]
  /\ used_user \in [Pcb -> Nat] /\ used_kernel \in [Pcb -> Nat] /\ twice \in [Pcb -> Nat]

\* No start lies ahead, and a stretch that is open has one.
StartsAt(p) ==
  /\ user_timeNEW[p] <= now /\ kernel_timeNEW[p] <= now /\ wallclock_time[p] <= now
  /\ p = current => wallclock_time[p] >= 1
  /\ p = current /\ phase = "user" => user_timeNEW[p] >= 1
  /\ p = current /\ phase \in Kernel => kernel_timeNEW[p] >= 1

\* The stretches not yet over: user mode, the kernel, and a call that may still add them twice.
sinceUser(p) == IF p = current /\ phase = "user" THEN now - user_timeNEW[p] ELSE 0
sinceKernel(p) == IF p = current /\ phase \in Kernel THEN now - kernel_timeNEW[p] ELSE 0
sinceCall(p) == IF p = current /\ phase = "call" THEN now - kernel_timeNEW[p] ELSE 0

UserAt(p) ==
  /\ user_time[p] + sinceUser(p) <= used_user[p]
  /\ now <= HALF => user_time[p] + sinceUser(p) = used_user[p]
KernelAt(p) ==
  /\ kernel_time[p] + sinceKernel(p) <= used_kernel[p] + twice[p]
  /\ now <= HALF => kernel_time[p] + sinceKernel(p) = used_kernel[p] + twice[p]
TwiceAt(p) == twice[p] + sinceCall(p) <= used_kernel[p]

\* The processes in a pcb use no time before the first dispatch of the first of them, and
\* together no more than has passed since then.
WallAt(p) ==
  used_user[p] + used_kernel[p] <= IF wallclock_time[p] = 0 THEN 0 ELSE now - wallclock_time[p]

TimeInv ==
  /\ TimeType
  /\ \A p \in Pcb : StartsAt(p) /\ UserAt(p) /\ KernelAt(p) /\ TwiceAt(p) /\ WallAt(p)

\* The word never wraps up to TICKS: what has passed is the difference.
LEMMA Passed ==
  ASSUME TimeType
  PROVE  \A t \in Nat : t <= now => Since(t) = now - t
<1> SUFFICES ASSUME NEW t \in Nat, t <= now PROVE Since(t) = now - t
  OBVIOUS
<1>1. HALF \in Nat \ {0} /\ now \in Nat /\ now <= 2 * HALF - 1
  BY HandlersAssumption DEF TimeType
<1>2. now - t \in 0..2 * HALF - 1 /\ 2 * HALF \in Nat \ {0}
  BY <1>1
<1> HIDE DEF Since
<1>3. \A m \in Nat \ {0} : \A x \in 0..m - 1 : x % m = x
  OBVIOUS
<1>4. (now - t) % (2 * HALF) = now - t
  BY <1>2, <1>3
<1> QED
  BY <1>4 DEF Since

\* An addition of words stays a word, gets no larger than the sum, and is the sum if that
\* is a word.
LEMMA Sum ==
  \A x, y \in Nat : /\ Plus(x, y) \in Word
                    /\ Plus(x, y) <= x + y
                    /\ x + y < 2 * HALF => Plus(x, y) = x + y
<1> SUFFICES ASSUME NEW x \in Nat, NEW y \in Nat
             PROVE  /\ Plus(x, y) \in Word
                    /\ Plus(x, y) <= x + y
                    /\ x + y < 2 * HALF => Plus(x, y) = x + y
  OBVIOUS
<1>1. 2 * HALF \in Nat \ {0} /\ x + y \in Nat
  BY HandlersAssumption
<1>2. \A m \in Nat \ {0}, z \in Nat : z % m \in 0..m - 1 /\ z % m <= z /\ (z < m => z % m = z)
  OBVIOUS
<1>3. /\ (x + y) % (2 * HALF) \in 0..2 * HALF - 1
      /\ (x + y) % (2 * HALF) <= x + y
      /\ x + y < 2 * HALF => (x + y) % (2 * HALF) = x + y
  BY <1>1, <1>2
<1> QED
  BY <1>3 DEF Plus, Word

\* Words are natural numbers, and times that have passed are words.
LEMMA Words ==
  /\ HALF \in Nat \ {0} /\ TICKS \in Nat /\ TICKS <= 2 * HALF - 1
  /\ Word \subseteq Nat /\ \A t \in Nat : t <= TICKS => t \in Word
BY HandlersAssumption DEF Word

\* The times of one pcb, as natural numbers.
TimesAt(p) ==
  /\ now \in Nat /\ now >= 1 /\ now <= 2 * HALF - 1 /\ HALF \in Nat
  /\ user_time[p] \in Nat /\ user_timeNEW[p] \in Nat
  /\ kernel_time[p] \in Nat /\ kernel_timeNEW[p] \in Nat
  /\ wallclock_time[p] \in Nat
  /\ used_user[p] \in Nat /\ used_kernel[p] \in Nat /\ twice[p] \in Nat

\* In a typed state the times of every pcb are natural numbers.
LEMMA TimesOf ==
  ASSUME TimeType
  PROVE  \A p \in Pcb : TimesAt(p)
<1>1. now \in Nat /\ now >= 1 /\ now <= 2 * HALF - 1 /\ HALF \in Nat
  BY HandlersAssumption DEF TimeType
<1>2. Word \subseteq Nat
  BY Words
<1>3. \A p \in Pcb : /\ user_time[p] \in Word /\ user_timeNEW[p] \in Word
                     /\ kernel_time[p] \in Word /\ kernel_timeNEW[p] \in Word
                     /\ wallclock_time[p] \in Word
                     /\ used_user[p] \in Nat /\ used_kernel[p] \in Nat /\ twice[p] \in Nat
  BY DEF TimeType
<1> QED
  BY <1>1, <1>2, <1>3 DEF TimesAt

\* And so they are after a step.
LEMMA TimesOfNext ==
  ASSUME TimeType'
  PROVE  \A p \in Pcb : TimesAt(p)'
<1>1. (now \in Nat /\ now >= 1 /\ now <= 2 * HALF - 1)' /\ HALF \in Nat
  BY HandlersAssumption DEF TimeType
<1>2. \A p \in Pcb : (/\ user_time[p] \in Word /\ user_timeNEW[p] \in Word
                      /\ kernel_time[p] \in Word /\ kernel_timeNEW[p] \in Word
                      /\ wallclock_time[p] \in Word
                      /\ used_user[p] \in Nat /\ used_kernel[p] \in Nat /\ twice[p] \in Nat)'
  BY DEF TimeType
<1> QED
  BY <1>1, <1>2, Words DEF TimesAt

\* The initial states satisfy the invariant.
LEMMA InitTimeInv == HandlersInit => TimeInv
<1> SUFFICES ASSUME HandlersInit PROVE TimeInv
  OBVIOUS
<1>1. now = 1 /\ 1 \in 1..TICKS /\ 0 \in Word /\ 1 \in Word
  BY HandlersAssumption, Words DEF HandlersInit
<1>2. TimeType
  BY <1>1 DEF HandlersInit, TimeType, zero
<1>3. SUFFICES ASSUME NEW p \in Pcb
                PROVE  StartsAt(p) /\ UserAt(p) /\ KernelAt(p) /\ TwiceAt(p) /\ WallAt(p)
  BY <1>2 DEF TimeInv
<1>4. /\ user_time[p] = 0 /\ kernel_time[p] = 0 /\ kernel_timeNEW[p] = 0
      /\ used_user[p] = 0 /\ used_kernel[p] = 0 /\ twice[p] = 0
      /\ user_timeNEW[p] = (IF p = current THEN 1 ELSE 0)
      /\ wallclock_time[p] = (IF p = current THEN 1 ELSE 0)
      /\ phase = "user"
  BY DEF HandlersInit, zero
<1> QED
  BY <1>1, <1>4 DEF StartsAt, UserAt, KernelAt, TwiceAt, WallAt, sinceUser, sinceKernel,
                    sinceCall, Kernel

\* The invariant implies the properties.
LEMMA TimeInvImplies ==
  ASSUME TimeInv
  PROVE  UserTimeExact /\ KernelTimeExact
<1> SUFFICES ASSUME NEW p \in Pcb
             PROVE  /\ user_time[p] <= used_user[p]
                    /\ now <= HALF => user_time[p] + openUser(p) = used_user[p]
                    /\ kernel_time[p] <= used_kernel[p] + twice[p]
                    /\ now <= HALF => kernel_time[p] + openKernel(p) = used_kernel[p] + twice[p]
  BY DEF UserTimeExact, KernelTimeExact
<1>1. TimesAt(p) /\ StartsAt(p) /\ UserAt(p) /\ KernelAt(p)
  BY TimesOf DEF TimeInv
<1>2. openUser(p) = sinceUser(p) /\ openKernel(p) = sinceKernel(p)
  BY <1>1, Passed DEF TimeInv, openUser, openKernel, sinceUser, sinceKernel, StartsAt, TimesAt, Kernel
<1>3. sinceUser(p) \in Nat /\ sinceKernel(p) \in Nat
  BY <1>1 DEF sinceUser, sinceKernel, StartsAt, TimesAt
<1> QED
  BY <1>1, <1>2, <1>3 DEF UserAt, KernelAt, StartsAt, TimesAt

-----------------------------------------------------------------------------
(***************************************************************************)
(* What the handlers do to the times.                                      *)
(***************************************************************************)
\* The clock goes on by a tick, which belongs to the running process or to nobody.
LEMMA TickTimes == IInv /\ TimeInv /\ Tick => TimeInv'
<1> SUFFICES ASSUME IInv, TimeInv, Tick PROVE TimeInv'
  OBVIOUS
<1>1. /\ now' = now + 1 /\ now < TICKS
      /\ UNCHANGED <<current, phase, user_time, user_timeNEW, kernel_time, kernel_timeNEW,
                     wallclock_time, twice>>
  BY DEF Tick, timeVars, procVars
<1>2. current /= NULL => current \in Pcb
  BY CurrentIsPcb
<1>3. \A p \in Pcb :
        /\ used_user'[p] = used_user[p] + (IF p = current /\ phase = "user" THEN 1 ELSE 0)
        /\ used_kernel'[p] = used_kernel[p] + (IF p = current /\ phase \in Kernel THEN 1 ELSE 0)
  BY <1>2, RootIsPcb DEF Tick, Kernel, TimeInv, TimeType
<1>4. TimeType'
  BY <1>1, <1>2, Words DEF Tick, TimeInv, TimeType, IInv, CurrentInv
<1> SUFFICES ASSUME NEW p \in Pcb
             PROVE  (StartsAt(p) /\ UserAt(p) /\ KernelAt(p) /\ TwiceAt(p) /\ WallAt(p))'
  BY <1>4 DEF TimeInv
<1>5. TimesAt(p) /\ StartsAt(p) /\ UserAt(p) /\ KernelAt(p) /\ TwiceAt(p) /\ WallAt(p)
  BY TimesOf DEF TimeInv
<1>6. StartsAt(p)'
  BY <1>1, <1>5 DEF StartsAt, TimesAt
<1>7. UserAt(p)'
  BY <1>1, <1>3, <1>5 DEF UserAt, sinceUser, TimesAt, StartsAt
<1>8. KernelAt(p)'
  BY <1>1, <1>3, <1>5 DEF KernelAt, sinceKernel, TimesAt, StartsAt
<1>9. TwiceAt(p)'
  BY <1>1, <1>3, <1>5 DEF TwiceAt, sinceCall, TimesAt, StartsAt, Kernel
<1>10. WallAt(p)'
  BY <1>1, <1>3, <1>5 DEF WallAt, TimesAt, StartsAt, Kernel
<1> QED
  BY <1>6, <1>7, <1>8, <1>9, <1>10

\* The end of user mode: all of it is accounted, or none once the clock reads as negative.
LEMMA EndUserTimes ==
  ASSUME TimeInv, current \in Pcb, phase = "user", endUser(current)
  PROVE  /\ user_time' \in [Pcb -> Word] /\ user_timeNEW' \in [Pcb -> Word]
         /\ user_time'[current] <= used_user[current]
         /\ now <= HALF => user_time'[current] = used_user[current]
         /\ user_timeNEW'[current] <= now
         /\ \A p \in Pcb \ {current} :
              user_time'[p] = user_time[p] /\ user_timeNEW'[p] = user_timeNEW[p]
<1> DEFINE t == user_timeNEW[current]
<1>1. TimeType /\ TimesAt(current) /\ StartsAt(current) /\ UserAt(current) /\ WallAt(current)
  BY TimesOf DEF TimeInv
<1>2. user_time[current] + (now - t) <= used_user[current]
      /\ (now <= HALF => user_time[current] + (now - t) = used_user[current])
      /\ t \in Nat /\ t >= 1 /\ t <= now /\ used_user[current] < now
  BY <1>1 DEF UserAt, sinceUser, StartsAt, WallAt, TimesAt
<1>3. Since(t) = now - t
  BY <1>1, <1>2, Passed
<1>4. Plus(user_time[current], Since(t)) \in Word
      /\ Plus(user_time[current], Since(t)) = user_time[current] + (now - t)
  <2>1. user_time[current] \in Nat /\ now - t \in Nat /\ user_time[current] + (now - t) < 2 * HALF
    BY <1>1, <1>2 DEF TimesAt
  <2> HIDE DEF t
  <2> QED
    BY <1>3, <2>1, Sum
<1>5. 0 \in Word
  BY Words
<1>6. CASE Positive(t)
  BY <1>1, <1>2, <1>4, <1>5, <1>6 DEF endUser, TimeType, TimesAt
<1>7. CASE ~ Positive(t)
  <2>1. t >= HALF
    BY <1>1, <1>2, <1>7 DEF Positive, TimesAt
  <2>2. UNCHANGED <<user_time, user_timeNEW>>
    BY <1>7 DEF endUser
  <2> QED
    BY <1>1, <1>2, <2>1, <2>2 DEF TimeType, TimesAt
<1> QED
  BY <1>6, <1>7

\* The end of the kernel time of a call or a trap, likewise.
LEMMA EndKernelTimes ==
  ASSUME TimeInv, current \in Pcb, phase \in Kernel, endKernel(current)
  PROVE  /\ kernel_time' \in [Pcb -> Word] /\ kernel_timeNEW' \in [Pcb -> Word]
         /\ kernel_time'[current] <= used_kernel[current] + twice[current]
         /\ now <= HALF => kernel_time'[current] = used_kernel[current] + twice[current]
         /\ kernel_timeNEW'[current] <= now
         /\ \A p \in Pcb \ {current} :
              kernel_time'[p] = kernel_time[p] /\ kernel_timeNEW'[p] = kernel_timeNEW[p]
<1> DEFINE t == kernel_timeNEW[current]
<1>1. /\ TimeType /\ TimesAt(current) /\ StartsAt(current) /\ KernelAt(current)
      /\ WallAt(current) /\ TwiceAt(current)
  BY TimesOf DEF TimeInv
<1>2. kernel_time[current] + (now - t) <= used_kernel[current] + twice[current]
      /\ (now <= HALF => kernel_time[current] + (now - t) = used_kernel[current] + twice[current])
      /\ t \in Nat /\ t >= 1 /\ t <= now
  BY <1>1 DEF KernelAt, sinceKernel, StartsAt, TimesAt
<1>3. used_kernel[current] < now /\ twice[current] <= used_kernel[current]
  BY <1>1 DEF StartsAt, WallAt, TwiceAt, sinceCall, TimesAt, Kernel
<1>4. Since(t) = now - t
  BY <1>1, <1>2, Passed
<1>5. /\ Plus(kernel_time[current], Since(t)) \in Word
      /\ Plus(kernel_time[current], Since(t)) <= kernel_time[current] + (now - t)
      /\ now <= HALF => Plus(kernel_time[current], Since(t)) = kernel_time[current] + (now - t)
  <2>1. kernel_time[current] \in Nat /\ now - t \in Nat
    BY <1>1, <1>2 DEF TimesAt
  <2>2. now <= HALF => kernel_time[current] + (now - t) < 2 * HALF
    BY <1>1, <1>2, <1>3 DEF TimesAt
  <2> HIDE DEF t
  <2> QED
    BY <1>4, <2>1, <2>2, Sum
<1>6. 0 \in Word /\ Plus(kernel_time[current], Since(t)) \in Nat
  <2>1. 0 \in Word /\ Word \subseteq Nat
    BY Words
  <2> HIDE DEF t
  <2> QED
    BY <1>5, <2>1
<1>7. CASE Positive(t)
  BY <1>1, <1>2, <1>3, <1>5, <1>6, <1>7 DEF endKernel, TimeType, TimesAt
<1>8. CASE ~ Positive(t)
  <2>1. t >= HALF
    BY <1>1, <1>2, <1>8 DEF Positive, TimesAt
  <2>2. UNCHANGED <<kernel_time, kernel_timeNEW>>
    BY <1>8 DEF endKernel
  <2> QED
    BY <1>1, <1>2, <2>1, <2>2 DEF TimeType, TimesAt
<1> QED
  BY <1>7, <1>8

\* The start of the user mode of the process it loads, and the wallclock the first time.
Starts ==
  /\ user_timeNEW' \in [Pcb -> Word] /\ wallclock_time' \in [Pcb -> Word]
  /\ \A p \in Pcb :
       /\ user_timeNEW'[p] \in {user_timeNEW[p], now}
       /\ wallclock_time'[p] = wallclock_time[p] \/ (wallclock_time[p] = 0 /\ wallclock_time'[p] = now)
       /\ p = current' => user_timeNEW'[p] = now /\ wallclock_time'[p] /= 0

\* A dispatch changes no other times than these.
LEMMA DispatchTimes ==
  ASSUME TimeInv
  PROVE  \A st : dispatch(st) => Starts
<1> SUFFICES ASSUME NEW st, dispatch(st) PROVE Starts
  OBVIOUS
<1>1. now \in Word /\ now /= 0
  BY Words DEF TimeInv, TimeType
<1>2. user_timeNEW \in [Pcb -> Word] /\ wallclock_time \in [Pcb -> Word]
  BY DEF TimeInv, TimeType
<1>3. CASE \E q \in Pcb : /\ current' = q
                          /\ wallclock_time' = [wallclock_time EXCEPT ![q] = IF @ = 0 THEN now ELSE @]
                          /\ startUser(q)
  BY <1>1, <1>2, <1>3 DEF Starts, startUser
<1>4. CASE current' = NULL /\ UNCHANGED <<wallclock_time, user_timeNEW>>
  BY <1>1, <1>2, <1>4, RootIsPcb DEF Starts
<1> QED
  BY <1>3, <1>4 DEF dispatch

\* Outside the kernel, a process has been accounted at most what it has used, and exactly
\* that before the clock reads as negative.
Settled(p) ==
  /\ kernel_time[p] <= used_kernel[p] + twice[p]
  /\ now <= HALF => kernel_time[p] = used_kernel[p] + twice[p]
  /\ twice[p] <= used_kernel[p]
  /\ kernel_timeNEW[p] <= now

\* Every process but the one the kernel works for is settled.
LEMMA OthersSettled ==
  ASSUME TimeInv
  PROVE  /\ \A p \in Pcb : p /= current \/ phase \notin Kernel => Settled(p)
         /\ \A p \in Pcb : twice[p] <= used_kernel[p]
<1> SUFFICES ASSUME NEW p \in Pcb
             PROVE  /\ p /= current \/ phase \notin Kernel => Settled(p)
                    /\ twice[p] <= used_kernel[p]
  OBVIOUS
<1>1. TimesAt(p) /\ StartsAt(p) /\ KernelAt(p) /\ TwiceAt(p)
  BY TimesOf DEF TimeInv
<1> QED
  BY <1>1 DEF Settled, KernelAt, TwiceAt, StartsAt, sinceKernel, sinceCall, TimesAt, Kernel

\* The way back to user mode.
LEMMA ToUser ==
  ASSUME TimeInv, UNCHANGED <<now, used_user, twice, user_time>>,
         phase /= "user", phase' = "user", Starts,
         kernel_time' \in [Pcb -> Word], kernel_timeNEW' \in [Pcb -> Word],
         used_kernel' \in [Pcb -> Nat],
         \A p \in Pcb : Settled(p)' /\ used_kernel'[p] <= used_kernel[p]
  PROVE  TimeInv'
<1>1. TimeType'
  BY DEF TimeInv, TimeType, Starts
<1> SUFFICES ASSUME NEW p \in Pcb
             PROVE  (StartsAt(p) /\ UserAt(p) /\ KernelAt(p) /\ TwiceAt(p) /\ WallAt(p))'
  BY <1>1 DEF TimeInv
<1>2. TimesAt(p) /\ StartsAt(p) /\ UserAt(p) /\ WallAt(p)
  BY TimesOf DEF TimeInv
<1>3. TimesAt(p)'
  BY <1>1, TimesOfNext
<1>4. /\ user_timeNEW'[p] \in {user_timeNEW[p], now}
      /\ wallclock_time'[p] = wallclock_time[p] \/ (wallclock_time[p] = 0 /\ wallclock_time'[p] = now)
      /\ p = current' => user_timeNEW'[p] = now /\ wallclock_time'[p] /= 0
  BY DEF Starts
<1>5. Settled(p)' /\ used_kernel'[p] <= used_kernel[p]
  OBVIOUS
<1>6. StartsAt(p)'
  BY <1>2, <1>3, <1>4, <1>5 DEF StartsAt, Settled, TimesAt, Kernel
<1>7. UserAt(p)'
  BY <1>2, <1>3, <1>4 DEF UserAt, sinceUser, TimesAt
<1>8. KernelAt(p)' /\ TwiceAt(p)'
  BY <1>3, <1>5 DEF KernelAt, TwiceAt, sinceKernel, sinceCall, Settled, TimesAt, Kernel
<1>9. WallAt(p)'
  BY <1>2, <1>3, <1>4, <1>5 DEF WallAt, TimesAt
<1> QED
  BY <1>6, <1>7, <1>8, <1>9

\* An interrupt or a return that is not from the kernel settles nothing more.
LEMMA NothingInKernel ==
  ASSUME TimeInv, phase \notin Kernel,
         UNCHANGED <<now, kernel_time, kernel_timeNEW, used_kernel, twice>>
  PROVE  /\ kernel_time' \in [Pcb -> Word] /\ kernel_timeNEW' \in [Pcb -> Word]
         /\ used_kernel' \in [Pcb -> Nat]
         /\ \A p \in Pcb : Settled(p)' /\ used_kernel'[p] <= used_kernel[p]
BY OthersSettled DEF Settled, TimeInv, TimeType

\* The end of the kernel time settles that of the running process.
LEMMA EndKernelSettles ==
  ASSUME TimeInv, current \in Pcb, phase \in Kernel, endKernel(current),
         UNCHANGED <<now, used_kernel, twice>>
  PROVE  /\ kernel_time' \in [Pcb -> Word] /\ kernel_timeNEW' \in [Pcb -> Word]
         /\ used_kernel' \in [Pcb -> Nat]
         /\ \A p \in Pcb : Settled(p)' /\ used_kernel'[p] <= used_kernel[p]
<1>1. /\ kernel_time' \in [Pcb -> Word] /\ kernel_timeNEW' \in [Pcb -> Word]
      /\ used_kernel' \in [Pcb -> Nat]
  BY EndKernelTimes DEF TimeInv, TimeType
<1> SUFFICES ASSUME NEW p \in Pcb PROVE Settled(p)' /\ used_kernel'[p] <= used_kernel[p]
  BY <1>1
<1>2. used_kernel[p] \in Nat
  BY DEF TimeInv, TimeType
<1>3. CASE p = current
  BY <1>2, <1>3, EndKernelTimes, OthersSettled DEF Settled
<1>4. CASE p /= current
  BY <1>2, <1>4, EndKernelTimes, OthersSettled DEF Settled
<1> QED
  BY <1>3, <1>4

\* startUser starts the user mode of the process that goes on.
LEMMA StartUserStarts ==
  ASSUME TimeInv, current \in Pcb, startUser(current), UNCHANGED <<current, wallclock_time>>
  PROVE  Starts
<1>1. now \in Word
  BY Words DEF TimeInv, TimeType
<1>2. \A p \in Pcb : p = current => wallclock_time[p] /= 0
  BY TimesOf DEF TimeInv, StartsAt, TimesAt
<1> QED
  BY <1>1, <1>2 DEF Starts, startUser, TimeInv, TimeType

\* The way into a handler: user mode ends, and perhaps the kernel time of the process starts.
LEMMA ToHandler ==
  ASSUME TimeInv, phase = "user", phase' /= "user",
         UNCHANGED <<current, now, kernel_time, wallclock_time, used_user, used_kernel, twice>>,
         \/ current = NULL /\ UNCHANGED <<user_time, user_timeNEW>>
         \/ current \in Pcb /\ endUser(current),
         \/ phase' \notin Kernel /\ UNCHANGED kernel_timeNEW
         \/ current \in Pcb /\ startKernel(current)
  PROVE  TimeInv'
<1>1. /\ user_time' \in [Pcb -> Word] /\ user_timeNEW' \in [Pcb -> Word]
      /\ \A p \in Pcb : /\ user_time'[p] <= used_user[p]
                        /\ now <= HALF => user_time'[p] = used_user[p]
                        /\ user_timeNEW'[p] <= now
  <2>1. \A p \in Pcb \ {current} : /\ user_time[p] <= used_user[p]
                                   /\ now <= HALF => user_time[p] = used_user[p]
    BY TimesOf DEF TimeInv, UserAt, sinceUser, TimesAt
  <2>2. \A p \in Pcb : user_timeNEW[p] <= now
    BY DEF TimeInv, StartsAt
  <2>3. CASE current = NULL /\ UNCHANGED <<user_time, user_timeNEW>>
    BY <2>1, <2>2, <2>3, RootIsPcb DEF TimeInv, TimeType
  <2>4. CASE current \in Pcb /\ endUser(current)
    BY <2>1, <2>2, <2>4, EndUserTimes
  <2> QED
    BY <2>3, <2>4
<1>2. /\ kernel_timeNEW' \in [Pcb -> Word]
      /\ \A p \in Pcb : /\ kernel_timeNEW'[p] <= now
                        /\ p = current /\ phase' \in Kernel => kernel_timeNEW'[p] = now
  <2>1. now \in Word /\ now \in Nat /\ \A p \in Pcb : kernel_timeNEW[p] <= now
    BY Words DEF TimeInv, TimeType, StartsAt
  <2> QED
    BY <2>1 DEF startKernel, TimeInv, TimeType
<1>3. TimeType'
  BY <1>1, <1>2 DEF TimeInv, TimeType
<1> SUFFICES ASSUME NEW p \in Pcb
             PROVE  (StartsAt(p) /\ UserAt(p) /\ KernelAt(p) /\ TwiceAt(p) /\ WallAt(p))'
  BY <1>3 DEF TimeInv
<1>4. TimesAt(p) /\ StartsAt(p) /\ WallAt(p) /\ Settled(p)
  BY TimesOf, OthersSettled DEF TimeInv, Kernel
<1>5. TimesAt(p)'
  BY <1>3, TimesOfNext
<1>6. StartsAt(p)'
  BY <1>1, <1>2, <1>4, <1>5 DEF StartsAt, TimesAt
<1>7. UserAt(p)'
  BY <1>1, <1>5 DEF UserAt, sinceUser, TimesAt
<1>8. KernelAt(p)' /\ TwiceAt(p)'
  BY <1>2, <1>4, <1>5 DEF KernelAt, TwiceAt, sinceKernel, sinceCall, Settled, TimesAt, Kernel
<1>9. WallAt(p)'
  BY <1>4 DEF WallAt
<1> QED
  BY <1>6, <1>7, <1>8, <1>9

\* The body of a call that returns, GETCPUTIME apart, leaves the times alone.
LEMMA BodyOfCall ==
  ASSUME TimeInv, phase = "call", phase' = "return",
         UNCHANGED <<current, now, timeVars, used_user, used_kernel, twice>>
  PROVE  TimeInv'
<1> SUFFICES ASSUME NEW p \in Pcb
             PROVE  (StartsAt(p) /\ UserAt(p) /\ KernelAt(p) /\ TwiceAt(p) /\ WallAt(p))'
  BY DEF TimeInv, TimeType, timeVars
<1>1. TimesAt(p) /\ StartsAt(p) /\ UserAt(p) /\ KernelAt(p) /\ TwiceAt(p) /\ WallAt(p)
  BY TimesOf DEF TimeInv
<1>2. (StartsAt(p) /\ UserAt(p) /\ KernelAt(p) /\ WallAt(p))'
  BY <1>1 DEF StartsAt, UserAt, KernelAt, WallAt, sinceUser, sinceKernel, timeVars, Kernel
<1>3. TwiceAt(p)'
  BY <1>1 DEF StartsAt, TwiceAt, sinceCall, TimesAt, timeVars, Kernel
<1> QED
  BY <1>2, <1>3

-----------------------------------------------------------------------------
(***************************************************************************)
(* The actions.                                                            *)
(***************************************************************************)
\* int_handler, back from the timer or from the devices.
LEMMA InterruptTimes ==
  IInv /\ TimeInv /\ (TimerInterrupt \/ DeviceInterrupt) => TimeInv'
<1> SUFFICES ASSUME IInv, TimeInv, TimerInterrupt \/ DeviceInterrupt PROVE TimeInv'
  OBVIOUS
<1>1. /\ UNCHANGED <<now, user_time, kernel_time, kernel_timeNEW, used_user, used_kernel, twice>>
      /\ phase /= "user" /\ phase \notin Kernel /\ phase' = "user"
  BY DEF TimerInterrupt, DeviceInterrupt, realVars, Kernel
<1>2. Starts
  <2>1. CASE TimerInterrupt
    BY <2>1, DispatchTimes DEF TimerInterrupt
  <2>2. CASE DeviceInterrupt /\ current = NULL
    BY <2>2, DispatchTimes DEF DeviceInterrupt
  <2>3. CASE DeviceInterrupt /\ current /= NULL
    BY <2>3, CurrentIsPcb, StartUserStarts DEF DeviceInterrupt
  <2> QED
    BY <2>1, <2>2, <2>3
<1> QED
  BY <1>1, <1>2, NothingInKernel, ToUser

\* The ends of handlers that account the kernel time of the running process.
LEMMA EndOfKernelTimes ==
  ASSUME IInv, TimeInv, ReturnFromSyscall \/ BlockCall \/ PassItUp \/ DieUnhandled
  PROVE  TimeInv'
<1>1. phase \in Kernel /\ current /= NULL /\ current \in Pcb
  BY CurrentIsPcb DEF ReturnFromSyscall, BlockCall, InCall, PassItUp, DieUnhandled, Kernel, IInv, CurrentInv
<1>2. /\ UNCHANGED <<now, user_time, used_user, used_kernel, twice>>
      /\ phase' = "user" /\ endKernel(current)
  BY DEF ReturnFromSyscall, BlockCall, PassItUp, DieUnhandled, die, realVars
<1>3. Starts
  <2>1. CASE ReturnFromSyscall
    BY <1>1, <2>1, StartUserStarts DEF ReturnFromSyscall, procVars
  <2>2. CASE BlockCall
    BY <2>2, DispatchTimes DEF BlockCall
  <2>3. CASE PassItUp
    BY <1>1, <2>3, StartUserStarts DEF PassItUp, procVars
  <2>4. CASE DieUnhandled
    BY <2>4, DispatchTimes DEF DieUnhandled, die
  <2> QED
    BY <2>1, <2>2, <2>3, <2>4
<1>4. phase /= "user"
  BY <1>1 DEF Kernel
<1> QED
  BY <1>1, <1>2, <1>3, <1>4, EndKernelSettles, ToUser

\* The call that ends the running process accounts its time to nobody.
LEMMA TerminateCallTimes == IInv /\ TimeInv /\ TerminateCall => TimeInv'
<1> SUFFICES ASSUME IInv, TimeInv, TerminateCall PROVE TimeInv'
  OBVIOUS
<1> DEFINE t == kernel_timeNEW[current]
<1>1. phase = "call" /\ current \in Pcb
  BY CurrentIsPcb DEF TerminateCall, InCall, IInv, CurrentInv
<1>2. /\ UNCHANGED <<now, user_time, used_user, twice, kernel_time, kernel_timeNEW>>
      /\ phase' = "user" /\ Starts
      /\ used_kernel' = [used_kernel EXCEPT ![current] = @ - Since(t)]
  BY DispatchTimes DEF TerminateCall, die
<1>3. TimesAt(current) /\ StartsAt(current) /\ KernelAt(current) /\ TwiceAt(current)
  BY <1>1, TimesOf DEF TimeInv
<1>4. Since(t) = now - t /\ t <= now
  BY <1>3, Passed DEF TimeInv, StartsAt, TimesAt
<1>5. used_kernel'[current] = used_kernel[current] - (now - t)
  BY <1>1, <1>2, <1>4 DEF TimeInv, TimeType
<1>6. /\ used_kernel'[current] \in Nat /\ used_kernel'[current] <= used_kernel[current]
      /\ kernel_time[current] <= used_kernel'[current] + twice[current]
      /\ now <= HALF => kernel_time[current] = used_kernel'[current] + twice[current]
      /\ twice[current] <= used_kernel'[current]
  BY <1>1, <1>3, <1>4, <1>5 DEF KernelAt, TwiceAt, sinceKernel, sinceCall, TimesAt, Kernel
<1>7. used_kernel' \in [Pcb -> Nat] /\ \A p \in Pcb \ {current} : used_kernel'[p] = used_kernel[p]
  BY <1>2, <1>5, <1>6 DEF TimeInv, TimeType
<1>8. \A p \in Pcb : Settled(p)' /\ used_kernel'[p] <= used_kernel[p]
  <2> SUFFICES ASSUME NEW p \in Pcb PROVE Settled(p)' /\ used_kernel'[p] <= used_kernel[p]
    OBVIOUS
  <2>1. CASE p = current
    BY <1>2, <1>4, <1>6, <2>1 DEF Settled
  <2>2. CASE p /= current
    BY <1>2, <1>7, <2>2, OthersSettled, TimesOf DEF Settled, TimeInv, TimesAt
  <2> QED
    BY <2>1, <2>2
<1>9. kernel_time' \in [Pcb -> Word] /\ kernel_timeNEW' \in [Pcb -> Word] /\ phase /= "user"
  BY <1>1, <1>2 DEF TimeInv, TimeType
<1> QED
  BY <1>2, <1>7, <1>8, <1>9, ToUser

\* GETCPUTIME accounts what the return will account again.
LEMMA GetCpuTimes == IInv /\ TimeInv /\ get_cpu_time => TimeInv'
<1> SUFFICES ASSUME IInv, TimeInv, get_cpu_time PROVE TimeInv'
  OBVIOUS
<1> DEFINE t == kernel_timeNEW[current]
<1>1. phase = "call" /\ phase' = "return" /\ current \in Pcb /\ current' = current
  BY CurrentIsPcb DEF get_cpu_time, InCall, IInv, CurrentInv, procVars
<1>2. /\ UNCHANGED <<now, user_time, user_timeNEW, kernel_timeNEW, wallclock_time, used_user, used_kernel>>
      /\ kernel_time' = [kernel_time EXCEPT ![current] = Plus(@, Since(t))]
      /\ twice' = [twice EXCEPT ![current] = @ + Since(t)]
  BY DEF get_cpu_time
<1>3. /\ TimesAt(current) /\ StartsAt(current) /\ KernelAt(current) /\ TwiceAt(current)
      /\ WallAt(current)
  BY <1>1, TimesOf DEF TimeInv
<1>4. Since(t) = now - t /\ t <= now /\ t \in Nat
  BY <1>3, Passed DEF TimeInv, StartsAt, TimesAt
<1>5. /\ kernel_time[current] \in Nat /\ now - t \in Nat
      /\ now <= HALF => kernel_time[current] + (now - t) < 2 * HALF
  BY <1>1, <1>3, <1>4
     DEF KernelAt, TwiceAt, WallAt, StartsAt, sinceKernel, sinceCall, TimesAt, Kernel
<1> HIDE DEF t
<1>6. /\ Plus(kernel_time[current], Since(t)) \in Word
      /\ Plus(kernel_time[current], Since(t)) <= kernel_time[current] + (now - t)
      /\ now <= HALF => Plus(kernel_time[current], Since(t)) = kernel_time[current] + (now - t)
  BY <1>4, <1>5, Sum
<1>7. /\ kernel_time'[current] \in Word
      /\ kernel_time'[current] <= kernel_time[current] + (now - t)
      /\ now <= HALF => kernel_time'[current] = kernel_time[current] + (now - t)
      /\ twice'[current] = twice[current] + (now - t)
  BY <1>1, <1>2, <1>4, <1>6 DEF TimeInv, TimeType
<1>8. TimeType'
  BY <1>1, <1>2, <1>4, <1>5, <1>6 DEF TimeInv, TimeType
<1> SUFFICES ASSUME NEW p \in Pcb
             PROVE  (StartsAt(p) /\ UserAt(p) /\ KernelAt(p) /\ TwiceAt(p) /\ WallAt(p))'
  BY <1>8 DEF TimeInv
<1>9. TimesAt(p) /\ TimesAt(p)'
  BY <1>8, TimesOf, TimesOfNext DEF TimeInv
<1>10. StartsAt(p) /\ UserAt(p) /\ KernelAt(p) /\ TwiceAt(p) /\ WallAt(p)
  BY DEF TimeInv
<1>11. (StartsAt(p) /\ UserAt(p) /\ WallAt(p))'
  BY <1>1, <1>2, <1>10 DEF StartsAt, UserAt, WallAt, sinceUser, Kernel
<1>12. KernelAt(p)' /\ TwiceAt(p)'
  <2>1. CASE p = current
    BY <1>1, <1>2, <1>3, <1>7, <1>9, <2>1
       DEF KernelAt, TwiceAt, sinceKernel, sinceCall, TimesAt, Kernel, t
  <2>2. CASE p /= current
    <3>1. kernel_time'[p] = kernel_time[p] /\ twice'[p] = twice[p]
      BY <1>2, <2>2 DEF TimeInv, TimeType
    <3> QED
      BY <1>1, <1>2, <1>10, <2>2, <3>1 DEF KernelAt, TwiceAt, sinceKernel, sinceCall
  <2> QED
    BY <2>1, <2>2
<1> QED
  BY <1>11, <1>12

\* The entries of the handlers.
LEMMA EntryTimes ==
  ASSUME IInv, TimeInv, EnterInterrupt \/ EnterSyscall \/ EnterTrap
  PROVE  TimeInv'
<1>1. CASE EnterInterrupt
  <2>1. /\ phase = "user" /\ phase' /= "user" /\ phase' \notin Kernel
        /\ UNCHANGED <<current, now, kernel_time, kernel_timeNEW, wallclock_time,
                       used_user, used_kernel, twice>>
    BY <1>1 DEF EnterInterrupt, InterruptsEnabled, procVars, realVars, Kernel
  <2>2. \/ current = NULL /\ UNCHANGED <<user_time, user_timeNEW>>
        \/ current \in Pcb /\ endUser(current)
    BY <1>1, CurrentIsPcb DEF EnterInterrupt
  <2> QED
    BY <2>1, <2>2, ToHandler
<1>2. CASE EnterSyscall \/ EnterTrap
  <2>1. /\ phase = "user" /\ phase' /= "user" /\ current \in Pcb
        /\ endUser(current) /\ startKernel(current)
        /\ UNCHANGED <<current, now, kernel_time, wallclock_time, used_user, used_kernel, twice>>
    BY <1>2, CurrentIsPcb DEF EnterSyscall, EnterTrap, Running, procVars, realVars
  <2> QED
    BY <2>1, ToHandler
<1> QED
  BY <1>1, <1>2

\* Every step preserves the invariant.
LEMMA NextTimeInv == IInv /\ TimeInv /\ [HandlersNext]_handlerVars => TimeInv'
<1> SUFFICES ASSUME IInv, TimeInv, [HandlersNext]_handlerVars PROVE TimeInv'
  OBVIOUS
<1>1. CASE Tick
  BY <1>1, TickTimes
<1>2. CASE EnterInterrupt \/ EnterSyscall \/ EnterTrap
  BY <1>2, EntryTimes
<1>3. CASE TimerInterrupt \/ DeviceInterrupt
  BY <1>3, InterruptTimes
<1>4. CASE ReturnFromSyscall \/ BlockCall \/ PassItUp \/ DieUnhandled
  BY <1>4, EndOfKernelTimes
<1>5. CASE TerminateCall
  BY <1>5, TerminateCallTimes
<1>6. CASE get_cpu_time
  BY <1>6, GetCpuTimes
<1>7. CASE create_process \/ SpecPassUp \/ OtherCall \/ TerminateOther
  <2>1. /\ phase = "call" /\ phase' = "return"
        /\ UNCHANGED <<current, now, timeVars, used_user, used_kernel, twice>>
    BY <1>7 DEF create_process, SpecPassUp, OtherCall, TerminateOther, InCall, procVars, realVars
  <2> QED
    BY <2>1, BodyOfCall
<1>8. CASE HandlerReturns \/ UNCHANGED handlerVars
  <2>1. UNCHANGED <<current, phase, now, timeVars, realVars>>
    BY <1>8 DEF HandlerReturns, handlerVars, procVars
  <2> QED
    BY <2>1 DEF TimeInv, TimeType, StartsAt, UserAt, KernelAt, TwiceAt, WallAt, sinceUser,
                sinceKernel, sinceCall, timeVars, realVars
<1> QED
  BY <1>1, <1>2, <1>3, <1>4, <1>5, <1>6, <1>7, <1>8 DEF HandlersNext

(***************************************************************************)
(* The accounting of handler.c and scheduler.c, whatever the number of     *)
(* pcbs, the width of the clock and the order of interrupts, calls and     *)
(* deaths.  The invariant holds in every reachable state.                  *)
(***************************************************************************)
THEOREM TimesInvariant == HandlersSpec => [](IInv /\ TimeInv)
<1>1. HandlersInit => IInv /\ TimeInv
  BY InitIInv, InitTimeInv
<1>2. IInv /\ TimeInv /\ [HandlersNext]_handlerVars => (IInv /\ TimeInv)'
  BY NextIInv, NextTimeInv
<1> QED
  BY <1>1, <1>2, PTL DEF HandlersSpec

\* handler.c accounts user time exactly up to the middle of the clock's range, and never
\* too much after it.
THEOREM UserTimeHolds == HandlersSpec => []UserTimeExact
<1>1. IInv /\ TimeInv => UserTimeExact
  BY TimeInvImplies
<1> QED
  BY <1>1, TimesInvariant, PTL

\* So with kernel time, where what get_cpu_time counts twice (syscall.c:80) is all that is
\* wrong.
THEOREM KernelTimeHolds == HandlersSpec => []KernelTimeExact
<1>1. IInv /\ TimeInv => KernelTimeExact
  BY TimeInvImplies
<1> QED
  BY <1>1, TimesInvariant, PTL

-----------------------------------------------------------------------------
(***************************************************************************)
(* What a process is told of its times, from one GETCPUTIME to the next.   *)
(***************************************************************************)
Report == [user : Nat, kernel : Nat, wall : Nat, again : Nat, at : Nat]

\* The times of a pcb with the stretches that are not over.
userSoFar(p) == user_time[p] + sinceUser(p)
cpuSoFar(p) == userSoFar(p) + kernel_time[p] + sinceKernel(p)

\* Since the last report the wallclock has not been started again, and no more has been
\* accounted than has passed, what that call had counted ahead apart.
ReportAt(p) ==
  report[p].at /= 0 =>
    /\ wallclock_time[p] /= 0 /\ report[p].at <= now
    /\ report[p].wall = report[p].at - wallclock_time[p]
    /\ userSoFar(p) <= report[p].user + (now - report[p].at)
    /\ cpuSoFar(p) <= report[p].user + report[p].kernel + report[p].again + (now - report[p].at)
ReportInv ==
  /\ report \in [Pcb -> Report]
  /\ \A p \in Pcb : ReportAt(p) /\ (p \notin Reporting => report[p].at = 0)

\* What a step that is not a GETCPUTIME does to the times of every process.
Accounts ==
  /\ now <= now'
  /\ \A p \in Pcb :
       /\ userSoFar(p)' <= userSoFar(p) + (now' - now)
       /\ cpuSoFar(p)' <= cpuSoFar(p) + (now' - now)
       /\ wallclock_time[p] /= 0 => wallclock_time'[p] = wallclock_time[p]
       /\ report'[p] = report[p] \/ report'[p] = noReport
  /\ report' \in [Pcb -> Report]

\* The sums are natural numbers.
LEMMA SoFar ==
  ASSUME TimeInv
  PROVE  \A p \in Pcb : userSoFar(p) \in Nat /\ cpuSoFar(p) \in Nat
<1> SUFFICES ASSUME NEW p \in Pcb PROVE userSoFar(p) \in Nat /\ cpuSoFar(p) \in Nat
  OBVIOUS
<1>1. TimesAt(p) /\ StartsAt(p)
  BY TimesOf DEF TimeInv
<1>2. sinceUser(p) \in Nat /\ sinceKernel(p) \in Nat
  BY <1>1 DEF sinceUser, sinceKernel, StartsAt, TimesAt
<1> QED
  BY <1>1, <1>2 DEF userSoFar, cpuSoFar, TimesAt

LEMMA SoFarNext ==
  ASSUME TimeInv'
  PROVE  \A p \in Pcb : userSoFar(p)' \in Nat /\ cpuSoFar(p)' \in Nat
<1> SUFFICES ASSUME NEW p \in Pcb PROVE userSoFar(p)' \in Nat /\ cpuSoFar(p)' \in Nat
  OBVIOUS
<1>1. TimesAt(p)' /\ StartsAt(p)'
  BY TimesOfNext DEF TimeInv
<1>2. sinceUser(p)' \in Nat /\ sinceKernel(p)' \in Nat
  BY <1>1 DEF sinceUser, sinceKernel, StartsAt, TimesAt
<1> QED
  BY <1>1, <1>2 DEF userSoFar, cpuSoFar, TimesAt

\* noReport is one, with no time.
LEMMA NoReportIsReport == noReport \in Report /\ noReport.at = 0
BY DEF noReport, Report

\* Such a step keeps what is known of the last report.
LEMMA AccountsKeeps ==
  ASSUME TimeInv, TimeInv', ReportInv, Accounts
  PROVE  ReportInv'
<1> SUFFICES ASSUME NEW p \in Pcb, report'[p].at /= 0 PROVE ReportAt(p)' /\ p \in Reporting
  BY DEF ReportInv, Accounts, ReportAt
<1>1. report'[p] = report[p]
  BY NoReportIsReport DEF Accounts
<1>2. report[p] \in Report /\ ReportAt(p) /\ p \in Reporting
  BY <1>1 DEF ReportInv
<1>3. /\ report[p].user \in Nat /\ report[p].kernel \in Nat /\ report[p].wall \in Nat
      /\ report[p].again \in Nat /\ report[p].at \in Nat
  BY <1>2 DEF Report
<1>4. userSoFar(p) \in Nat /\ cpuSoFar(p) \in Nat /\ userSoFar(p)' \in Nat /\ cpuSoFar(p)' \in Nat
  BY SoFar, SoFarNext
<1>5. now \in Nat /\ now' \in Nat /\ TimesAt(p)
  BY TimesOf, TimesOfNext DEF TimeInv, TimesAt
<1>6. /\ now <= now'
      /\ userSoFar(p)' <= userSoFar(p) + (now' - now)
      /\ cpuSoFar(p)' <= cpuSoFar(p) + (now' - now)
      /\ wallclock_time[p] /= 0 => wallclock_time'[p] = wallclock_time[p]
  BY DEF Accounts
<1>7. /\ wallclock_time[p] /= 0 /\ report[p].at <= now
      /\ report[p].wall = report[p].at - wallclock_time[p]
      /\ userSoFar(p) <= report[p].user + (now - report[p].at)
      /\ cpuSoFar(p) <= report[p].user + report[p].kernel + report[p].again + (now - report[p].at)
  BY <1>1, <1>2 DEF ReportAt
<1>8. /\ wallclock_time'[p] /= 0 /\ report[p].at <= now'
      /\ report[p].wall = report[p].at - wallclock_time'[p]
  BY <1>3, <1>5, <1>6, <1>7
<1>9. /\ userSoFar(p)' <= report[p].user + (now' - report[p].at)
      /\ cpuSoFar(p)' <= report[p].user + report[p].kernel + report[p].again + (now' - report[p].at)
  BY <1>3, <1>4, <1>5, <1>6, <1>7
<1> QED
  BY <1>1, <1>2, <1>8, <1>9 DEF ReportAt

\* The end of user mode and of the kernel time account no more than the stretch.
LEMMA EndUserAdds ==
  ASSUME TimeInv, current \in Pcb, phase = "user", endUser(current)
  PROVE  \A p \in Pcb : user_time'[p] <= userSoFar(p)
<1> SUFFICES ASSUME NEW p \in Pcb PROVE user_time'[p] <= userSoFar(p)
  OBVIOUS
<1> DEFINE t == user_timeNEW[p]
<1>1. TimeType /\ TimesAt(p) /\ StartsAt(p)
  BY TimesOf DEF TimeInv
<1>2. CASE p /= current
  BY <1>1, <1>2 DEF endUser, userSoFar, sinceUser, TimeType, TimesAt
<1>3. CASE p = current
  <2>1. Since(t) = now - t /\ now - t \in Nat /\ sinceUser(p) = now - t
    BY <1>1, <1>3, Passed DEF StartsAt, TimesAt, sinceUser
  <2>2. user_time[p] \in Nat
    BY <1>1 DEF TimesAt
  <2> HIDE DEF t
  <2>3. Plus(user_time[p], Since(t)) <= user_time[p] + (now - t)
    BY <2>1, <2>2, Sum
  <2>4. user_time'[p] = Plus(user_time[p], Since(t)) \/ user_time'[p] = user_time[p]
    BY <1>1, <1>3 DEF endUser, TimeType, t
  <2> QED
    BY <2>1, <2>2, <2>3, <2>4 DEF userSoFar
<1> QED
  BY <1>2, <1>3

LEMMA EndKernelAdds ==
  ASSUME TimeInv, current \in Pcb, phase \in Kernel, endKernel(current)
  PROVE  \A p \in Pcb : kernel_time'[p] <= kernel_time[p] + sinceKernel(p)
<1> SUFFICES ASSUME NEW p \in Pcb PROVE kernel_time'[p] <= kernel_time[p] + sinceKernel(p)
  OBVIOUS
<1> DEFINE t == kernel_timeNEW[p]
<1>1. TimeType /\ TimesAt(p) /\ StartsAt(p)
  BY TimesOf DEF TimeInv
<1>2. CASE p /= current
  BY <1>1, <1>2 DEF endKernel, sinceKernel, TimeType, TimesAt
<1>3. CASE p = current
  <2>1. Since(t) = now - t /\ now - t \in Nat /\ sinceKernel(p) = now - t
    BY <1>1, <1>3, Passed DEF StartsAt, TimesAt, sinceKernel
  <2>2. kernel_time[p] \in Nat
    BY <1>1 DEF TimesAt
  <2> HIDE DEF t
  <2>3. Plus(kernel_time[p], Since(t)) <= kernel_time[p] + (now - t)
    BY <2>1, <2>2, Sum
  <2>4. kernel_time'[p] = Plus(kernel_time[p], Since(t)) \/ kernel_time'[p] = kernel_time[p]
    BY <1>1, <1>3 DEF endKernel, TimeType, t
  <2> QED
    BY <2>1, <2>2, <2>3, <2>4
<1> QED
  BY <1>2, <1>3

\* The clock goes on.
LEMMA TickAccounts ==
  ASSUME TimeInv, ReportInv, Tick
  PROVE  Accounts
<1>1. /\ now' = now + 1
      /\ UNCHANGED <<current, phase, user_time, user_timeNEW, kernel_time, kernel_timeNEW,
                     wallclock_time, report>>
  BY DEF Tick, timeVars, procVars
<1>2. ASSUME NEW p \in Pcb
      PROVE  /\ userSoFar(p)' <= userSoFar(p) + (now' - now)
             /\ cpuSoFar(p)' <= cpuSoFar(p) + (now' - now)
  <2>1. TimesAt(p)
    BY TimesOf DEF TimeInv
  <2> QED
    BY <1>1, <2>1 DEF userSoFar, cpuSoFar, sinceUser, sinceKernel, TimesAt, Kernel
<1>3. now <= now'
  BY <1>1 DEF TimeInv, TimeType
<1> QED
  BY <1>1, <1>2, <1>3 DEF Accounts, ReportInv

\* Into a handler: the stretch of user mode is over, and none of the kernel has passed.
LEMMA ToHandlerAccounts ==
  ASSUME IInv, TimeInv, TimeInv', ReportInv, EnterInterrupt \/ EnterSyscall \/ EnterTrap
  PROVE  Accounts
<1>1. /\ phase = "user" /\ phase' /= "user"
      /\ UNCHANGED <<current, now, kernel_time, wallclock_time, report>>
  BY DEF EnterInterrupt, EnterSyscall, EnterTrap, InterruptsEnabled, Running, procVars, realVars
<1>2. \A p \in Pcb : user_time'[p] <= userSoFar(p)
  <2>1. CASE current = NULL /\ UNCHANGED user_time
    BY <2>1, TimesOf, RootIsPcb DEF TimeInv, TimesAt, userSoFar, sinceUser
  <2>2. CASE current \in Pcb /\ endUser(current)
    BY <1>1, <2>2, EndUserAdds
  <2> QED
    BY <2>1, <2>2, CurrentIsPcb DEF EnterInterrupt, EnterSyscall, EnterTrap, Running
<1>3. phase' \in Kernel => kernel_timeNEW'[current] = now /\ current \in Pcb
  <2>1. CASE EnterInterrupt
    BY <2>1 DEF EnterInterrupt, Kernel
  <2>2. CASE EnterSyscall \/ EnterTrap
    BY <2>2, CurrentIsPcb DEF EnterSyscall, EnterTrap, Running, startKernel, TimeInv, TimeType
  <2> QED
    BY <2>1, <2>2
<1>4. ASSUME NEW p \in Pcb
      PROVE  userSoFar(p)' <= userSoFar(p) /\ cpuSoFar(p)' <= cpuSoFar(p)
  <2>1. TimesAt(p) /\ TimesAt(p)'
    BY TimesOf, TimesOfNext DEF TimeInv
  <2>2. sinceKernel(p) = 0 /\ sinceKernel(p)' = 0 /\ sinceUser(p)' = 0
    BY <1>1, <1>3, <2>1 DEF sinceKernel, sinceUser, Kernel, TimesAt
  <2>3. kernel_time'[p] = kernel_time[p] /\ userSoFar(p) \in Nat
    BY <1>1, SoFar
  <2> QED
    BY <1>2, <2>1, <2>2, <2>3 DEF userSoFar, cpuSoFar, TimesAt
<1>5. now \in Nat /\ \A p \in Pcb : userSoFar(p) \in Nat /\ cpuSoFar(p) \in Nat
  BY SoFar DEF TimeInv, TimeType
<1> QED
  BY <1>1, <1>4, <1>5 DEF Accounts, ReportInv

\* Back to user mode: the stretch of the kernel is over, and that of user mode begins.
LEMMA ToUserAccounts ==
  ASSUME TimeInv, TimeInv', ReportInv, Starts, phase /= "user", phase' = "user",
         UNCHANGED <<now, user_time, report>>,
         \A p \in Pcb : kernel_time'[p] <= kernel_time[p] + sinceKernel(p)
  PROVE  Accounts
<1>1. ASSUME NEW p \in Pcb
      PROVE  userSoFar(p)' <= userSoFar(p) /\ cpuSoFar(p)' <= cpuSoFar(p)
  <2>1. TimesAt(p) /\ TimesAt(p)' /\ StartsAt(p)
    BY TimesOf, TimesOfNext DEF TimeInv
  <2>2. sinceUser(p) = 0 /\ sinceUser(p)' = 0 /\ sinceKernel(p)' = 0 /\ sinceKernel(p) \in Nat
    BY <2>1 DEF sinceUser, sinceKernel, Starts, StartsAt, TimesAt, Kernel
  <2>3. user_time'[p] = user_time[p] /\ kernel_time'[p] <= kernel_time[p] + sinceKernel(p)
    OBVIOUS
  <2> QED
    BY <2>1, <2>2, <2>3 DEF userSoFar, cpuSoFar, TimesAt
<1>2. now \in Nat /\ \A p \in Pcb : userSoFar(p) \in Nat /\ cpuSoFar(p) \in Nat
  BY SoFar DEF TimeInv, TimeType
<1>3. \A p \in Pcb : wallclock_time[p] /= 0 => wallclock_time'[p] = wallclock_time[p]
  BY DEF Starts
<1> QED
  BY <1>1, <1>2, <1>3 DEF Accounts, ReportInv

\* All the ways back to user mode.
LEMMA ReturnsAccount ==
  ASSUME IInv, TimeInv, TimeInv', ReportInv,
         \/ TimerInterrupt \/ DeviceInterrupt
         \/ ReturnFromSyscall \/ BlockCall \/ PassItUp \/ DieUnhandled \/ TerminateCall
  PROVE  Accounts
<1>1. phase /= "user" /\ phase' = "user" /\ UNCHANGED <<now, user_time, report>>
  BY DEF TimerInterrupt, DeviceInterrupt, ReturnFromSyscall, BlockCall, PassItUp, DieUnhandled,
         TerminateCall, die, InCall, realVars
<1>2. Starts
  <2>1. CASE TimerInterrupt \/ BlockCall \/ DieUnhandled \/ TerminateCall
    BY <2>1, DispatchTimes DEF TimerInterrupt, BlockCall, DieUnhandled, TerminateCall, die
  <2>2. CASE DeviceInterrupt /\ current = NULL
    BY <2>2, DispatchTimes DEF DeviceInterrupt
  <2>3. CASE DeviceInterrupt /\ current /= NULL
    BY <2>3, CurrentIsPcb, StartUserStarts DEF DeviceInterrupt
  <2>4. CASE ReturnFromSyscall \/ PassItUp
    <3>1. current /= NULL
      BY <2>4 DEF ReturnFromSyscall, PassItUp, IInv, CurrentInv
    <3> QED
      BY <2>4, <3>1, CurrentIsPcb, StartUserStarts DEF ReturnFromSyscall, PassItUp, procVars
  <2> QED
    BY <2>1, <2>2, <2>3, <2>4
<1>3. \A p \in Pcb : kernel_time'[p] <= kernel_time[p] + sinceKernel(p)
  <2>1. \A p \in Pcb : kernel_time[p] <= kernel_time[p] + sinceKernel(p)
    BY TimesOf DEF TimeInv, TimesAt, StartsAt, sinceKernel
  <2>2. CASE UNCHANGED kernel_time
    BY <2>1, <2>2
  <2>3. CASE ReturnFromSyscall \/ BlockCall \/ PassItUp \/ DieUnhandled
    <3>1. phase \in Kernel /\ current /= NULL /\ endKernel(current)
      BY <2>3 DEF ReturnFromSyscall, BlockCall, InCall, PassItUp, DieUnhandled, Kernel, IInv, CurrentInv
    <3> QED
      BY <3>1, CurrentIsPcb, EndKernelAdds
  <2> QED
    BY <2>2, <2>3 DEF TimerInterrupt, DeviceInterrupt, TerminateCall
<1> QED
  BY <1>1, <1>2, <1>3, ToUserAccounts

\* Steps that leave the times alone; create_process forgets what the process before was told.
LEMMA QuietAccounts ==
  ASSUME TimeInv, ReportInv,
         \/ create_process \/ SpecPassUp \/ OtherCall \/ TerminateOther
         \/ HandlerReturns \/ UNCHANGED handlerVars
  PROVE  Accounts
<1>1. /\ UNCHANGED <<current, now, timeVars>>
      /\ phase' = phase \/ (phase = "call" /\ phase' = "return")
  BY DEF create_process, SpecPassUp, OtherCall, TerminateOther, HandlerReturns, InCall, handlerVars,
         procVars
<1>2. report' \in [Pcb -> Report] /\ \A p \in Pcb : report'[p] = report[p] \/ report'[p] = noReport
  <2>1. CASE UNCHANGED report
    BY <2>1 DEF ReportInv
  <2>2. CASE create_process
    <3>1. PICK p \in Pcb : report' = [report EXCEPT ![p] = noReport]
      BY <2>2 DEF create_process
    <3> QED
      BY <3>1, NoReportIsReport DEF ReportInv
  <2> QED
    BY <2>1, <2>2 DEF SpecPassUp, OtherCall, TerminateOther, HandlerReturns, handlerVars, realVars
<1>3. \A p \in Pcb : /\ userSoFar(p)' = userSoFar(p) /\ userSoFar(p) \in Nat
                     /\ cpuSoFar(p)' = cpuSoFar(p) /\ cpuSoFar(p) \in Nat
  BY <1>1, SoFar DEF userSoFar, cpuSoFar, sinceUser, sinceKernel, timeVars, Kernel
<1>4. now \in Nat
  BY DEF TimeInv, TimeType
<1> QED
  BY <1>1, <1>2, <1>3, <1>4 DEF Accounts, timeVars

\* What GETCPUTIME tells a process, and what its times are afterwards.
Told(p) ==
  LET r == report'[p]
  IN  /\ r \in Report
      /\ r.user = userSoFar(p) /\ r.user + r.kernel <= cpuSoFar(p)
      /\ wallclock_time[p] /= 0 /\ r.wall = now - wallclock_time[p]
      /\ r.at = now
      /\ userSoFar(p)' = r.user /\ cpuSoFar(p)' = r.user + r.kernel + r.again

\* To the process that has called it.
LEMMA GetCpuTells ==
  ASSUME IInv, TimeInv, ReportInv, get_cpu_time, current \in Reporting
  PROVE  Told(current)
<1> DEFINE t == kernel_timeNEW[current]
           w == wallclock_time[current]
<1>1. phase = "call" /\ phase' = "return" /\ current \in Pcb /\ current' = current
  BY CurrentIsPcb DEF get_cpu_time, InCall, IInv, CurrentInv, procVars
<1>2. TimeType /\ TimesAt(current) /\ StartsAt(current)
  BY <1>1, TimesOf DEF TimeInv
<1>3. /\ UNCHANGED <<now, user_time, kernel_timeNEW>>
      /\ kernel_time' = [kernel_time EXCEPT ![current] = Plus(@, Since(t))]
      /\ report' = [report EXCEPT ![current] =
           [user |-> user_time[current], kernel |-> kernel_time'[current],
            wall |-> Since(w), again |-> Since(t), at |-> now]]
  BY DEF get_cpu_time
<1>4. /\ Since(t) = now - t /\ now - t \in Nat
      /\ Since(w) = now - w /\ now - w \in Nat /\ w /= 0
  BY <1>1, <1>2, Passed DEF StartsAt, TimesAt
<1>5. /\ sinceUser(current) = 0 /\ sinceUser(current)' = 0
      /\ sinceKernel(current) = now - t /\ sinceKernel(current)' = now - t
  BY <1>1, <1>3 DEF sinceUser, sinceKernel, Kernel
<1>6. /\ user_time[current] \in Nat /\ kernel_time[current] \in Nat /\ now \in Nat
  BY <1>2 DEF TimesAt
<1> HIDE DEF t, w
<1>7. /\ kernel_time'[current] = Plus(kernel_time[current], Since(t))
      /\ report'[current] =
           [user |-> user_time[current], kernel |-> kernel_time'[current],
            wall |-> now - w, again |-> now - t, at |-> now]
  BY <1>1, <1>2, <1>3, <1>4 DEF ReportInv, TimeType
<1>8. Plus(kernel_time[current], Since(t)) \in Nat
      /\ Plus(kernel_time[current], Since(t)) <= kernel_time[current] + (now - t)
  BY <1>4, <1>6, Sum, Words
<1>9. report'[current] \in Report
  BY <1>4, <1>6, <1>7, <1>8 DEF Report
<1>10. /\ userSoFar(current) = user_time[current] /\ userSoFar(current)' = user_time[current]
       /\ cpuSoFar(current) = user_time[current] + kernel_time[current] + (now - t)
       /\ cpuSoFar(current)' = user_time[current] + kernel_time'[current] + (now - t)
  BY <1>1, <1>3, <1>5, <1>6 DEF userSoFar, cpuSoFar
<1> QED
  BY <1>4, <1>6, <1>7, <1>8, <1>9, <1>10 DEF Told, w

\* The other processes hear nothing, and their times stand still.
LEMMA GetCpuOthers ==
  ASSUME TimeInv, get_cpu_time, NEW p \in Pcb, p /= current
  PROVE  /\ report'[p] = report[p] /\ UNCHANGED <<now, wallclock_time>>
         /\ userSoFar(p)' = userSoFar(p) /\ cpuSoFar(p)' = cpuSoFar(p)
<1>1. /\ UNCHANGED <<current, now, user_time, user_timeNEW, kernel_timeNEW, wallclock_time>>
      /\ phase = "call" /\ phase' = "return"
      /\ kernel_time'[p] = kernel_time[p] /\ report'[p] = report[p]
  BY DEF get_cpu_time, InCall, procVars, TimeInv, TimeType
<1> QED
  BY <1>1 DEF userSoFar, cpuSoFar, sinceUser, sinceKernel

LEMMA GetCpuReports ==
  ASSUME IInv, TimeInv, ReportInv, get_cpu_time
  PROVE  ReportInv'
<1>1. now \in Nat /\ current \in Pcb /\ UNCHANGED <<now, wallclock_time>>
  BY CurrentIsPcb DEF get_cpu_time, InCall, IInv, CurrentInv, TimeInv, TimeType
<1>2. report' \in [Pcb -> Report]
  <2>1. CASE current \in Reporting
    <3>1. report'[current] \in Report
      BY <2>1, GetCpuTells DEF Told
    <3>2. report' = [report EXCEPT ![current] = report'[current]]
      BY <1>1, <2>1 DEF get_cpu_time, ReportInv
    <3> QED
      BY <3>1, <3>2 DEF ReportInv
  <2>2. CASE current \notin Reporting
    BY <2>2 DEF get_cpu_time, ReportInv
  <2> QED
    BY <2>1, <2>2
<1> SUFFICES ASSUME NEW p \in Pcb
             PROVE  ReportAt(p)' /\ (p \notin Reporting => report'[p].at = 0)
  BY <1>2 DEF ReportInv
<1>3. CASE p /= current
  BY <1>1, <1>3, GetCpuOthers DEF ReportInv, ReportAt
<1>4. CASE p = current /\ p \in Reporting
  <2>1. Told(p) /\ userSoFar(p) \in Nat
    BY <1>4, GetCpuTells, SoFar
  <2>2. /\ report'[p].user \in Nat /\ report'[p].kernel \in Nat /\ report'[p].again \in Nat
        /\ report'[p].at = now' /\ now' = now
    BY <1>1, <2>1 DEF Told, Report
  <2>3. /\ wallclock_time'[p] /= 0 /\ report'[p].at <= now'
        /\ report'[p].wall = report'[p].at - wallclock_time'[p]
    BY <1>1, <2>1, <2>2 DEF Told
  <2>4. /\ userSoFar(p)' <= report'[p].user + (now' - report'[p].at)
        /\ cpuSoFar(p)' <= report'[p].user + report'[p].kernel + report'[p].again
                             + (now' - report'[p].at)
    BY <1>1, <2>1, <2>2 DEF Told
  <2> QED
    BY <1>4, <2>3, <2>4 DEF ReportAt
<1>5. CASE p = current /\ p \notin Reporting
  BY <1>5 DEF get_cpu_time, ReportInv, ReportAt
<1> QED
  BY <1>3, <1>4, <1>5

\* Every step is a GETCPUTIME or accounts.
LEMMA StepAccounts ==
  ASSUME IInv, TimeInv, TimeInv', ReportInv, [HandlersNext]_handlerVars
  PROVE  get_cpu_time \/ Accounts
<1>1. CASE Tick
  BY <1>1, TickAccounts
<1>2. CASE EnterInterrupt \/ EnterSyscall \/ EnterTrap
  BY <1>2, ToHandlerAccounts
<1>3. CASE \/ TimerInterrupt \/ DeviceInterrupt
           \/ ReturnFromSyscall \/ BlockCall \/ PassItUp \/ DieUnhandled \/ TerminateCall
  BY <1>3, ReturnsAccount
<1>4. CASE \/ create_process \/ SpecPassUp \/ OtherCall \/ TerminateOther
           \/ HandlerReturns \/ UNCHANGED handlerVars
  BY <1>4, QuietAccounts
<1> QED
  BY <1>1, <1>2, <1>3, <1>4 DEF HandlersNext

\* Every step preserves what is known of the reports, and hands over only what fits the
\* report before.
LEMMA StepReports ==
  ASSUME IInv, TimeInv, TimeInv', ReportInv, [HandlersNext]_handlerVars
  PROVE  ReportInv'
BY StepAccounts, AccountsKeeps, GetCpuReports

Consistent(p) ==
  LET r == report[p]
      s == report'[p]
  IN  r.at /= 0 /\ s.at /= 0 =>
        /\ s.user - r.user <= s.wall - r.wall
        /\ (s.user + s.kernel) - (r.user + r.kernel) <= (s.wall - r.wall) + r.again
        /\ s.wall - r.wall <= s.at - r.at

LEMMA StepConsistent ==
  ASSUME IInv, TimeInv, TimeInv', ReportInv, [HandlersNext]_handlerVars, NEW p \in Pcb
  PROVE  Consistent(p)
<1> SUFFICES ASSUME report[p].at /= 0, report'[p].at /= 0 PROVE Consistent(p)
  BY DEF Consistent
<1>1. report[p] \in Report /\ ReportAt(p) /\ p \in Reporting
  BY DEF ReportInv
<1>2. /\ report[p].user \in Nat /\ report[p].kernel \in Nat /\ report[p].wall \in Nat
      /\ report[p].again \in Nat /\ report[p].at \in Nat
  BY <1>1 DEF Report
<1>3. CASE report'[p] = report[p]
  BY <1>2, <1>3 DEF Consistent
<1>4. CASE get_cpu_time /\ p = current
  <2>1. Told(p) /\ userSoFar(p) \in Nat /\ cpuSoFar(p) \in Nat /\ TimesAt(p)
    BY <1>1, <1>4, GetCpuTells, SoFar, TimesOf DEF TimeInv
  <2>2. /\ report'[p].user \in Nat /\ report'[p].kernel \in Nat
        /\ now \in Nat /\ wallclock_time[p] \in Nat
    BY <2>1 DEF Told, Report, TimesAt
  <2>3. /\ report'[p].user = userSoFar(p) /\ report'[p].user + report'[p].kernel <= cpuSoFar(p)
        /\ report'[p].wall = now - wallclock_time[p] /\ report'[p].at = now
    BY <2>1 DEF Told
  <2>4. /\ report[p].wall = report[p].at - wallclock_time[p]
        /\ userSoFar(p) <= report[p].user + (now - report[p].at)
        /\ cpuSoFar(p) <= report[p].user + report[p].kernel + report[p].again + (now - report[p].at)
    BY <1>1 DEF ReportAt
  <2>5. /\ report'[p].user - report[p].user <= report'[p].wall - report[p].wall
        /\ report'[p].wall - report[p].wall <= report'[p].at - report[p].at
    BY <1>2, <2>1, <2>2, <2>3, <2>4
  <2>6. (report'[p].user + report'[p].kernel) - (report[p].user + report[p].kernel)
          <= (report'[p].wall - report[p].wall) + report[p].again
    BY <1>2, <2>1, <2>2, <2>3, <2>4
  <2> QED
    BY <2>5, <2>6 DEF Consistent
<1>5. \/ report'[p] = report[p] \/ report'[p] = noReport
      \/ get_cpu_time /\ p = current
  BY StepAccounts, GetCpuOthers DEF Accounts
<1> QED
  BY <1>3, <1>4, <1>5, NoReportIsReport

\* The initial states: nobody has been told anything.
LEMMA InitReports == HandlersInit => ReportInv
BY NoReportIsReport DEF HandlersInit, ReportInv, ReportAt

(***************************************************************************)
(* From one GETCPUTIME of a process to its next, whatever interrupts it,   *)
(* blocks it or dies meanwhile, and also in a pcb with the times of those  *)
(* that died before it, user time does not grow by more than wallclock     *)
(* time, nor all cpu time by more than that and what the first call counts *)
(* twice, and wallclock time not by more than real time.                   *)
(***************************************************************************)
THEOREM WallclockHolds == HandlersSpec => CpuWithinWallclock
<1>1. HandlersInit => IInv /\ TimeInv /\ ReportInv
  BY InitIInv, InitTimeInv, InitReports
<1>2. IInv /\ TimeInv /\ ReportInv /\ [HandlersNext]_handlerVars
        => (IInv /\ TimeInv /\ ReportInv)'
  BY NextIInv, NextTimeInv, StepReports
<1>3. IInv /\ TimeInv /\ TimeInv' /\ ReportInv /\ [HandlersNext]_handlerVars
        => \A p \in Pcb : Consistent(p)
  BY StepConsistent
<1>4. (\A p \in Pcb : Consistent(p)) <=>
      \A p \in Pcb :
        LET r == report[p]
            s == report'[p]
        IN  r.at /= 0 /\ s.at /= 0 =>
              /\ s.user - r.user <= s.wall - r.wall
              /\ (s.user + s.kernel) - (r.user + r.kernel) <= (s.wall - r.wall) + r.again
              /\ s.wall - r.wall <= s.at - r.at
  BY DEF Consistent
<1> QED
  BY <1>1, <1>2, <1>3, <1>4, PTL DEF HandlersSpec, CpuWithinWallclock
=============================================================================
