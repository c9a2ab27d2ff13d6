-------------------------- MODULE MonitorShmProofs --------------------------
(***************************************************************************)
(* What monitor_shm reads without a lock is plausible, and install_data    *)
(* writes the segment that others find, for any number of points, seconds, *)
(* segments and restarts of the two programs.                              *)
(***************************************************************************)
EXTENDS MonitorShm, AttachmentProofs, FiniteSetTheorems, TLAPS

AtInstaller == {"start", "connect", "copy", "work", "destroy", "ended"}
AtMonitor == {"start", "connect", "copy", "loop", "count", "list", "sleep", "detach", "ended"}

Shapes ==
  /\ made \in [segments : 0 .. MaxIds, semaphores : 0 .. MaxIds]
  /\ segment \in Ids \cup {NULL}
  /\ attached \in [Procs -> [Addrs -> Ids \cup {NULL}]]
  /\ ret \in [Procs -> Pointer]
  /\ DOMAIN pc = Procs /\ DOMAIN op = Procs /\ DOMAIN shm_id = Procs /\ DOMAIN at = Procs

\* Where the library is, given where the program is.  Only install_data is ever
\* inside destroy_shm.
PlaceInLibrary(where) ==
  IF where = "connect" THEN {"idle", "shmat"}
  ELSE IF where = "destroy" THEN {"idle", "loop", "unlocked", "shmctl"}
  ELSE IF where = "detach" THEN {"idle", "unlocked"}
  ELSE {"idle"}

Places ==
  /\ at[installer] \in AtInstaller /\ at[monitor] \in AtMonitor
  /\ \A p \in Procs :
       /\ pc[p] \in PlaceInLibrary(at[p])
       /\ at[p] = "detach" /\ pc[p] = "unlocked" => op[p] = "detach"
       /\ pc[p] = "shmat" => shm_id[p] \in Ids
       /\ at[p] \in {"copy", "work", "loop", "count", "list", "sleep"} => Connected(p)

\* From its shmget on, install_data's segment is the one the key names.
Visible ==
  /\ at[installer] = "connect" /\ pc[installer] = "shmat" => shm_id[installer] = segment
  /\ at[installer] = "connect" /\ pc[installer] = "idle" /\ Connected(installer)
       => Segment(installer) = segment
  /\ at[installer] \in {"copy", "work"} => Segment(installer) = segment

Control == Shapes /\ Places /\ Visible

----------------------------------------------------------------------------
LEMMA ControlInit == MonitorInit => Control
BY MonitorAssumption, SharedMemAssumption
   DEF MonitorInit, Init, Control, Shapes, Places, PlaceInLibrary, Visible, AtInstaller, AtMonitor,
       Connected, Pointer, Ids

\* A program goes on, outside of the library.
LEMMA ControlOutside ==
  ASSUME Control, NEW p \in Procs, UNCHANGED vars,
         NEW from, NEW to, Moves(p, from, to),
         from \in {"connect", "copy", "loop", "count", "list", "sleep", "destroy", "detach"},
         pc[p] = "idle",
         <<p, to>> \in ({installer} \X {"copy", "work", "ended"})
                       \cup ({monitor} \X {"copy", "loop", "count", "list", "sleep", "ended"}),
         to # "ended" => Connected(p),
         to \in {"copy", "work"} => from \in {"connect", "copy"}
  PROVE  Control'
<1>1. /\ UNCHANGED <<made, segment, attached, ret, pc, op, shm_id>>
      /\ at[p] = from /\ at' = [at EXCEPT ![p] = to]
  BY DEF vars, kernel, locals, Moves
<1>2. Shapes'
  BY <1>1 DEF Control, Shapes
<1>3. Places'
  BY <1>1, MonitorAssumption
     DEF Control, Shapes, Places, PlaceInLibrary, AtInstaller, AtMonitor, Connected
<1>4. Visible'
  BY <1>1, MonitorAssumption DEF Control, Shapes, Places, Visible, Connected, Segment
<1> QED BY <1>2, <1>3, <1>4 DEF Control

\* A connect_shm whose shmget failed returns NULL and did nothing.
LEMMA ShmgetFailsFacts ==
  ASSUME NEW p \in Procs, ShmgetFails(p)
  PROVE  /\ pc[p] = "idle" /\ pc' = [pc EXCEPT ![p] = "idle"]
         /\ ret' = [ret EXCEPT ![p] = NULL] /\ op' = [op EXCEPT ![p] = "none"]
         /\ shm_id' = [shm_id EXCEPT ![p] = NULL]
         /\ UNCHANGED <<segment, made, attached, SegmentNodes, orphans>>
BY DEF ShmgetFails, Idle, Return, Goto, kernel

LEMMA ControlConnectFails ==
  ASSUME Control, NEW p \in Procs, ConnectShm(p), ShmgetFails(p)
  PROVE  Control'
<1>1. at[p] = "start" /\ at' = [at EXCEPT ![p] = "connect"]
  BY DEF ConnectShm, Moves
<1>2. Shapes'
  BY <1>1, ShmgetFailsFacts DEF Control, Shapes, Pointer
<1>3. Places'
  BY <1>1, ShmgetFailsFacts, MonitorAssumption
     DEF Control, Shapes, Places, PlaceInLibrary, AtInstaller, AtMonitor, Connected
<1>4. Visible'
  BY <1>1, ShmgetFailsFacts, MonitorAssumption
     DEF Control, Shapes, Places, PlaceInLibrary, Visible, Connected, Segment
<1> QED BY <1>2, <1>3, <1>4 DEF Control

LEMMA ControlConnect ==
  ASSUME Control, NEW p \in Procs, ConnectShm(p)
  PROVE  Control'
<1>0. SUFFICES ASSUME Shmget(p) PROVE Control'
  BY ControlConnectFails DEF ConnectShm
<1>1. /\ at[p] = "start" /\ at' = [at EXCEPT ![p] = "connect"]
      /\ pc' = [pc EXCEPT ![p] = "shmat"] /\ shm_id' = [shm_id EXCEPT ![p] = segment']
      /\ UNCHANGED <<attached, ret, op>>
  BY <1>0 DEF ConnectShm, Shmget, Moves, Goto
<1>2. /\ made' \in [segments : 0 .. MaxIds, semaphores : 0 .. MaxIds]
      /\ segment' \in Ids
      /\ segment # NULL => segment' = segment
  <2>1. CASE segment # NULL
    BY <1>0, <2>1 DEF Control, Shapes, Shmget
  <2>2. CASE segment = NULL
    BY <1>0, <2>2, SharedMemAssumption DEF Control, Shapes, Shmget, Ids
  <2> QED BY <2>1, <2>2
<1>3. Shapes'
  BY <1>1, <1>2 DEF Control, Shapes
<1>4. Places'
  BY <1>1, <1>2, MonitorAssumption
     DEF Control, Shapes, Places, PlaceInLibrary, AtInstaller, AtMonitor, Connected
<1>5. Visible'
  BY <1>1, <1>2, MonitorAssumption, SharedMemAssumption
     DEF Control, Shapes, Places, PlaceInLibrary, Visible, Connected, Segment, Ids
<1> QED BY <1>3, <1>4, <1>5 DEF Control

\* Inside the library; without semaphores it is at few places.
LEMMA ControlLibrary ==
  ASSUME Control, NEW p \in Procs, InLibrary(p)
  PROVE  Control'
<1>1. at' = at /\ UNCHANGED programs
  BY DEF InLibrary, programs
<1>2. pc[p] \in {"idle", "shmat", "loop", "unlocked", "shmctl"} /\ p \notin SemUsers
  BY MonitorAssumption DEF Control, Places, PlaceInLibrary
<1>3. CASE Shmat(p)
  <2>1. PICK a \in Addrs : /\ attached[p][a] = NULL
                           /\ attached' = [attached EXCEPT ![p][a] = shm_id[p]]
                           /\ ret' = [ret EXCEPT ![p] = a]
                           /\ pc' = [pc EXCEPT ![p] = "idle"]
                           /\ op' = [op EXCEPT ![p] = "none"]
                           /\ shm_id' = [shm_id EXCEPT ![p] = NULL]
                           /\ UNCHANGED <<made, segment>>
    BY <1>2, <1>3 DEF Shmat, Return, Goto
  <2>2. at[p] = "connect" /\ pc[p] = "shmat" /\ shm_id[p] \in Ids
    BY <1>3 DEF Control, Places, PlaceInLibrary, Shmat
  <2>3. Shapes'
    BY <1>1, <2>1, <2>2 DEF Control, Shapes, Pointer, Addrs
  <2>4. Places'
    BY <1>1, <2>1, <2>2, MonitorAssumption
       DEF Control, Shapes, Places, PlaceInLibrary, AtInstaller, AtMonitor, Connected
  <2>5. Visible'
    BY <1>1, <2>1, <2>2, MonitorAssumption DEF Control, Shapes, Visible, Connected, Segment
  <2> QED BY <2>3, <2>4, <2>5 DEF Control
<1>4. CASE ShmatFails(p)
  <2>1. /\ ret' = [ret EXCEPT ![p] = NULL] /\ pc' = [pc EXCEPT ![p] = "idle"]
        /\ op' = [op EXCEPT ![p] = "none"] /\ shm_id' = [shm_id EXCEPT ![p] = NULL]
        /\ UNCHANGED <<made, segment, attached>>
    BY <1>4 DEF ShmatFails, Return, Goto, kernel
  <2>2. at[p] = "connect"
    BY <1>4 DEF Control, Places, PlaceInLibrary, ShmatFails
  <2> QED BY <1>1, <2>1, <2>2, MonitorAssumption
          DEF Control, Shapes, Places, PlaceInLibrary, Visible, Connected, Segment, Pointer,
              AtInstaller, AtMonitor
<1>5. CASE Loop(p) \/ LoopEnds(p)
  <2>1. /\ at[p] = "destroy" /\ pc' = [pc EXCEPT ![p] = "unlocked"]
        /\ \/ UNCHANGED attached
           \/ attached' = [attached EXCEPT ![p][next[p]] = NULL]
        /\ DOMAIN op' = DOMAIN op /\ \A q \in Procs : q # p => op'[q] = op[q]
        /\ UNCHANGED <<made, segment, ret, shm_id>>
    BY <1>2, <1>5
       DEF Control, Shapes, Places, PlaceInLibrary, Loop, LoopEnds, Detach, Operation, ThenLock, Goto,
           kernel
  <2> QED BY <1>1, <2>1, MonitorAssumption
          DEF Control, Shapes, Places, PlaceInLibrary, Visible, Connected, Segment, AtInstaller,
              AtMonitor
<1>6. CASE Unlocked(p)
  <2>1. /\ at[p] \in {"destroy", "detach"}
        /\ at[p] = "detach" => pc' = [pc EXCEPT ![p] = "idle"]
        /\ \E where \in {"idle", "loop", "shmctl"} : pc' = [pc EXCEPT ![p] = where]
        /\ DOMAIN ret' = Procs /\ ret'[p] \in Pointer /\ \A q \in Procs : q # p => ret'[q] = ret[q]
        /\ DOMAIN op' = Procs /\ \A q \in Procs : q # p => op'[q] = op[q]
        /\ DOMAIN shm_id' = Procs /\ \A q \in Procs : q # p => shm_id'[q] = shm_id[q]
        /\ ret' \in [Procs -> Pointer]
        /\ UNCHANGED <<made, segment, attached>>
    BY <1>6 DEF Control, Shapes, Places, PlaceInLibrary, Unlocked, Return, Goto, kernel, locals, Pointer
  <2> QED BY <1>1, <2>1, MonitorAssumption
          DEF Control, Shapes, Places, PlaceInLibrary, Visible, Connected, Segment, AtInstaller,
              AtMonitor
<1>7. CASE Shmctl(p)
  <2>1. /\ at[p] = "destroy" /\ p = installer
        /\ ret' = [ret EXCEPT ![p] = NULL] /\ pc' = [pc EXCEPT ![p] = "idle"]
        /\ op' = [op EXCEPT ![p] = "none"] /\ shm_id' = [shm_id EXCEPT ![p] = NULL]
        /\ segment' \in {segment, NULL}
        /\ UNCHANGED <<made, attached>>
    BY <1>7, MonitorAssumption
       DEF Control, Places, PlaceInLibrary, AtInstaller, AtMonitor, Shmctl, Return, Goto
  <2> QED BY <1>1, <2>1, MonitorAssumption
          DEF Control, Shapes, Places, PlaceInLibrary, Visible, Connected, Segment, Pointer,
              AtInstaller, AtMonitor
<1> QED BY <1>2, <1>3, <1>4, <1>5, <1>6, <1>7
        DEF InLibrary, Inside, Semget, SemgetFails, Semup, Stat, Semctl, Lock, LockIsGone

LEMMA ControlDetach ==
  ASSUME Control, DetachSegment \/ DestroySegment
  PROVE  Control'
<1>1. \E p \in Procs :
        /\ \/ p = monitor /\ at[p] = "loop" /\ at' = [at EXCEPT ![p] = "detach"]
           \/ p = installer /\ at[p] = "work" /\ at' = [at EXCEPT ![p] = "destroy"]
        /\ \/ pc' = [pc EXCEPT ![p] = "idle"]
           \/ p = monitor /\ pc' = [pc EXCEPT ![p] = "unlocked"] /\ op'[p] = "detach"
           \/ p = installer /\ pc' = [pc EXCEPT ![p] = "loop"]
        /\ \/ UNCHANGED attached
           \/ \E a \in Addrs : attached' = [attached EXCEPT ![p][a] = NULL]
        /\ ret' \in [Procs -> Pointer] /\ \A q \in Procs : q # p => ret'[q] = ret[q]
        /\ DOMAIN op' = Procs /\ \A q \in Procs : q # p => op'[q] = op[q]
        /\ DOMAIN shm_id' = Procs /\ \A q \in Procs : q # p => shm_id'[q] = shm_id[q]
        /\ UNCHANGED <<made, segment>>
  <2>1. CASE DetachSegment
    <3>1. ret[monitor] \in Addrs
      BY <2>1, MonitorAssumption
         DEF Control, Shapes, Places, Connected, DetachSegment, Moves, Pointer, Addrs
    <3>2. /\ at[monitor] = "loop" /\ at' = [at EXCEPT ![monitor] = "detach"]
          /\ DetachShm(monitor, ret[monitor])
      BY <2>1 DEF DetachSegment, Moves
    <3>3. monitor \in Procs /\ monitor \notin SemUsers
      BY MonitorAssumption
    <3>4. /\ ret \in [Procs -> Pointer] /\ NULL \in Pointer
          /\ DOMAIN op = Procs /\ DOMAIN shm_id = Procs
      BY DEF Control, Shapes, Pointer
    <3>5. CASE Return(monitor, NULL) /\ UNCHANGED <<kernel, SegmentNodes>>
      BY <3>2, <3>3, <3>4, <3>5 DEF Return, Goto, kernel
    <3>6. CASE /\ Detach(monitor, ret[monitor]) /\ Operation(monitor, "detach")
               /\ ThenLock(monitor)
               /\ UNCHANGED <<segment, made, semaphore, semval, undo, next, shm_id, lock_id, ret>>
      <4>1. /\ op' = [op EXCEPT ![monitor] = "detach"]
            /\ pc' = [pc EXCEPT ![monitor] = "unlocked"]
            /\ attached' = [attached EXCEPT ![monitor][ret[monitor]] = NULL]
            /\ UNCHANGED <<segment, made, shm_id, ret>>
        BY <3>3, <3>6 DEF Detach, Operation, ThenLock, Goto
      <4> QED BY <3>1, <3>2, <3>3, <3>4, <4>1
    <3> QED BY <3>2, <3>5, <3>6 DEF DetachShm
  <2>2. CASE DestroySegment
    BY <2>2, MonitorAssumption
       DEF Control, Shapes, DestroySegment, Moves, DestroyShm, Operation, Return, Goto, kernel, Pointer
  <2> QED BY <2>1, <2>2
<1> QED BY <1>1, MonitorAssumption
        DEF Control, Shapes, Places, PlaceInLibrary, Visible, Connected, Segment, AtInstaller,
            AtMonitor

LEMMA ControlRestart ==
  ASSUME Control, NEW p \in Procs, Restart(p)
  PROVE  Control'
<1>1. /\ at' = [at EXCEPT ![p] = "start"] /\ pc' = [pc EXCEPT ![p] = "idle"]
      /\ attached' = [attached EXCEPT ![p] = [a \in Addrs |-> NULL]]
      /\ ret' = [ret EXCEPT ![p] = NULL] /\ op' = [op EXCEPT ![p] = "none"]
      /\ shm_id' = [shm_id EXCEPT ![p] = NULL]
      /\ UNCHANGED <<made, segment>>
  BY DEF Restart, Exit, Goto
<1> QED BY <1>1, MonitorAssumption
        DEF Control, Shapes, Places, PlaceInLibrary, Visible, Connected, Segment, AtInstaller,
            AtMonitor, Pointer

LEMMA ControlNext == Control /\ [MonitorNext]_monitorVars => Control'
<1> SUFFICES ASSUME Control, [MonitorNext]_monitorVars PROVE Control'
  OBVIOUS
<1>1. ASSUME UNCHANGED vars, UNCHANGED at PROVE Control'
  BY <1>1 DEF vars, kernel, locals, Control, Shapes, Places, Visible, Connected, Segment
<1>2. ASSUME NEW p \in Procs, CopyRead(p) PROVE Control'
  <2>1. Moves(p, "connect", "copy") /\ UNCHANGED vars /\ pc[p] = "idle" /\ Connected(p)
    BY <1>2 DEF CopyRead
  <2> QED BY <2>1, ControlOutside, MonitorAssumption
<1>3. ASSUME NEW p \in Procs, CopyWrite(p) PROVE Control'
  <2>1. /\ Moves(p, "copy", IF p = monitor THEN "loop" ELSE "work") /\ UNCHANGED vars
        /\ pc[p] = "idle" /\ Connected(p)
    BY <1>3 DEF CopyWrite, Moves, Control, Places, PlaceInLibrary
  <2>2. CASE p = monitor
    BY <2>1, <2>2, ControlOutside
  <2>3. CASE p # monitor
    BY <2>1, <2>3, ControlOutside, MonitorAssumption
  <2> QED BY <2>2, <2>3
<1>4. ASSUME NEW p \in Procs, NotConnected(p) PROVE Control'
  <2>1. Moves(p, "connect", "ended") /\ UNCHANGED vars /\ pc[p] = "idle"
    BY <1>4 DEF NotConnected
  <2> QED BY <2>1, ControlOutside, MonitorAssumption
<1>5. ASSUME LoopHead \/ Stats \/ Listed \/ Sleep PROVE Control'
  <2>1. UNCHANGED vars /\ \E from \in {"loop", "count", "list", "sleep"},
                             to \in {"loop", "count", "list", "sleep"} : Moves(monitor, from, to)
    BY <1>5 DEF LoopHead, Stats, Listed, Sleep
  <2>2. PICK from \in {"loop", "count", "list", "sleep"}, to \in {"loop", "count", "list", "sleep"} :
          Moves(monitor, from, to)
    BY <2>1
  <2>3. pc[monitor] = "idle" /\ Connected(monitor) /\ monitor \in Procs
    BY <2>2, MonitorAssumption DEF Moves, Control, Places, PlaceInLibrary
  <2> QED BY <2>1, <2>2, <2>3, ControlOutside
<1>6. ASSUME Detached \/ Destroyed PROVE Control'
  <2>1. CASE Detached
    BY <2>1, ControlOutside, MonitorAssumption DEF Detached
  <2>2. CASE Destroyed
    BY <2>2, ControlOutside, MonitorAssumption DEF Destroyed
  <2> QED BY <1>6, <2>1, <2>2
<1>7. ASSUME \/ Count \/ ListPoints \/ Clear \/ SignalExit
             \/ \E i \in Points, b \in BOOLEAN : Install(i, b)
      PROVE  Control'
  BY <1>1, <1>7 DEF Count, ListPoints, Clear, SignalExit, Install
<1>8. CASE MonitorNext
  BY <1>2, <1>3, <1>4, <1>5, <1>6, <1>7, <1>8, ControlConnect, ControlLibrary, ControlDetach,
     ControlRestart, MonitorAssumption
     DEF MonitorNext, MonitorStep, InstallerStep
<1>9. CASE UNCHANGED monitorVars
  BY <1>1, <1>9 DEF monitorVars, programs
<1> QED BY <1>8, <1>9

LEMMA ControlInvariant == MonitorSpec => []Control
BY ControlInit, ControlNext, PTL DEF MonitorSpec

\* install_data writes to the segment that a program that connects gets, for any
\* number of points, segments, monitors and restarts.
THEOREM InstallsAreVisible == MonitorSpec => []WorkIsVisible
<1>1. Control => WorkIsVisible
  BY DEF Control, Visible, WorkIsVisible
<1> QED BY <1>1, ControlInvariant, PTL

----------------------------------------------------------------------------
(* show_points                                                              *)

Before(A, i) == A \cap (0 .. i - 1)
From(A, i) == A \cap (i .. MAX_NUM_POINTS - 1)

Sandwich ==
  /\ always \subseteq Valid(Segment(monitor)) /\ Valid(Segment(monitor)) \subseteq ever
  /\ ever \subseteq Points
  /\ idx \in 0 .. MAX_NUM_POINTS /\ valid_points \in Int

\* Counted so far: at least the points that have been valid all along, at most
\* those that were valid at some time.
Counted ==
  /\ Cardinality(Before(always, idx)) <= valid_points
  /\ valid_points <= Cardinality(Before(ever, idx))

\* Still to be listed, if no point changed
ToList == always = ever => valid_points = Cardinality(From(always, idx))

Counting ==
  /\ Showing => Sandwich
  /\ at[monitor] = "count" => Counted
  /\ at[monitor] = "list" => ToList

LEMMA Parts ==
  ASSUME NEW A, NEW i \in Int
  PROVE  /\ IsFiniteSet(Before(A, i)) /\ Cardinality(Before(A, i)) \in Nat
         /\ IsFiniteSet(From(A, i)) /\ Cardinality(From(A, i)) \in Nat
<1>1. i - 1 \in Int /\ MAX_NUM_POINTS - 1 \in Int /\ 0 \in Int
  BY MonitorAssumption
<1>2. IsFiniteSet(0 .. i - 1) /\ IsFiniteSet(i .. MAX_NUM_POINTS - 1)
  BY <1>1, FS_Interval
<1>3. IsFiniteSet(Before(A, i)) /\ IsFiniteSet(From(A, i))
  <2>1. Before(A, i) \in SUBSET (0 .. i - 1) /\ From(A, i) \in SUBSET (i .. MAX_NUM_POINTS - 1)
    BY DEF Before, From
  <2> QED BY <1>2, <2>1, FS_Subset
<1> QED BY <1>3, FS_CardinalityType

LEMMA BeforeGrows ==
  ASSUME NEW A, NEW i \in Nat
  PROVE  Cardinality(Before(A, i + 1)) = Cardinality(Before(A, i)) + IF i \in A THEN 1 ELSE 0
<1>1. i \notin Before(A, i)
  BY DEF Before
<1>2. CASE i \in A
  <2>1. Before(A, i + 1) = Before(A, i) \cup {i}
    BY <1>2 DEF Before
  <2> QED BY <1>1, <1>2, <2>1, Parts, FS_AddElement
<1>3. CASE i \notin A
  <2>1. Before(A, i + 1) = Before(A, i)
    BY <1>3 DEF Before
  <2> QED BY <1>3, <2>1, Parts
<1> QED BY <1>2, <1>3

LEMMA FromShrinks ==
  ASSUME NEW A, NEW i \in 0 .. MAX_NUM_POINTS - 1
  PROVE  Cardinality(From(A, i + 1)) = Cardinality(From(A, i)) - IF i \in A THEN 1 ELSE 0
<1>0. MAX_NUM_POINTS \in Nat /\ i \in Nat /\ i <= MAX_NUM_POINTS - 1 /\ i + 1 \in Int
  BY MonitorAssumption
<1>1. i \notin From(A, i + 1)
  BY <1>0 DEF From
<1>2. CASE i \in A
  <2>1. From(A, i) = From(A, i + 1) \cup {i}
    BY <1>0, <1>2 DEF From
  <2>2. Cardinality(From(A, i)) = Cardinality(From(A, i + 1)) + 1
    BY <1>0, <1>1, <2>1, Parts, FS_AddElement
  <2> QED BY <1>0, <1>2, <2>2, Parts
<1>3. CASE i \notin A
  <2>1. From(A, i + 1) = From(A, i)
    BY <1>0, <1>3 DEF From
  <2> QED BY <1>0, <1>3, <2>1, Parts
<1> QED BY <1>2, <1>3

LEMMA Monotone ==
  ASSUME NEW A, NEW B, A \subseteq B, NEW i \in Int
  PROVE  Cardinality(Before(A, i)) <= Cardinality(Before(B, i))
<1>1. Before(A, i) \in SUBSET Before(B, i)
  BY DEF Before
<1> QED BY <1>1, Parts, FS_Subset

\* Other steps may change points, and are seen by always and ever.
LEMMA CountingOthers ==
  ASSUME Counting, Control, Showing, UNCHANGED <<idx, valid_points>>, at'[monitor] = at[monitor],
         Segment(monitor)' = Segment(monitor),
         \/ UNCHANGED <<always, ever, is_valid>>
         \/ Witness
  PROVE  Counting'
<1>1. CASE UNCHANGED <<always, ever, is_valid>>
  BY <1>1 DEF Counting, Showing, Sandwich, Counted, ToList, Valid, Before, From
<1>2. CASE Witness
  <2>1. /\ always' = always \cap Valid(Segment(monitor))'
        /\ ever' = ever \cup Valid(Segment(monitor))'
    BY <1>2 DEF Witness, Valid
  <2>2. Sandwich /\ idx \in Int /\ valid_points \in Int
    BY DEF Counting, Sandwich
  <2>3. Sandwich'
    BY <2>1, <2>2 DEF Sandwich, Valid
  <2>4. at[monitor] = "count" => Counted'
    <3> SUFFICES ASSUME at[monitor] = "count" PROVE Counted'
      OBVIOUS
    <3>1. always' \subseteq always /\ ever \subseteq ever'
      BY <2>1
    <3>2. /\ Cardinality(Before(always', idx)) <= Cardinality(Before(always, idx))
          /\ Cardinality(Before(ever, idx)) <= Cardinality(Before(ever', idx))
      BY <2>2, <3>1, Monotone
    <3>3. /\ Cardinality(Before(always, idx)) \in Nat /\ Cardinality(Before(ever, idx)) \in Nat
          /\ Cardinality(Before(always', idx)) \in Nat /\ Cardinality(Before(ever', idx)) \in Nat
      BY <2>2, Parts
    <3>4. Counted
      BY DEF Counting
    <3> QED BY <2>2, <3>2, <3>3, <3>4 DEF Counted, Before
  <2>5. at[monitor] = "list" => ToList'
    <3> SUFFICES ASSUME at[monitor] = "list", always' = ever'
                 PROVE  valid_points' = Cardinality(From(always', idx'))
      BY DEF ToList, From
    <3>1. always' = always /\ always = ever
      BY <2>1, <2>2 DEF Sandwich
    <3> QED BY <3>1 DEF Counting, ToList
  <2> QED BY <2>3, <2>4, <2>5 DEF Counting, Showing
<1> QED BY <1>1, <1>2

LEMMA CountingCount ==
  ASSUME Counting, Count
  PROVE  Counting'
<1>1. /\ at[monitor] = "count" /\ idx < MAX_NUM_POINTS /\ idx' = idx + 1
      /\ valid_points' = IF Reads THEN valid_points + 1 ELSE valid_points
      /\ UNCHANGED <<at, always, ever>>
      /\ Valid(Segment(monitor))' = Valid(Segment(monitor))
  BY DEF Count, MorePoints, points, vars, kernel, Segment, Valid
<1>2. Sandwich /\ Counted /\ idx \in Nat /\ idx \in Points /\ MAX_NUM_POINTS \in Nat
  BY <1>1, MonitorAssumption DEF Counting, Showing, Sandwich, Points
<1>3. Reads => idx \in ever
  BY <1>2 DEF Reads, Valid, Sandwich
<1>4. ~Reads => idx \notin always
  BY <1>2 DEF Reads, Valid, Sandwich
<1>5. Sandwich'
  BY <1>1, <1>2 DEF Sandwich
<1>6. /\ Cardinality(Before(always, idx + 1)) = Cardinality(Before(always, idx)) + IF idx \in always THEN 1 ELSE 0
      /\ Cardinality(Before(ever, idx + 1)) = Cardinality(Before(ever, idx)) + IF idx \in ever THEN 1 ELSE 0
      /\ Cardinality(Before(always, idx)) \in Nat /\ Cardinality(Before(ever, idx)) \in Nat
  BY <1>2, BeforeGrows, Parts
<1>7. /\ Cardinality(Before(always, idx + 1)) <= valid_points'
      /\ valid_points' <= Cardinality(Before(ever, idx + 1))
  BY <1>1, <1>2, <1>3, <1>4, <1>6 DEF Counted, Sandwich
<1>8. Counted'
  BY <1>1, <1>7 DEF Counted, Before
<1> QED BY <1>1, <1>5, <1>8 DEF Counting, Showing

LEMMA CountingList ==
  ASSUME Counting, ListPoints
  PROVE  Counting'
<1>1. /\ at[monitor] = "list" /\ idx < MAX_NUM_POINTS /\ idx' = idx + 1
      /\ valid_points' = IF Reads THEN valid_points - 1 ELSE valid_points
      /\ UNCHANGED <<at, always, ever>>
      /\ Valid(Segment(monitor))' = Valid(Segment(monitor))
  BY DEF ListPoints, MorePoints, points, vars, kernel, Segment, Valid
<1>2. /\ Sandwich /\ ToList /\ idx \in 0 .. MAX_NUM_POINTS - 1 /\ idx \in Points
      /\ MAX_NUM_POINTS \in Nat /\ idx \in Int
  BY <1>1, MonitorAssumption DEF Counting, Showing, Sandwich, Points
<1>3. always = ever => (Reads <=> idx \in always)
  BY <1>2 DEF Reads, Valid, Sandwich
<1>4. Sandwich'
  BY <1>1, <1>2 DEF Sandwich
<1>5. /\ Cardinality(From(always, idx + 1)) = Cardinality(From(always, idx)) - IF idx \in always THEN 1 ELSE 0
      /\ Cardinality(From(always, idx)) \in Nat
  BY <1>2, FromShrinks, Parts
<1>6. always = ever => valid_points' = Cardinality(From(always, idx + 1))
  BY <1>1, <1>2, <1>3, <1>5 DEF ToList, Sandwich
<1>7. ToList'
  BY <1>1, <1>6 DEF ToList, From
<1> QED BY <1>1, <1>4, <1>7 DEF Counting, Showing

LEMMA CountingBegins ==
  ASSUME Control, LoopHead
  PROVE  Counting'
<1>1. /\ idx' = 0 /\ valid_points' = 0
      /\ always' = Valid(Segment(monitor)) /\ ever' = Valid(Segment(monitor))
      /\ Valid(Segment(monitor))' = Valid(Segment(monitor))
      /\ at'[monitor] = "count"
  BY MonitorAssumption
     DEF LoopHead, Moves, points, vars, kernel, Segment, Valid, Control, Shapes
<1>2. Sandwich'
  BY <1>1, MonitorAssumption DEF Sandwich, Valid
<1>3. \A A : Before(A, 0) = {}
  BY DEF Before
<1>4. Counted'
  <2>1. Before(always', 0) = {} /\ Before(ever', 0) = {} /\ Cardinality({}) = 0
    BY <1>3, FS_EmptySet
  <2> QED BY <1>1, <2>1 DEF Counted, Before
<1> QED BY <1>1, <1>2, <1>4 DEF Counting, Showing

LEMMA CountingStats ==
  ASSUME Counting, Control, Stats
  PROVE  Counting'
<1>1. /\ at[monitor] = "count" /\ idx >= MAX_NUM_POINTS /\ idx' = 0
      /\ UNCHANGED <<valid_points, always, ever>>
      /\ Valid(Segment(monitor))' = Valid(Segment(monitor))
      /\ at'[monitor] \in {"list", "sleep"}
  <2>1. at'[monitor] \in {"list", "sleep"} /\ at[monitor] = "count"
    BY MonitorAssumption DEF Stats, Moves, Control, Shapes
  <2>2. Sandwich
    BY <2>1 DEF Counting, Showing
  <2>3. idx >= MAX_NUM_POINTS
    BY <2>2, MonitorAssumption DEF Sandwich, Stats, MorePoints
  <2> QED BY <2>1, <2>3 DEF Stats, points, vars, kernel, Segment, Valid
<1>2. Sandwich /\ Counted /\ idx = MAX_NUM_POINTS /\ MAX_NUM_POINTS \in Nat
  BY <1>1, MonitorAssumption DEF Counting, Showing, Sandwich
<1>3. Sandwich'
  BY <1>1, <1>2 DEF Sandwich
<1>4. ToList'
  <2>1. Before(always, MAX_NUM_POINTS) = From(always, 0)
    BY DEF Before, From
  <2>2. Cardinality(Before(always, MAX_NUM_POINTS)) \in Nat
    BY <1>2, Parts
  <2>3. always = ever => valid_points = Cardinality(From(always, 0))
    BY <1>2, <2>1, <2>2 DEF Counted, Sandwich
  <2> QED BY <1>1, <2>3 DEF ToList, From
<1> QED BY <1>1, <1>3, <1>4 DEF Counting, Showing

\* The library changes a process's own attachments only.
LEMMA LibraryFrame ==
  ASSUME Control, NEW p \in Procs, InLibrary(p), NEW q \in Procs, q # p
  PROVE  pc[p] # "idle" /\ attached'[q] = attached[q] /\ ret'[q] = ret[q]
<1>1. Shapes /\ p \notin SemUsers
  BY MonitorAssumption DEF Control
<1>2. CASE Shmat(p) \/ ShmatFails(p)
  BY <1>1, <1>2 DEF Shmat, ShmatFails, Return, Goto, Shapes, kernel
<1>3. CASE Semget(p) \/ SemgetFails(p) \/ Semup(p)
  BY <1>1, <1>3 DEF Semget, SemgetFails, Semup, Return, Goto, Shapes, kernel, rest
<1>4. CASE Loop(p) \/ LoopEnds(p) \/ Stat(p) \/ Semctl(p)
  BY <1>1, <1>4 DEF Loop, LoopEnds, Stat, Semctl, Detach, Shapes, kernel, locals
<1>5. CASE Unlocked(p) \/ Shmctl(p) \/ Lock(p) \/ LockIsGone(p)
  BY <1>1, <1>5 DEF Unlocked, Shmctl, Lock, LockIsGone, Return, Goto, Shapes, kernel, locals
<1> QED BY <1>2, <1>3, <1>4, <1>5 DEF InLibrary, Inside

LEMMA CountingNext == Counting /\ Control /\ [MonitorNext]_monitorVars => Counting'
<1> SUFFICES ASSUME Counting, Control, [MonitorNext]_monitorVars PROVE Counting'
  OBVIOUS
<1>0. /\ DOMAIN at = Procs /\ monitor \in Procs /\ installer \in Procs
      /\ \A p \in Procs : p # monitor <=> p = installer
  BY MonitorAssumption DEF Control, Shapes
<1>1. ~Showing' => Counting'
  BY DEF Counting, Showing
\* The monitor is where it was, and so is its segment.
<1>2. ASSUME at'[monitor] = at[monitor], Segment(monitor)' = Segment(monitor),
             UNCHANGED <<idx, valid_points>>,
             UNCHANGED <<always, ever, is_valid>> \/ Witness
      PROVE  Counting'
  BY <1>1, <1>2, CountingOthers DEF Showing
<1>3. ASSUME NEW p \in Procs, InLibrary(p) PROVE Counting'
  <2>1. CASE p = monitor
    <3>1. ~Showing'
      BY <1>0, <1>3, <2>1, LibraryFrame
         DEF Control, Places, PlaceInLibrary, Showing, InLibrary, programs
    <3> QED BY <1>1, <3>1
  <2>2. CASE p = installer
    <3>1. Segment(monitor)' = Segment(monitor)
      BY <1>0, <1>3, <2>2, LibraryFrame DEF Segment
    <3> QED BY <1>2, <1>3, <3>1 DEF InLibrary, programs, show, points
  <2> QED BY <1>0, <2>1, <2>2
<1>4. ASSUME NEW p \in Procs, ConnectShm(p) \/ CopyRead(p) \/ CopyWrite(p) \/ NotConnected(p)
      PROVE  Counting'
  <2>1. CASE p = monitor
    <3>1. ~Showing'
      BY <1>0, <1>4, <2>1 DEF Showing, ConnectShm, CopyRead, CopyWrite, NotConnected, Moves
    <3> QED BY <1>1, <3>1
  <2>2. CASE p = installer
    <3>1. CASE ConnectShm(p)
      <4>1. at'[monitor] = at[monitor] /\ UNCHANGED <<idx, valid_points>>
        BY <1>0, <2>2, <3>1 DEF ConnectShm, Moves, show
      <4>2. attached' = attached /\ ret'[monitor] = ret[monitor]
        BY <1>0, <2>2, <3>1, ShmgetFailsFacts DEF ConnectShm, Shmget, Control, Shapes
      <4>3. UNCHANGED <<always, ever, is_valid>>
        BY <3>1 DEF ConnectShm, show, points
      <4> QED BY <1>2, <4>1, <4>2, <4>3 DEF Segment
    <3>2. CASE CopyRead(p) \/ CopyWrite(p) \/ NotConnected(p)
      <4>1. at'[monitor] = at[monitor] /\ UNCHANGED <<attached, ret, idx, valid_points>>
        BY <1>0, <2>2, <3>2 DEF CopyRead, CopyWrite, NotConnected, Moves, vars, kernel, show
      <4>2. UNCHANGED <<always, ever, is_valid>> \/ Witness
        BY <3>2 DEF CopyRead, CopyWrite, NotConnected, Write, show, points
      <4> QED BY <1>2, <4>1, <4>2 DEF Segment
    <3> QED BY <1>4, <3>1, <3>2
  <2> QED BY <1>0, <2>1, <2>2
<1>5. ASSUME Listed \/ Sleep \/ DetachSegment \/ Detached PROVE Counting'
  <2>1. ~Showing'
    BY <1>0, <1>5 DEF Showing, Listed, Sleep, DetachSegment, Detached, Moves
  <2> QED BY <1>1, <2>1
<1>6. ASSUME Clear \/ SignalExit \/ \E i \in Points, b \in BOOLEAN : Install(i, b)
      PROVE  Counting'
  <2>1. UNCHANGED <<at, attached, ret, idx, valid_points>>
    BY <1>6 DEF Clear, SignalExit, Install, vars, kernel, show
  <2>2. UNCHANGED <<always, ever, is_valid>> \/ Witness
    BY <1>6 DEF Clear, SignalExit, Install, Installs, Write, show, points
  <2> QED BY <1>2, <2>1, <2>2 DEF Segment
<1>7. ASSUME DestroySegment \/ Destroyed PROVE Counting'
  <2>1. at'[monitor] = at[monitor] /\ UNCHANGED <<idx, valid_points, always, ever, is_valid>>
    BY <1>0, <1>7 DEF DestroySegment, Destroyed, Moves, show, points
  <2>2. Segment(monitor)' = Segment(monitor)
    BY <1>0, <1>7, MonitorAssumption
       DEF DestroySegment, DestroyShm, Destroyed, Return, Segment, vars, kernel, Control, Shapes
  <2> QED BY <1>2, <2>1, <2>2
<1>8. ASSUME NEW p \in Procs, Restart(p) PROVE Counting'
  <2>1. CASE p = monitor
    <3>1. ~Showing'
      BY <1>0, <1>8, <2>1 DEF Showing, Restart
    <3> QED BY <1>1, <3>1
  <2>2. CASE p = installer
    <3>1. at'[monitor] = at[monitor] /\ UNCHANGED <<idx, valid_points, always, ever, is_valid>>
      BY <1>0, <1>8, <2>2 DEF Restart, show, points
    <3>2. Segment(monitor)' = Segment(monitor)
      BY <1>0, <1>8, <2>2, MonitorAssumption DEF Restart, Exit, Segment, Control, Shapes
    <3> QED BY <1>2, <3>1, <3>2
  <2> QED BY <1>0, <2>1, <2>2
<1>9. CASE MonitorNext
  BY <1>3, <1>4, <1>5, <1>6, <1>7, <1>8, <1>9, CountingBegins, CountingCount, CountingList,
     CountingStats, MonitorAssumption
     DEF MonitorNext, MonitorStep, InstallerStep
<1>10. CASE UNCHANGED monitorVars
  BY <1>2, <1>10 DEF monitorVars, programs, vars, kernel, show, points, Segment
<1> QED BY <1>9, <1>10

\* However many points there are and whatever install_data does meanwhile, what
\* show_points counts lies between the points valid all along and those valid at
\* some time, and it lists as many as it counted when no point changed.
THEOREM CountsArePlausible == MonitorSpec => []CountIsPlausible
<1>1. MonitorInit => Counting
  BY MonitorAssumption DEF MonitorInit, Counting, Showing
<1>2. Counting => CountIsPlausible
  <2> SUFFICES ASSUME Counting, Showing, ~MorePoints
               PROVE  /\ at[monitor] = "count"
                            => valid_points \in Cardinality(always) .. Cardinality(ever)
                      /\ at[monitor] = "list" /\ always = ever => valid_points = 0
    BY DEF CountIsPlausible, Showing
  <2>1. Sandwich /\ idx = MAX_NUM_POINTS /\ MAX_NUM_POINTS \in Nat
    BY MonitorAssumption DEF Counting, Sandwich, MorePoints
  <2>2. always \subseteq Points /\ ever \subseteq Points
    BY <2>1 DEF Sandwich
  <2>3. Before(always, idx) = always /\ Before(ever, idx) = ever /\ From(always, idx) = {}
    <3>1. From(always, idx) = {}
      BY <2>1 DEF From
    <3>2. 0 .. idx - 1 = Points
      BY <2>1 DEF Points
    <3> QED BY <2>2, <3>1, <3>2 DEF Before
  <2>4. Cardinality(always) \in Nat /\ Cardinality(ever) \in Nat /\ Cardinality({}) = 0
    BY <2>1, <2>3, Parts, FS_EmptySet
  <2>5. at[monitor] = "count" => Cardinality(always) <= valid_points /\ valid_points <= Cardinality(ever)
    BY <2>3 DEF Counting, Counted
  <2>6. at[monitor] = "list" /\ always = ever => valid_points = 0
    BY <2>3, <2>4 DEF Counting, ToList
  <2> QED BY <2>1, <2>4, <2>5, <2>6 DEF Sandwich
<1>3. Control /\ Counting /\ [MonitorNext]_monitorVars => Counting'
  BY CountingNext
<1> QED BY <1>1, <1>2, <1>3, ControlInvariant, PTL DEF MonitorSpec
----------------------------------------------------------------------------
(* The types, and the range of the counters in the monitor's loops          *)

CountersInRange ==
  /\ at[monitor] = "count" => valid_points \in 0 .. idx
  /\ at[monitor] = "list" => valid_points \in 1 - idx .. MAX_NUM_POINTS
  /\ at[monitor] \in {"count", "list", "sleep"} => seconds # 0

\* A program that is connected has a segment.
LEMMA SegmentOf ==
  ASSUME Control, NEW p \in Procs,
         at[p] \in {"copy", "work", "loop", "count", "list", "sleep"} \/ Connected(p)
  PROVE  Segment(p) \in Ids
BY SharedMemAssumption DEF Control, Places, Shapes, Connected, Segment, Pointer, Addrs

\* A write of a point, and what show_points could have seen of it
LEMMA WriteTypes ==
  ASSUME MonitorTypeOK, Control, NEW id \in Ids, NEW i \in Points, NEW b \in BOOLEAN, Write(id, i, b)
  PROVE  /\ is_valid' \in [Ids -> [Points -> BOOLEAN]]
         /\ always' \subseteq Points /\ ever' \subseteq Points
BY DEF MonitorTypeOK, Write, Witness

\* The types hold at first,
LEMMA MonitorTypesInit == MonitorInit => MonitorTypeOK /\ CountersInRange
<1> SUFFICES ASSUME MonitorInit PROVE MonitorTypeOK /\ CountersInRange
  OBVIOUS
<1>1. 0 \in Points /\ 0 \in 0 .. MAX_NUM_POINTS /\ 0 \in 1 - MAX_NUM_POINTS .. MAX_NUM_POINTS
      /\ Seconds \in 0 .. Seconds
  BY MonitorAssumption DEF Points
<1> QED BY <1>1, MonitorAssumption DEF MonitorInit, MonitorTypeOK, CountersInRange

\* ... in steps that leave the points and the counters alone,
LEMMA MonitorTypesQuiet ==
  ASSUME MonitorTypeOK, CountersInRange, at' \in [Procs -> AtInstaller \cup AtMonitor],
         at'[monitor] \in {"count", "list", "sleep"} => at'[monitor] = at[monitor],
         UNCHANGED <<clearing, seconds, Running, show, points, abandoned>>,
         byte' \in [Procs -> BOOLEAN]
  PROVE  (MonitorTypeOK /\ CountersInRange)'
BY DEF MonitorTypeOK, CountersInRange, AtInstaller, AtMonitor, show, points

\* ... in the steps of show_points,
LEMMA MonitorTypesShow ==
  ASSUME MonitorTypeOK, CountersInRange, LoopHead \/ Count \/ Stats \/ ListPoints \/ Listed \/ Sleep
  PROVE  (MonitorTypeOK /\ CountersInRange)'
<1> USE DEF MonitorTypeOK, CountersInRange, points, Moves, Points
<1>0. MAX_NUM_POINTS \in Nat \ {0} /\ Seconds \in Nat /\ monitor \in Procs
  BY MonitorAssumption
<1>1. CASE LoopHead
  BY <1>0, <1>1 DEF LoopHead, MoreSeconds, Valid
<1>2. CASE Count
  BY <1>0, <1>2 DEF Count, MorePoints
<1>3. CASE Stats
  BY <1>0, <1>3 DEF Stats, MorePoints
<1>4. CASE ListPoints
  BY <1>0, <1>4 DEF ListPoints, MorePoints
<1>5. CASE Listed
  BY <1>0, <1>5 DEF Listed, show
<1>6. CASE Sleep
  BY <1>0, <1>6 DEF Sleep
<1> QED BY <1>1, <1>2, <1>3, <1>4, <1>5, <1>6
\* ... in the writes of points,
LEMMA MonitorTypesWrite ==
  ASSUME MonitorTypeOK, CountersInRange, Control,
         \/ \E p \in Procs : CopyWrite(p)
         \/ Clear
         \/ \E i \in Points, b \in BOOLEAN : Install(i, b)
  PROVE  (MonitorTypeOK /\ CountersInRange)'
<1>0. /\ 0 \in Points /\ FALSE \in BOOLEAN /\ installer \in Procs /\ monitor \in Procs
      /\ MAX_NUM_POINTS \in Nat \ {0} /\ installer # monitor
  BY MonitorAssumption DEF Points
<1>1. ASSUME NEW p \in Procs, CopyWrite(p) PROVE (MonitorTypeOK /\ CountersInRange)'
  <2>1. at[p] = "copy" /\ Segment(p) \in Ids /\ byte[p] \in BOOLEAN
    BY <1>1, SegmentOf DEF CopyWrite, Moves, MonitorTypeOK
  <2>2. /\ is_valid' \in [Ids -> [Points -> BOOLEAN]]
        /\ always' \subseteq Points /\ ever' \subseteq Points
    BY <1>0, <1>1, <2>1, WriteTypes DEF CopyWrite
  <2>3. /\ at' = [at EXCEPT ![p] = IF p = monitor THEN "loop" ELSE "work"]
        /\ byte' = [byte EXCEPT ![p] = FALSE]
        /\ UNCHANGED <<clearing, seconds, Running, idx, valid_points, wanted, abandoned>>
    BY <1>1 DEF CopyWrite, Moves
  <2> QED BY <1>0, <2>1, <2>2, <2>3 DEF MonitorTypeOK, CountersInRange
<1>2. ASSUME NEW i \in Points, NEW b \in BOOLEAN, Installs(i, b), clearing' \in Points,
             UNCHANGED <<at, byte, seconds, Running, idx, valid_points, abandoned>>
      PROVE  (MonitorTypeOK /\ CountersInRange)'
  <2>1. at[installer] = "work" /\ Segment(installer) \in Ids
    BY <1>0, <1>2, SegmentOf DEF Installs
  <2>2. /\ is_valid' \in [Ids -> [Points -> BOOLEAN]]
        /\ always' \subseteq Points /\ ever' \subseteq Points
    BY <1>2, <2>1, WriteTypes DEF Installs
  <2>3. wanted' \in [Ids -> [Points -> BOOLEAN]]
    BY <1>2, <2>1 DEF Installs, MonitorTypeOK
  <2> QED BY <1>2, <2>2, <2>3 DEF MonitorTypeOK, CountersInRange
<1>3. CASE Clear
  <2>1. clearing \in Points /\ (clearing + 1) % MAX_NUM_POINTS \in Points
    BY <1>0 DEF MonitorTypeOK, Points
  <2> QED BY <1>0, <1>2, <1>3, <2>1 DEF Clear
<1>4. ASSUME NEW i \in Points, NEW b \in BOOLEAN, Install(i, b)
      PROVE  (MonitorTypeOK /\ CountersInRange)'
  BY <1>2, <1>4 DEF Install, MonitorTypeOK
<1> QED BY <1>1, <1>3, <1>4

\* ... and when a program ends.
LEMMA MonitorTypesRestart ==
  ASSUME MonitorTypeOK, CountersInRange, Control, NEW p \in Procs, Restart(p)
  PROVE  (MonitorTypeOK /\ CountersInRange)'
<1>1. /\ 0 \in Points /\ 0 \in 0 .. MAX_NUM_POINTS /\ 0 \in 1 - MAX_NUM_POINTS .. MAX_NUM_POINTS
      /\ Seconds \in 0 .. Seconds /\ installer # monitor /\ monitor \in Procs
      /\ segment \in Ids \cup {NULL}
  BY MonitorAssumption DEF Points, Control, Shapes
<1>2. at' = [at EXCEPT ![p] = "start"] /\ byte' = [byte EXCEPT ![p] = FALSE]
  BY DEF Restart
<1>3. CASE p = installer
  BY <1>1, <1>2, <1>3 DEF Restart, MonitorTypeOK, CountersInRange, show, points
<1>4. CASE p # installer
  BY <1>1, <1>2, <1>4, MonitorAssumption DEF Restart, MonitorTypeOK, CountersInRange, points
<1> QED BY <1>3, <1>4

\* Every step keeps the types.
LEMMA MonitorTypesNext ==
  MonitorTypeOK /\ CountersInRange /\ Control /\ [MonitorNext]_monitorVars
    => (MonitorTypeOK /\ CountersInRange)'
<1> SUFFICES ASSUME MonitorTypeOK, CountersInRange, Control, [MonitorNext]_monitorVars
             PROVE  (MonitorTypeOK /\ CountersInRange)'
  OBVIOUS
<1>0. /\ at \in [Procs -> AtInstaller \cup AtMonitor] /\ byte \in [Procs -> BOOLEAN]
      /\ monitor \in Procs /\ installer \in Procs /\ 0 \in Points
  BY MonitorAssumption DEF MonitorTypeOK, AtInstaller, AtMonitor, Points
<1>1. ASSUME UNCHANGED programs PROVE (MonitorTypeOK /\ CountersInRange)'
  BY <1>0, <1>1, MonitorTypesQuiet DEF programs
<1>2. ASSUME NEW p \in Procs, ConnectShm(p) \/ CopyRead(p) \/ NotConnected(p)
      PROVE  (MonitorTypeOK /\ CountersInRange)'
  <2>1. \E to \in {"connect", "copy", "ended"} : at' = [at EXCEPT ![p] = to]
    BY <1>2 DEF ConnectShm, CopyRead, NotConnected, Moves
  <2>2. byte' \in [Procs -> BOOLEAN]
    <3>1. CASE CopyRead(p)
      <4>1. Segment(p) \in Ids /\ 0 \in Points
        BY <1>0, <3>1, SegmentOf DEF CopyRead
      <4> QED BY <1>0, <3>1, <4>1 DEF CopyRead, MonitorTypeOK
    <3>2. CASE ~CopyRead(p)
      BY <1>0, <1>2, <3>2 DEF ConnectShm, NotConnected
    <3> QED BY <3>1, <3>2
  <2>3. UNCHANGED <<clearing, seconds, Running, show, points, abandoned>>
    BY <1>2 DEF ConnectShm, CopyRead, NotConnected
  <2>4. at' \in [Procs -> AtInstaller \cup AtMonitor]
    BY <1>0, <2>1 DEF AtInstaller, AtMonitor
  <2>5. at'[monitor] \in {"count", "list", "sleep"} => at'[monitor] = at[monitor]
    BY <1>0, <2>1
  <2> QED BY <2>2, <2>3, <2>4, <2>5, MonitorTypesQuiet
<1>3. ASSUME Detached \/ Destroyed \/ DetachSegment PROVE (MonitorTypeOK /\ CountersInRange)'
  <2>1. \E p \in Procs, to \in {"ended", "detach"} : at' = [at EXCEPT ![p] = to]
    BY <1>0, <1>3 DEF Detached, Destroyed, DetachSegment, Moves
  <2>2. at' \in [Procs -> AtInstaller \cup AtMonitor]
    BY <1>0, <2>1 DEF AtInstaller, AtMonitor
  <2>3. at'[monitor] \in {"count", "list", "sleep"} => at'[monitor] = at[monitor]
    BY <1>0, <2>1
  <2> QED BY <1>0, <1>3, <2>2, <2>3, MonitorTypesQuiet DEF Detached, Destroyed, DetachSegment
<1>4. ASSUME DestroySegment \/ SignalExit PROVE (MonitorTypeOK /\ CountersInRange)'
  BY <1>0, <1>4, MonitorAssumption
     DEF DestroySegment, SignalExit, Moves, MonitorTypeOK, CountersInRange, show, points
<1>5. CASE MonitorNext
  BY <1>1, <1>2, <1>3, <1>4, <1>5, MonitorTypesShow, MonitorTypesWrite, MonitorTypesRestart, <1>0
     DEF MonitorNext, MonitorStep, InstallerStep, InLibrary
<1>6. CASE UNCHANGED monitorVars
  BY <1>1, <1>6 DEF monitorVars
<1> QED BY <1>5, <1>6

LEMMA MonitorTypesAlways == MonitorSpec => [](Control /\ MonitorTypeOK)
BY MonitorTypesInit, MonitorTypesNext, ControlInvariant, PTL DEF MonitorSpec

\* The types; among them that no index and no count of show_points leaves its
\* range, for any number of points.
THEOREM MonitorTypeCorrect == MonitorSpec => []MonitorTypeOK
BY MonitorTypesAlways, PTL
----------------------------------------------------------------------------
(* Which segments may hold a point                                          *)

\* install_data's node, the segment of which destroy_shm deletes
NodeWith(list) ==
  Node(installer) = [shm_id |-> segment, lock_id |-> SHM_ERROR, attachments |-> list]

\* ... is that of the segment it works on, until that is deleted.
Owned ==
  /\ DOMAIN SegmentNodes = Procs
  /\ at[installer] = "start" \/ (at[installer] = "connect" /\ pc[installer] = "shmat")
       => Node(installer) = NULL
  /\ (at[installer] = "connect" /\ pc[installer] = "idle" /\ Connected(installer))
     \/ at[installer] \in {"copy", "work"}
       => segment # NULL /\ \E list \in List : NodeWith(list)
  /\ at[installer] = "destroy" /\ pc[installer] # "idle"
       => /\ op[installer] \in {"destroy", "last"}
          /\ segment # NULL /\ \E list : NodeWith(list)

\* What is not install_data's own step leaves that alone,
LEMMA OwnedBeside ==
  ASSUME Owned, DOMAIN SegmentNodes' = Procs, at'[installer] = at[installer],
         pc'[installer] = pc[installer], op'[installer] = op[installer],
         ret'[installer] = ret[installer], attached'[installer] = attached[installer],
         Node(installer)' = Node(installer), segment # NULL => segment' = segment
  PROVE  Owned'
<1>1. Connected(installer)' <=> Connected(installer)
  BY DEF Connected
<1>2. ASSUME NEW list, segment # NULL, NodeWith(list) PROVE NodeWith(list)'
  BY <1>2 DEF NodeWith
<1> QED BY <1>1, <1>2 DEF Owned

\* ... as install_data does outside of the library,
LEMMA OwnedOutside ==
  ASSUME Owned, Control, UNCHANGED vars,
         \/ at'[installer] = at[installer]
         \/ at[installer] = "connect" /\ pc[installer] = "idle" /\ Connected(installer)
              /\ at'[installer] = "copy"
         \/ at[installer] = "copy" /\ at'[installer] = "work"
         \/ at'[installer] = "ended"
  PROVE  Owned'
<1>1. UNCHANGED <<segment, attached, SegmentNodes, pc, op, ret>>
  BY DEF vars, kernel, locals
<1>2. SegmentNodes' = SegmentNodes /\ attached' = attached /\ ret' = ret /\ segment' = segment
  BY <1>1
<1>3. \A list : NodeWith(list) => NodeWith(list)'
  BY <1>2 DEF NodeWith, Node
<1>4. Connected(installer)' => Connected(installer)
  BY <1>2 DEF Connected
<1>5. ASSUME \E list \in List : NodeWith(list) PROVE (\E list \in List : NodeWith(list))'
  BY <1>5, <1>3 DEF List, Pointer
<1>6. ASSUME \E list : NodeWith(list) PROVE (\E list : NodeWith(list))'
  BY <1>6, <1>3
<1> QED BY <1>1, <1>2, <1>4, <1>5, <1>6 DEF Owned, Node

\* ... and what monitor_shm does inside the library.
LEMMA OwnedMonitor ==
  ASSUME Owned, Control,
         InLibrary(monitor) \/ ConnectShm(monitor) \/ DetachSegment \/ Restart(monitor)
  PROVE  Owned'
<1>0. /\ installer # monitor /\ monitor \in Procs /\ installer \in Procs /\ SemUsers = {}
      /\ DOMAIN SegmentNodes = Procs /\ DOMAIN at = Procs /\ DOMAIN pc = Procs
      /\ DOMAIN op = Procs /\ DOMAIN ret = Procs /\ DOMAIN attached = Procs
  BY MonitorAssumption DEF Owned, Control, Shapes
<1> DEFINE Beside ==
      /\ DOMAIN SegmentNodes' = Procs
      /\ at'[installer] = at[installer] /\ pc'[installer] = pc[installer]
      /\ op'[installer] = op[installer] /\ ret'[installer] = ret[installer]
      /\ attached'[installer] = attached[installer]
      /\ SegmentNodes'[installer] = SegmentNodes[installer]
      /\ segment # NULL => segment' = segment
<1>1. CASE InLibrary(monitor)
  <2>1. at' = at /\ pc[monitor] \in {"idle", "shmat", "unlocked"}
    BY <1>0, <1>1
       DEF Control, Places, PlaceInLibrary, AtMonitor, InLibrary, programs
  <2>2. CASE Shmat(monitor)
    <3>1. /\ \E s : SegmentNodes' = [SegmentNodes EXCEPT ![monitor] = s]
          /\ \E a : attached' = [attached EXCEPT ![monitor][a] = shm_id[monitor]]
          /\ \E a : Return(monitor, a)
          /\ UNCHANGED segment
      BY <1>0, <2>2 DEF Shmat, Track
    <3>2. Beside
      BY <1>0, <2>1, <3>1 DEF Return, Goto
    <3> QED BY <3>2, OwnedBeside DEF Node
  <2>3. CASE ShmatFails(monitor) \/ Unlocked(monitor)
    <3>1. Beside
      BY <1>0, <2>1, <2>3 DEF ShmatFails, Unlocked, Return, Goto, kernel, locals
    <3> QED BY <3>1, OwnedBeside DEF Node
  <2> QED BY <1>0, <1>1, <2>1, <2>2, <2>3
          DEF InLibrary, Inside, Semget, SemgetFails, Semup, Stat, Semctl, Lock, LockIsGone, Loop,
              LoopEnds, Shmctl
<1>2. CASE ConnectShm(monitor)
  <2>1. Beside
    BY <1>0, <1>2, ShmgetFailsFacts DEF ConnectShm, Moves, Shmget, Goto
  <2> QED BY <2>1, OwnedBeside DEF Node
<1>3. CASE DetachSegment
  <2>1. CASE ret[monitor] \notin Tracked(monitor)
    <3>1. Beside
      BY <1>0, <1>3, <2>1 DEF DetachSegment, Moves, DetachShm, Return, Goto, kernel
    <3> QED BY <3>1, OwnedBeside DEF Node
  <2>2. CASE ret[monitor] \in Tracked(monitor)
    <3>1. Beside
      BY <1>0, <1>3, <2>2
         DEF DetachSegment, Moves, DetachShm, Detach, Operation, ThenLock, Goto
    <3> QED BY <3>1, OwnedBeside DEF Node
  <2> QED BY <2>1, <2>2
<1>4. CASE Restart(monitor)
  <2>1. Beside
    BY <1>0, <1>4 DEF Restart, Exit, Goto
  <2> QED BY <2>1, OwnedBeside DEF Node
<1> QED BY <1>1, <1>2, <1>3, <1>4

\* install_data itself makes the node when it attaches, and keeps it until
\* destroy_shm is done.
LEMMA OwnedInstaller ==
  ASSUME Owned, Control,
         InLibrary(installer) \/ ConnectShm(installer) \/ DestroySegment \/ Restart(installer)
  PROVE  Owned'
<1>0. /\ installer \in Procs /\ SemUsers = {} /\ DOMAIN SegmentNodes = Procs /\ DOMAIN at = Procs
      /\ DOMAIN pc = Procs /\ DOMAIN op = Procs
  BY MonitorAssumption DEF Owned, Control, Shapes
<1>1. CASE InLibrary(installer)
  <2>1. at' = at /\ pc[installer] \in {"idle", "shmat", "loop", "unlocked", "shmctl"}
    BY <1>0, <1>1 DEF Control, Places, PlaceInLibrary, AtInstaller, InLibrary, programs
  <2>2. CASE Shmat(installer)
    <3>1. /\ at[installer] = "connect" /\ Node(installer) = NULL
          /\ shm_id[installer] = segment /\ segment # NULL
      BY <1>0, <2>2, SharedMemAssumption
         DEF Control, Places, PlaceInLibrary, Visible, Owned, Shmat, Ids
    <3>2. PICK a \in Addrs : /\ Track(installer, NewNode(segment, SHM_ERROR), a)
                             /\ Return(installer, a) /\ UNCHANGED segment
      BY <1>0, <2>2, <3>1 DEF Shmat
    <3>3. push_list_item(new_list, a) \in List
      BY <3>2 DEF push_list_item, new_list, List, Pointer, Addrs
    <3>4. SegmentNodes' = [SegmentNodes EXCEPT
                             ![installer] = [shm_id |-> segment, lock_id |-> SHM_ERROR,
                                             attachments |-> push_list_item(new_list, a)]]
      <4>1. [NewNode(segment, SHM_ERROR) EXCEPT !.attachments = push_list_item(@, a)]
              = [shm_id |-> segment, lock_id |-> SHM_ERROR,
                 attachments |-> push_list_item(new_list, a)]
        BY DEF NewNode
      <4> QED BY <3>2, <4>1 DEF Track
    <3>5. NodeWith(push_list_item(new_list, a))'
      BY <1>0, <3>2, <3>4 DEF NodeWith, Node
    <3>6. pc'[installer] = "idle" /\ segment' # NULL /\ DOMAIN SegmentNodes' = Procs
      BY <1>0, <3>1, <3>2, <3>4 DEF Return, Goto
    <3> QED BY <2>1, <3>1, <3>3, <3>5, <3>6 DEF Owned
  <2>3. CASE ShmatFails(installer)
    <3>1. /\ at[installer] = "connect" /\ ret'[installer] = NULL /\ pc'[installer] = "idle"
          /\ DOMAIN SegmentNodes' = Procs
      BY <1>0, <2>3
         DEF Control, Shapes, Places, PlaceInLibrary, ShmatFails, Return, Goto
    <3> QED BY <2>1, <3>1 DEF Owned, Connected
  <2>4. CASE Loop(installer)
    <3>1. /\ at[installer] = "destroy" /\ op[installer] \in {"destroy", "last"} /\ segment # NULL
          /\ \E list : NodeWith(list)
      BY <1>0, <2>4 DEF Control, Places, PlaceInLibrary, Owned, Loop
    <3>2. PICK list : NodeWith(list)
      BY <3>1
    <3>3. \E left : SegmentNodes' = [SegmentNodes EXCEPT ![installer].attachments = left]
      BY <2>4 DEF Loop, Detach
    <3>4. UNCHANGED <<op, segment>>
      BY <2>4 DEF Loop
    <3>5. (\E left : NodeWith(left))' /\ DOMAIN SegmentNodes' = Procs
      BY <1>0, <3>2, <3>3, <3>4 DEF NodeWith, Node
    <3> QED BY <2>1, <3>1, <3>4, <3>5 DEF Owned
  <2>5. CASE LoopEnds(installer) \/ Unlocked(installer)
    <3>1. CASE at[installer] = "destroy"
      <4>1. /\ op[installer] \in {"destroy", "last"} /\ segment # NULL
            /\ \E list : NodeWith(list)
        BY <2>5, <3>1 DEF Owned, LoopEnds, Unlocked
      <4>2. UNCHANGED <<segment, SegmentNodes>> /\ op'[installer] \in {"destroy", "last"}
        BY <1>0, <2>5, <4>1 DEF LoopEnds, Unlocked, Operation, kernel, locals
      <4>3. (\E list : NodeWith(list))'
        BY <4>1, <4>2 DEF NodeWith, Node
      <4> QED BY <1>0, <2>1, <3>1, <4>1, <4>2, <4>3 DEF Owned
    <3> QED BY <1>0, <2>5, <3>1
            DEF Control, Places, PlaceInLibrary, AtInstaller, LoopEnds, Unlocked
  <2>6. CASE Shmctl(installer)
    <3>1. at[installer] = "destroy" /\ pc'[installer] = "idle" /\ DOMAIN SegmentNodes' = Procs
      BY <1>0, <2>6 DEF Control, Places, PlaceInLibrary, Shmctl, Return, Goto
    <3> QED BY <2>1, <3>1 DEF Owned
  <2> QED BY <1>0, <1>1, <2>1, <2>2, <2>3, <2>4, <2>5, <2>6
          DEF InLibrary, Inside, Semget, SemgetFails, Semup, Stat, Semctl, Lock, LockIsGone
<1>2. CASE ConnectShm(installer)
  <2>1. /\ at'[installer] = "connect" /\ SegmentNodes' = SegmentNodes
        /\ pc'[installer] = "shmat" \/ (pc'[installer] = "idle" /\ ret'[installer] = NULL)
        /\ Node(installer) = NULL
    BY <1>0, <1>2, ShmgetFailsFacts
       DEF ConnectShm, Moves, Shmget, Goto, Owned, Control, Shapes
  <2> QED BY <1>0, <2>1 DEF Owned, Node, Connected
<1>3. CASE DestroySegment
  <2>1. at'[installer] = "destroy" /\ segment # NULL /\ UNCHANGED <<segment, SegmentNodes>>
    BY <1>0, <1>3 DEF DestroySegment, Moves, DestroyShm, kernel, Owned
  <2>2. PICK list \in List : NodeWith(list)
    BY <1>3 DEF DestroySegment, Moves, Owned
  <2>3. NodeWith(list)'
    BY <2>1, <2>2 DEF NodeWith, Node
  <2>4. pc'[installer] # "idle" => op'[installer] = "destroy"
    BY <1>0, <1>3 DEF DestroySegment, DestroyShm, Operation, Return, Goto
  <2> QED BY <1>0, <2>1, <2>3, <2>4 DEF Owned
<1>4. CASE Restart(installer)
  <2>1. at'[installer] = "start" /\ SegmentNodes' = [SegmentNodes EXCEPT ![installer] = NULL]
    BY <1>0, <1>4 DEF Restart, Exit
  <2> QED BY <1>0, <2>1 DEF Owned, Node
<1> QED BY <1>1, <1>2, <1>3, <1>4

LEMMA OwnedNext == Owned /\ Control /\ [MonitorNext]_monitorVars => Owned'
<1> SUFFICES ASSUME Owned, Control, [MonitorNext]_monitorVars PROVE Owned'
  OBVIOUS
<1>0. /\ installer # monitor /\ Procs = {installer, monitor} /\ DOMAIN at = Procs
  BY MonitorAssumption DEF Control, Shapes
<1>1. ASSUME UNCHANGED vars, at'[installer] = at[installer] PROVE Owned'
  BY <1>1, OwnedOutside
<1>2. CASE CopyRead(installer) \/ CopyWrite(installer) \/ NotConnected(installer) \/ Destroyed
  BY <1>0, <1>2, OwnedOutside DEF CopyRead, CopyWrite, NotConnected, Destroyed, Moves
<1>3. CASE \/ CopyRead(monitor) \/ CopyWrite(monitor) \/ NotConnected(monitor) \/ LoopHead \/ Count
           \/ Stats \/ ListPoints \/ Listed \/ Sleep \/ Detached \/ SignalExit \/ Clear
           \/ \E i \in Points, b \in BOOLEAN : Install(i, b)
  BY <1>0, <1>1, <1>3
     DEF CopyRead, CopyWrite, NotConnected, LoopHead, Count, Stats, ListPoints, Listed, Sleep,
         Detached, SignalExit, Clear, Install, Moves
<1>4. CASE MonitorNext
  BY <1>0, <1>2, <1>3, <1>4, OwnedMonitor, OwnedInstaller DEF MonitorNext, MonitorStep, InstallerStep
<1>5. CASE UNCHANGED monitorVars
  BY <1>1, <1>5 DEF monitorVars, programs
<1> QED BY <1>4, <1>5

LEMMA OwnedInit == MonitorInit => Owned
BY MonitorAssumption DEF MonitorInit, Init, Owned, Node

\* install_data may still write its segment, or has not deleted it yet.
Working == at[installer] = "work" \/ (at[installer] = "destroy" /\ pc[installer] # "idle")

\* Points may be in a segment that was created, unless it is the one of the key,
\* nobody was killed over it and no install_data works on it.
MayHold(id) == id <= made.segments /\ (id \in abandoned \/ id # segment \/ Working)

Created == segment # NULL => segment <= made.segments

Clean ==
  /\ Created
  /\ \A id \in Ids, i \in Points : is_valid[id][i] => MayHold(id)
  /\ \A p \in Procs : at[p] = "copy" /\ byte[p] => MayHold(Segment(p))

\* A step creates a segment with a new id, deletes it or keeps it; install_data
\* stops working on it only by deleting it or by being killed.
LEMMA SegmentSteps ==
  ASSUME Control, Owned, Created, [MonitorNext]_monitorVars
  PROVE  /\ made'.segments \in Nat /\ made.segments \in Nat /\ made.segments <= made'.segments
         /\ segment' # segment => segment' = NULL \/ segment' > made.segments
         /\ abandoned \subseteq abandoned'
         /\ Working => Working' \/ segment \in abandoned' \/ segment' = NULL
         /\ Created'
<1>0. /\ installer # monitor /\ Procs = {installer, monitor} /\ SemUsers = {}
      /\ DOMAIN at = Procs /\ DOMAIN pc = Procs /\ DOMAIN op = Procs /\ DOMAIN ret = Procs
      /\ made.segments \in Nat /\ made.semaphores \in Nat
      /\ made = [segments |-> made.segments, semaphores |-> made.semaphores]
      /\ segment \in Ids \cup {NULL}
  BY MonitorAssumption, SharedMemAssumption DEF Control, Shapes
<1> DEFINE Goal == /\ made'.segments \in Nat /\ made.segments \in Nat /\ made.segments <= made'.segments
                   /\ segment' # segment => segment' = NULL \/ segment' > made.segments
                   /\ abandoned \subseteq abandoned'
                   /\ Working => Working' \/ segment \in abandoned' \/ segment' = NULL
                   /\ Created'
<1>1. ASSUME UNCHANGED <<made, segment>>, abandoned \subseteq abandoned',
             Working => Working' \/ segment \in abandoned'
      PROVE  Goal
  BY <1>0, <1>1 DEF Created
<1>2. ASSUME UNCHANGED <<made, segment, abandoned>>, at'[installer] = at[installer],
             pc'[installer] = pc[installer]
      PROVE  Goal
  BY <1>1, <1>2 DEF Working
<1>3. ASSUME NEW p \in Procs, ConnectShm(p) PROVE Goal
  <2>1. /\ at[p] = "start" /\ at' = [at EXCEPT ![p] = "connect"] /\ abandoned' = abandoned
        /\ \E where \in {"idle", "shmat"} : pc' = [pc EXCEPT ![p] = where]
    BY <1>3, ShmgetFailsFacts DEF ConnectShm, Moves, Shmget, Goto
  <2>2. Working => Working'
    BY <1>0, <2>1 DEF Working
  <2>3. CASE segment # NULL \/ ShmgetFails(p)
    <3>1. UNCHANGED <<made, segment>>
      BY <1>3, <2>3, ShmgetFailsFacts DEF ConnectShm, Shmget
    <3> QED BY <1>1, <2>1, <2>2, <3>1
  <2>4. CASE segment = NULL /\ Shmget(p)
    <3>1. made' = [made EXCEPT !.segments = @ + 1] /\ segment' = made'.segments
      BY <2>4 DEF Shmget
    <3>2. made'.segments = made.segments + 1
      BY <1>0, <3>1
    <3> QED BY <1>0, <2>1, <2>2, <3>1, <3>2 DEF Created
  <2> QED BY <1>3, <2>3, <2>4 DEF ConnectShm
<1>4. CASE InLibrary(monitor)
  <2>1. UNCHANGED <<at, abandoned>> /\ pc[monitor] \in {"idle", "shmat", "unlocked"}
    BY <1>0, <1>4 DEF Control, Places, PlaceInLibrary, AtMonitor, InLibrary, programs
  <2>2. UNCHANGED <<made, segment>> /\ pc'[installer] = pc[installer]
    BY <1>0, <1>4, <2>1
       DEF InLibrary, Inside, Shmat, ShmatFails, Semget, SemgetFails, Semup, Loop, LoopEnds, Stat,
           Semctl, Unlocked, Shmctl, Lock, LockIsGone, Return, Goto, kernel
  <2> QED BY <1>2, <2>1, <2>2
<1>5. CASE InLibrary(installer)
  <2>1. UNCHANGED <<at, abandoned>> /\ pc[installer] \in {"idle", "shmat", "loop", "unlocked", "shmctl"}
    BY <1>0, <1>5 DEF Control, Places, PlaceInLibrary, AtInstaller, InLibrary, programs
  <2>2. CASE Shmat(installer) \/ ShmatFails(installer)
    <3>1. ~Working /\ UNCHANGED <<made, segment>>
      BY <1>0, <2>2
         DEF Working, Control, Places, PlaceInLibrary, Shmat, ShmatFails, kernel
    <3> QED BY <1>1, <2>1, <3>1
  <2>3. CASE Loop(installer) \/ LoopEnds(installer) \/ Unlocked(installer)
    <3>1. UNCHANGED <<made, segment>>
      BY <2>3 DEF Loop, LoopEnds, Unlocked, kernel
    <3>2. Working => pc'[installer] # "idle" \/ at[installer] = "work"
      BY <1>0, <2>3
         DEF Working, Owned, Loop, LoopEnds, Unlocked, ThenLock, Goto
    <3> QED BY <1>1, <2>1, <3>1, <3>2 DEF Working
  <2>4. CASE Shmctl(installer)
    <3>1. at[installer] = "destroy" /\ pc[installer] = "shmctl"
      BY <1>0, <2>4 DEF Control, Places, PlaceInLibrary, Shmctl
    <3>2. PICK list : NodeWith(list)
      BY <3>1 DEF Owned
    <3>3. segment' = NULL /\ made' = made
      BY <2>4, <3>2 DEF Shmctl, NodeWith
    <3> QED BY <1>0, <2>1, <3>3 DEF Created
  <2> QED BY <1>0, <1>5, <2>1, <2>2, <2>3, <2>4
          DEF InLibrary, Inside, Semget, SemgetFails, Semup, Stat, Semctl, Lock, LockIsGone
<1>6. ASSUME NEW p \in Procs, Restart(p) PROVE Goal
  <2>1. /\ UNCHANGED <<made, segment>> /\ at' = [at EXCEPT ![p] = "start"]
        /\ pc' = [pc EXCEPT ![p] = "idle"]
    BY <1>6 DEF Restart, Exit, Goto
  <2>2. CASE p = installer
    BY <1>1, <1>6, <2>1, <2>2 DEF Restart, Working
  <2>3. CASE p # installer
    BY <1>0, <1>2, <1>6, <2>1, <2>3 DEF Restart
  <2> QED BY <2>2, <2>3
<1>7. CASE DetachSegment
  BY <1>0, <1>2, <1>7
     DEF DetachSegment, Moves, DetachShm, ThenLock, Return, Goto, kernel
<1>8. CASE DestroySegment
  <2>1. UNCHANGED <<made, segment, abandoned>> /\ at'[installer] = "destroy" /\ at[installer] = "work"
    BY <1>0, <1>8 DEF DestroySegment, Moves, DestroyShm, kernel
  <2>2. PICK list \in List : NodeWith(list) /\ segment # NULL
    BY <2>1 DEF Owned
  <2>3. Node(installer) \in SegmentNode
    BY <1>0, <2>2 DEF NodeWith, SegmentNode
  <2>4. pc'[installer] = "loop"
    BY <1>0, <1>8, <2>3, NodeAssumption DEF DestroySegment, DestroyShm, Goto
  <2> QED BY <1>1, <2>1, <2>4 DEF Working
<1>9. CASE \/ \E p \in Procs : CopyRead(p) \/ NotConnected(p) \/ CopyWrite(p)
           \/ Detached \/ Destroyed \/ LoopHead \/ Stats \/ Listed \/ Sleep
           \/ Count \/ ListPoints \/ SignalExit \/ Clear
           \/ \E i \in Points, b \in BOOLEAN : Install(i, b)
  <2>1. UNCHANGED vars /\ abandoned' = abandoned
    BY <1>9
       DEF CopyRead, CopyWrite, NotConnected, Detached, Destroyed, LoopHead, Stats, Listed, Sleep,
           Count, ListPoints, SignalExit, Clear, Install
  <2>2. Working => Working'
    BY <1>0, <1>9, <2>1
       DEF CopyRead, CopyWrite, NotConnected, Detached, Destroyed, LoopHead, Stats, Listed, Sleep,
           Count, ListPoints, SignalExit, Clear, Install, Moves, Working, vars
  <2> QED BY <1>1, <2>1, <2>2 DEF vars, kernel
<1>10. CASE UNCHANGED monitorVars
  BY <1>2, <1>10 DEF monitorVars, vars, kernel, programs
<1> QED BY <1>0, <1>3, <1>4, <1>5, <1>6, <1>7, <1>8, <1>9, <1>10
        DEF MonitorNext, MonitorStep, InstallerStep

LEMMA MayHoldStays ==
  ASSUME Control, Owned, Created, [MonitorNext]_monitorVars, NEW id \in Ids, MayHold(id)
  PROVE  MayHold(id)'
<1>1. id \in Nat /\ id # NULL
  BY SharedMemAssumption DEF Ids
<1> QED BY <1>1, SegmentSteps DEF MayHold

\* A process between the two halves of the copy of connect_shm stays attached.
LEMMA CopierStays ==
  ASSUME Control, MonitorTypeOK, [MonitorNext]_monitorVars, NEW p \in Procs, at[p] = "copy", at'[p] = "copy"
  PROVE  Segment(p)' = Segment(p) /\ byte'[p] = byte[p]
<1>0. /\ installer # monitor /\ Procs = {installer, monitor} /\ SemUsers = {}
      /\ DOMAIN at = Procs /\ DOMAIN ret = Procs /\ DOMAIN attached = Procs
      /\ DOMAIN byte = Procs /\ pc[p] = "idle"
  BY MonitorAssumption DEF Control, Shapes, Places, PlaceInLibrary, MonitorTypeOK
<1>1. ASSUME ret'[p] = ret[p], attached'[p] = attached[p], byte'[p] = byte[p]
      PROVE  Segment(p)' = Segment(p) /\ byte'[p] = byte[p]
  BY <1>1 DEF Segment
<1>2. ASSUME NEW q \in Procs, InLibrary(q) PROVE Segment(p)' = Segment(p) /\ byte'[p] = byte[p]
  <2>1. byte' = byte /\ pc[q] \in {"idle", "shmat", "loop", "unlocked", "shmctl"}
    BY <1>0, <1>2 DEF Control, Places, PlaceInLibrary, AtInstaller, AtMonitor, InLibrary, programs
  <2>2. q # p
    BY <1>0, <1>2
       DEF InLibrary, Inside, Shmat, ShmatFails, Semget, SemgetFails, Semup, Loop, LoopEnds, Stat,
           Semctl, Unlocked, Shmctl, Lock, LockIsGone
  <2>3. /\ ret'[p] = ret[p] /\ attached'[p] = attached[p]
    <3>1. CASE Shmat(q)
      <4>1. \E a : attached' = [attached EXCEPT ![q][a] = shm_id[q]]
        BY <3>1 DEF Shmat
      <4>2. \E a : ret' = [ret EXCEPT ![q] = a]
        BY <1>0, <3>1 DEF Shmat, Return
      <4> QED BY <1>0, <2>2, <4>1, <4>2
    <3>2. CASE ~Shmat(q)
      BY <1>0, <1>2, <2>1, <2>2, <3>2
         DEF InLibrary, Inside, ShmatFails, Semget, SemgetFails, Semup, Loop, LoopEnds, Stat,
             Semctl, Unlocked, Shmctl, Lock, LockIsGone, Detach, Return, kernel, locals
    <3> QED BY <3>1, <3>2
  <2> QED BY <1>1, <2>1, <2>3
<1>3. ASSUME NEW q \in Procs, ConnectShm(q) \/ NotConnected(q)
      PROVE  Segment(p)' = Segment(p) /\ byte'[p] = byte[p]
  <2>1. CASE ConnectShm(q)
    <3>1. q # p /\ UNCHANGED <<attached, byte>>
      BY <1>0, <2>1, ShmgetFailsFacts DEF ConnectShm, Moves, Shmget
    <3>2. ret'[p] = ret[p]
      BY <1>0, <2>1, <3>1, ShmgetFailsFacts DEF ConnectShm, Shmget
    <3> QED BY <1>1, <3>1, <3>2
  <2>2. CASE NotConnected(q)
    BY <1>1, <2>2 DEF NotConnected, vars, kernel
  <2> QED BY <1>3, <2>1, <2>2
<1>4. ASSUME NEW q \in Procs, CopyRead(q) \/ CopyWrite(q) \/ Restart(q)
      PROVE  Segment(p)' = Segment(p) /\ byte'[p] = byte[p]
  <2>1. q # p
    BY <1>0, <1>4 DEF CopyRead, CopyWrite, Restart, Moves
  <2>2. CASE CopyRead(q) \/ CopyWrite(q)
    <3>1. /\ UNCHANGED <<ret, attached>> /\ \E b : byte' = [byte EXCEPT ![q] = b]
      BY <2>2 DEF CopyRead, CopyWrite, vars, kernel
    <3>2. byte'[p] = byte[p]
      BY <1>0, <2>1, <3>1
    <3> QED BY <1>1, <3>1, <3>2
  <2>3. CASE Restart(q)
    <3>1. /\ \E b : byte' = [byte EXCEPT ![q] = b]
          /\ ret' = [ret EXCEPT ![q] = NULL]
          /\ attached' = [attached EXCEPT ![q] = [a \in Addrs |-> NULL]]
      BY <2>3 DEF Restart, Exit
    <3>2. byte'[p] = byte[p]
      BY <1>0, <2>1, <3>1
    <3>3. ret'[p] = ret[p] /\ attached'[p] = attached[p]
      BY <1>0, <2>1, <3>1
    <3> QED BY <1>1, <3>2, <3>3
  <2> QED BY <1>4, <2>2, <2>3
<1>5. CASE DetachSegment \/ DestroySegment
  <2>1. \E q \in Procs \ {p} :
          /\ ret' = ret \/ \E a : ret' = [ret EXCEPT ![q] = a]
          /\ attached' = attached \/ \E a : attached' = [attached EXCEPT ![q][a] = NULL]
    BY <1>0, <1>5
       DEF DetachSegment, DestroySegment, Moves, DetachShm, DestroyShm, Detach, Return, kernel
  <2>2. byte' = byte
    BY <1>5 DEF DetachSegment, DestroySegment
  <2> QED BY <1>0, <1>1, <2>1, <2>2
<1>6. CASE \/ Detached \/ Destroyed \/ LoopHead \/ Stats \/ Listed \/ Sleep \/ Count \/ ListPoints
           \/ SignalExit \/ Clear
           \/ \E i \in Points, b \in BOOLEAN : Install(i, b)
           \/ UNCHANGED monitorVars
  BY <1>1, <1>6
     DEF Detached, Destroyed, LoopHead, Stats, Listed, Sleep, Count, ListPoints, SignalExit, Clear,
         Install, vars, kernel, monitorVars, programs
<1> QED BY <1>0, <1>2, <1>3, <1>4, <1>5, <1>6 DEF MonitorNext, MonitorStep, InstallerStep

\* A point is written by install_data at work, or is what a copy read before.
LEMMA CleanNext ==
  Clean /\ Owned /\ Control /\ MonitorTypeOK /\ [MonitorNext]_monitorVars => Clean'
<1> SUFFICES ASSUME Clean, Owned, Control, MonitorTypeOK, [MonitorNext]_monitorVars PROVE Clean'
  OBVIOUS
<1>0. /\ installer # monitor /\ Procs = {installer, monitor} /\ 0 \in Points
      /\ DOMAIN at = Procs /\ Created /\ byte \in [Procs -> BOOLEAN]
      /\ is_valid \in [Ids -> [Points -> BOOLEAN]]
  BY MonitorAssumption DEF Control, Shapes, Clean, Points, MonitorTypeOK
<1>1. Created' /\ \A id \in Ids : MayHold(id) => MayHold(id)'
  BY <1>0, SegmentSteps, MayHoldStays
<1>2. \A id \in Ids, i \in Points : is_valid'[id][i] => MayHold(id) \/ MayHold(id)'
  <2>1. CASE is_valid' = is_valid
    BY <2>1 DEF Clean
  <2>2. ASSUME NEW p \in Procs, CopyWrite(p)
        PROVE  \A id \in Ids, i \in Points : is_valid'[id][i] => MayHold(id)
    <3>1. Segment(p) \in Ids /\ at[p] = "copy"
      BY <2>2, SegmentOf DEF CopyWrite, Moves
    <3>2. is_valid' = [is_valid EXCEPT ![Segment(p)][0] = byte[p]]
      BY <2>2 DEF CopyWrite, Write
    <3> QED BY <1>0, <3>1, <3>2 DEF Clean
  <2>3. ASSUME NEW i \in Points, NEW b \in BOOLEAN, Installs(i, b)
        PROVE  \A id \in Ids, k \in Points : is_valid'[id][k] => MayHold(id)
    <3>1. at[installer] = "work" /\ Segment(installer) \in Ids
      BY <1>0, <2>3, SegmentOf DEF Installs
    <3>2. Segment(installer) = segment /\ segment # NULL
      BY <3>1, SharedMemAssumption DEF Control, Visible, Ids
    <3>3. is_valid' = [is_valid EXCEPT ![segment][i] = b]
      BY <2>3, <3>2 DEF Installs, Write
    <3>4. MayHold(segment)
      BY <1>0, <3>1, <3>2 DEF MayHold, Created, Working
    <3> QED BY <1>0, <3>1, <3>2, <3>3, <3>4 DEF Clean
  <2>4. CASE Clear
    BY <2>3, <2>4 DEF Clear, MonitorTypeOK
  <2>5. ASSUME NEW i \in Points, NEW b \in BOOLEAN, Install(i, b)
        PROVE  \A id \in Ids, k \in Points : is_valid'[id][k] => MayHold(id)
    BY <2>3, <2>5 DEF Install
  <2>6. \/ is_valid' = is_valid
        \/ \E p \in Procs : CopyWrite(p)
        \/ Clear
        \/ \E i \in Points, b \in BOOLEAN : Install(i, b)
    BY <1>0
       DEF MonitorNext, MonitorStep, InstallerStep, InLibrary, CopyRead, NotConnected, LoopHead,
           Count, Stats, ListPoints, Listed, Sleep, DetachSegment, Detached, DestroySegment,
           Destroyed, SignalExit, ConnectShm, Restart, monitorVars, programs, points
  <2> QED BY <2>1, <2>2, <2>4, <2>5, <2>6
<1>3. ASSUME NEW p \in Procs, at'[p] = "copy", byte'[p] PROVE MayHold(Segment(p))'
  <2>1. CASE at[p] = "copy"
    <3>1. MayHold(Segment(p)) /\ Segment(p) \in Ids /\ Segment(p)' = Segment(p)
      BY <1>3, <2>1, CopierStays, SegmentOf DEF Clean
    <3> QED BY <1>1, <3>1 DEF MayHold
  <2>2. CASE at[p] # "copy"
    <3>1. CopyRead(p)
      BY <1>0, <1>3, <2>2
         DEF MonitorNext, MonitorStep, InstallerStep, InLibrary, CopyRead, CopyWrite, NotConnected,
             LoopHead, Count, Stats, ListPoints, Listed, Sleep, DetachSegment, Detached,
             DestroySegment, Destroyed, SignalExit, ConnectShm, Restart, Clear, Install, Moves,
             monitorVars, programs
    <3>2. Segment(p) \in Ids /\ is_valid[Segment(p)][0] /\ Segment(p)' = Segment(p)
      <4>1. byte' = [byte EXCEPT ![p] = is_valid[Segment(p)][0]] /\ UNCHANGED <<attached, ret>>
        BY <3>1 DEF CopyRead, vars, kernel
      <4>2. Segment(p) \in Ids
        BY <3>1, SegmentOf DEF CopyRead
      <4> QED BY <1>0, <1>3, <4>1, <4>2 DEF Segment
    <3>3. MayHold(Segment(p))
      BY <1>0, <3>2 DEF Clean
    <3> QED BY <1>1, <3>2, <3>3 DEF MayHold
  <2> QED BY <2>1, <2>2
<1>4. \A id \in Ids, i \in Points : is_valid'[id][i] => MayHold(id)'
  BY <1>1, <1>2
<1> QED BY <1>1, <1>3, <1>4 DEF Clean

LEMMA CleanInit == MonitorInit => Clean
<1> SUFFICES ASSUME MonitorInit PROVE Clean
  OBVIOUS
<1>1. /\ segment = NULL
      /\ \A id \in Ids, i \in Points : ~is_valid[id][i]
      /\ \A p \in Procs : at[p] # "copy"
  BY DEF MonitorInit, Init
<1> QED BY <1>1 DEF Clean, Created

\* A segment that nobody was killed over is empty when install_data has connected
\* to it, for any number of points, segments, monitors and restarts.
THEOREM StartsWithoutPoints == MonitorSpec => StartsClean
<1>1. ASSUME Clean, Control, [MonitorNext]_monitorVars
      PROVE  [at[installer] = "connect" /\ at'[installer] = "copy"
                => Valid(Segment(installer)) = {} \/ Segment(installer) \in abandoned]_monitorVars
  <2> SUFFICES ASSUME MonitorNext, at[installer] = "connect", at'[installer] = "copy"
               PROVE  Valid(Segment(installer)) = {} \/ Segment(installer) \in abandoned
    BY <1>1
  <2>0. installer # monitor /\ Procs = {installer, monitor} /\ DOMAIN at = Procs
    BY <1>1, MonitorAssumption DEF Control, Shapes
  <2>1. CopyRead(installer)
    BY <2>0
       DEF MonitorNext, MonitorStep, InstallerStep, InLibrary, CopyRead, CopyWrite, NotConnected,
           LoopHead, Count, Stats, ListPoints, Listed, Sleep, DetachSegment, Detached,
           DestroySegment, Destroyed, SignalExit, ConnectShm, Restart, Clear, Install, Moves,
           programs
  <2>2. Segment(installer) = segment /\ Segment(installer) \in Ids
    BY <1>1, <2>0, <2>1, SegmentOf DEF CopyRead, Control, Visible
  <2>3. MayHold(segment) => segment \in abandoned
    BY DEF MayHold, Working
  <2> QED BY <1>1, <2>2, <2>3 DEF Clean, Valid
<1> QED BY <1>1, OwnedInit, OwnedNext, CleanInit, CleanNext, MonitorTypesAlways, PTL
        DEF MonitorSpec, StartsClean

----------------------------------------------------------------------------
(* The two programs keep to the interface of the library                    *)

\* The programs call the library between its calls only, and with an address
\* that they attached: every step of theirs is one of SharedMem, or none.
LEMMA StepsInLibrary == Control /\ [MonitorNext]_monitorVars => [Next]_vars
<1> SUFFICES ASSUME Control, [MonitorNext]_monitorVars PROVE [Next]_vars
  OBVIOUS
<1>1. ASSUME NEW p \in Procs, InLibrary(p) PROVE Next
  BY <1>1 DEF InLibrary, Next
<1>2. ASSUME NEW p \in Procs, ConnectShm(p) PROVE Next
  BY <1>2 DEF ConnectShm, Next, Calls
<1>3. ASSUME NEW p \in Procs, Restart(p) PROVE Next
  BY <1>3 DEF Restart, Next
<1>4. CASE DestroySegment
  BY <1>4, MonitorAssumption DEF DestroySegment, Next, Calls
<1>5. CASE DetachSegment
  <2>1. Connected(monitor) /\ monitor \in Procs /\ DetachShm(monitor, ret[monitor])
    BY <1>5, MonitorAssumption DEF DetachSegment, Moves, Control, Places
  <2>2. ret[monitor] \in Addrs
    BY <2>1 DEF Control, Shapes, Connected, Pointer, Addrs
  <2> QED BY <2>1, <2>2 DEF Next, Calls
<1>6. CASE \/ \E p \in Procs : CopyRead(p) \/ CopyWrite(p) \/ NotConnected(p)
           \/ LoopHead \/ Count \/ Stats \/ ListPoints \/ Listed \/ Sleep \/ Detached
           \/ Clear \/ Destroyed \/ SignalExit \/ \E i \in Points, b \in BOOLEAN : Install(i, b)
  <2>1. UNCHANGED vars
    BY <1>6
       DEF CopyRead, CopyWrite, NotConnected, LoopHead, Count, Stats, ListPoints, Listed, Sleep,
           Detached, Clear, Destroyed, SignalExit, Install
  <2> QED BY <2>1
<1>7. CASE MonitorNext
  BY <1>1, <1>2, <1>3, <1>4, <1>5, <1>6, <1>7, MonitorAssumption
     DEF MonitorNext, MonitorStep, InstallerStep
<1>8. CASE UNCHANGED monitorVars
  BY <1>8 DEF monitorVars
<1> QED BY <1>7, <1>8

\* monitor_shm and install_data are users of the shared memory library: what it
\* promises any such users (SharedMem's specification) holds of them.
THEOREM ProgramsUseTheLibrary == MonitorSpec => Spec
<1>1. MonitorInit => Init
  BY DEF MonitorInit
<1> QED BY <1>1, StepsInLibrary, ControlInvariant, PTL DEF MonitorSpec, Spec

\* So connect_shm's list is what each of them is attached to.
THEOREM ProgramsAreTracked == MonitorSpec => []AttachedIsTracked
BY ProgramsUseTheLibrary, ListIsWhatIsAttached, PTL

\* Where a program is attached.  It forgets no address, because it uses no
\* semaphores, and has at most the one that connect_shm returned.
Held(p) ==
  /\ orphans[p] = {}
  /\ at[p] \in {"start", "detach", "ended"} \/ (at[p] = "destroy" /\ pc[p] = "idle")
       => Attached(p) = {}
  /\ at[p] = "connect"
       => Attached(p) = IF pc[p] = "idle" /\ ret[p] # NULL THEN {ret[p]} ELSE {}
  /\ at[p] \in {"copy", "work", "loop", "count", "list", "sleep"} => Attached(p) = {ret[p]}

HeldBy == AttachInv /\ \A p \in Procs : Held(p)

LEMMA HeldInit == MonitorInit => \A p \in Procs : Held(p)
BY DEF MonitorInit, Init, Held, Attached

\* A step of p leaves what other programs hold.
LEMMA HeldBeside ==
  ASSUME HeldBy, NEW p \in Procs, NEW q \in Procs,
         at'[q] = at[q], pc'[q] = pc[q], ret'[q] = ret[q], attached'[q] = attached[q],
         orphans'[q] = orphans[q]
  PROVE  Held(q)'
BY DEF HeldBy, Held, Attached

\* Outside of the library a program goes on with what it holds.
LEMMA HeldOutside ==
  ASSUME HeldBy, Control, NEW p \in Procs, UNCHANGED vars, NEW from, NEW to, Moves(p, from, to),
         \/ from = "connect" /\ to = "copy" /\ pc[p] = "idle" /\ Connected(p)
         \/ from = "connect" /\ to = "ended" /\ pc[p] = "idle" /\ ~Connected(p)
         \/ /\ from \in {"copy", "loop", "count", "list", "sleep"}
            /\ to \in {"work", "loop", "count", "list", "sleep"}
         \/ from \in {"destroy", "detach"} /\ to = "ended" /\ pc[p] = "idle"
  PROVE  \A q \in Procs : Held(q)'
<1>1. /\ UNCHANGED <<attached, ret, pc, orphans>>
      /\ at[p] = from /\ at' = [at EXCEPT ![p] = to] /\ DOMAIN at = Procs
      /\ ret[p] \in Addrs \cup {NULL}
  BY DEF vars, kernel, locals, Moves, Control, Shapes, Pointer, Addrs
<1>2. Held(p)
  BY DEF HeldBy
<1>3. Held(p)'
  BY <1>1, <1>2 DEF Held, Attached, Connected
<1>4. ASSUME NEW q \in Procs, q # p PROVE Held(q)'
  BY <1>1, <1>4, HeldBeside
<1> QED BY <1>3, <1>4

\* A program connects at one address, and detach_shm and destroy_shm leave none.
LEMMA HeldLibrary ==
  ASSUME HeldBy, Control, Owned, NEW p \in Procs, InLibrary(p)
  PROVE  \A q \in Procs : Held(q)'
<1>1. /\ at' = at /\ p \notin SemUsers /\ Held(p) /\ TracksAt(p) /\ PlaceAt(p) /\ orphans' = orphans
      /\ pc[p] \in PlaceInLibrary(at[p]) /\ pc[p] \in {"shmat", "loop", "unlocked", "shmctl"}
      /\ DOMAIN pc = Procs /\ DOMAIN op = Procs /\ DOMAIN ret = Procs
      /\ attached \in [Procs -> [Addrs -> Ids \cup {NULL}]]
      /\ at[p] = "detach" /\ pc[p] = "unlocked" => op[p] = "detach"
  <2>1. /\ at' = at /\ p \notin SemUsers /\ Held(p) /\ TracksAt(p) /\ PlaceAt(p)
        /\ pc[p] \in PlaceInLibrary(at[p])
        /\ DOMAIN pc = Procs /\ DOMAIN op = Procs /\ DOMAIN ret = Procs
        /\ attached \in [Procs -> [Addrs -> Ids \cup {NULL}]]
        /\ at[p] = "detach" /\ pc[p] = "unlocked" => op[p] = "detach"
    BY MonitorAssumption DEF InLibrary, programs, HeldBy, AttachInv, Control, Shapes, Places
  <2>2. pc[p] \in {"idle", "shmat", "loop", "unlocked", "shmctl"}
    BY <2>1 DEF PlaceInLibrary
  <2>3. orphans' = orphans /\ pc[p] # "idle"
    BY <2>1, <2>2
       DEF InLibrary, Inside, Shmat, ShmatFails, Semget, SemgetFails, Semup, Loop, LoopEnds, Stat,
           Semctl, Unlocked, Shmctl, Lock, LockIsGone
  <2> QED BY <2>1, <2>2, <2>3
<1>2. ASSUME NEW q \in Procs, q # p PROVE Held(q)'
  <2>1. attached'[q] = attached[q] /\ ret'[q] = ret[q]
    BY <1>2, LibraryFrame
  <2>2. pc'[q] = pc[q]
    BY <1>1, <1>2
       DEF InLibrary, Inside, Shmat, ShmatFails, Semget, SemgetFails, Semup, Loop, LoopEnds, Stat,
           Semctl, Unlocked, Shmctl, Lock, LockIsGone, Return, Goto, ThenLock
  <2> QED BY <1>1, <1>2, <2>1, <2>2, HeldBeside
<1>3. CASE Shmat(p)
  <2>1. at[p] = "connect" /\ Attached(p) = {}
    BY <1>1, <1>3 DEF Held, PlaceInLibrary, Shmat
  <2>2. PICK a \in Addrs : /\ attached' = [attached EXCEPT ![p][a] = shm_id[p]] /\ Return(p, a)
    BY <1>1, <1>3 DEF Shmat
  <2>3. shm_id[p] # NULL
    BY <1>1, <1>3, SharedMemAssumption DEF PlaceAt, Shmat, Ids
  <2>4. pc'[p] = "idle" /\ ret'[p] = a /\ a # NULL /\ Attached(p)' = {a}
    <3>1. pc'[p] = "idle" /\ ret'[p] = a /\ a # NULL
      BY <1>1, <2>2, ListAssumption DEF Return, Goto, Addrs
    <3>2. Attached(p)' = {a}
      BY <1>1, <2>1, <2>2, <2>3 DEF Attached
    <3> QED BY <3>1, <3>2
  <2>5. Held(p)'
    BY <1>1, <2>1, <2>4 DEF Held
  <2> QED BY <1>2, <2>5
<1>4. CASE ShmatFails(p)
  <2>1. /\ at[p] = "connect" /\ Attached(p) = {} /\ ret'[p] = NULL /\ attached' = attached
    BY <1>1, <1>4 DEF Held, PlaceInLibrary, ShmatFails, Return, kernel
  <2>2. Held(p)'
    BY <1>1, <2>1 DEF Held, Attached
  <2> QED BY <1>2, <2>2
<1>5. CASE Loop(p) \/ LoopEnds(p)
  <2>1. at[p] = "destroy" /\ pc'[p] = "unlocked"
    BY <1>1, <1>5 DEF Loop, LoopEnds, ThenLock, Goto, PlaceInLibrary
  <2>2. Held(p)'
    BY <1>1, <2>1 DEF Held
  <2> QED BY <1>2, <2>2
<1>6. CASE Unlocked(p)
  <2>1. attached' = attached
    BY <1>6 DEF Unlocked, kernel
  <2>2. CASE at[p] = "detach"
    <3>1. Held(p)'
      BY <1>1, <2>1, <2>2 DEF Held, Attached
    <3> QED BY <1>2, <3>1
  <2>3. CASE at[p] = "destroy"
    <3>1. op[p] # "detach" => pc'[p] # "idle"
      BY <1>1, <1>6 DEF Unlocked, Goto
    <3>2. op[p] # "detach"
      BY <1>1, <2>3, MonitorAssumption DEF Control, Places, AtMonitor, Owned
    <3>3. Held(p)'
      BY <1>1, <2>1, <2>3, <3>1, <3>2 DEF Held, Attached
    <3> QED BY <1>2, <3>3
  <2> QED BY <1>1, <1>6, <2>2, <2>3 DEF PlaceInLibrary, Unlocked
<1>7. CASE Shmctl(p)
  <2>1. /\ at[p] = "destroy" /\ pc[p] = "shmctl" /\ attached' = attached
    BY <1>1, <1>7 DEF PlaceInLibrary, Shmctl
  <2>2. Node(p) # NULL /\ Node(p).attachments.head = NULL /\ InHand(p) = {}
    BY <1>1, <2>1 DEF PlaceAt, InDetach, InHand
  <2>3. Tracked(p) = {}
    BY <1>1, <2>2, HeadOfList DEF TracksAt, Tracked
  <2>4. Attached(p)' = {}
    BY <1>1, <2>1, <2>2, <2>3 DEF TracksAt, Held, Attached
  <2>5. Held(p)'
    BY <1>1, <2>1, <2>4 DEF Held
  <2> QED BY <1>2, <2>5
<1> QED BY <1>1, <1>3, <1>4, <1>5, <1>6, <1>7
        DEF InLibrary, Inside, Semget, SemgetFails, Semup, Stat, Semctl, Lock, LockIsGone

\* The calls: connect_shm begins with no attachment, detach_shm is given the one
\* there is, and destroy_shm finds none if the process has no node.
LEMMA HeldCalls ==
  ASSUME HeldBy, Control, Owned, NEW p \in Procs,
         \/ ConnectShm(p) \/ Restart(p)
         \/ p = installer /\ DestroySegment
         \/ p = monitor /\ DetachSegment
  PROVE  \A q \in Procs : Held(q)'
<1>1. /\ Held(p) /\ TracksAt(p) /\ p \notin SemUsers
      /\ DOMAIN pc = Procs /\ DOMAIN op = Procs /\ DOMAIN ret = Procs /\ DOMAIN at = Procs
      /\ DOMAIN orphans = Procs /\ attached \in [Procs -> [Addrs -> Ids \cup {NULL}]]
  BY MonitorAssumption DEF HeldBy, AttachInv, TypeOK, Control, Shapes
<1> DEFINE Others == \A q \in Procs \ {p} :
             /\ at'[q] = at[q] /\ pc'[q] = pc[q] /\ ret'[q] = ret[q] /\ attached'[q] = attached[q]
             /\ orphans'[q] = orphans[q]
<1>2. ASSUME Others, Held(p)' PROVE \A q \in Procs : Held(q)'
  BY <1>2, HeldBeside
<1>3. CASE ConnectShm(p)
  <2>1. Others
    BY <1>1, <1>3, ShmgetFailsFacts DEF ConnectShm, Moves, Shmget, Goto
  <2>2. /\ at[p] = "start" /\ at'[p] = "connect" /\ attached' = attached /\ orphans' = orphans
        /\ pc'[p] = "shmat" \/ ret'[p] = NULL
    BY <1>1, <1>3, ShmgetFailsFacts DEF ConnectShm, Moves, Shmget, Goto
  <2>3. Held(p)'
    BY <1>1, <2>2 DEF Held, Attached
  <2> QED BY <1>2, <2>1, <2>3
<1>4. CASE Restart(p)
  <2>1. Others
    BY <1>1, <1>4 DEF Restart, Exit, Goto
  <2>2. /\ at'[p] = "start" /\ attached'[p] = [a \in Addrs |-> NULL] /\ orphans'[p] = {}
    BY <1>1, <1>4 DEF Restart, Exit
  <2>3. Held(p)'
    BY <2>2 DEF Held, Attached
  <2> QED BY <1>2, <2>1, <2>3
<1>5. CASE p = installer /\ DestroySegment
  <2>1. /\ at[p] = "work" /\ at' = [at EXCEPT ![p] = "destroy"] /\ DestroyShm(p)
    BY <1>5 DEF DestroySegment, Moves
  <2>2. Node(p) # NULL
    <3>1. segment \in Ids /\ \E list \in List : NodeWith(list)
      BY <1>5, <2>1 DEF Owned, Control, Shapes
    <3>2. PICK list \in List : NodeWith(list)
      BY <3>1
    <3>3. Node(p) \in SegmentNode
      BY <1>5, <3>1, <3>2 DEF NodeWith, SegmentNode
    <3> QED BY <3>3, NodeAssumption
  <2>3. pc' = [pc EXCEPT ![p] = "loop"] /\ UNCHANGED <<attached, orphans, ret>>
    BY <2>1, <2>2 DEF DestroyShm, Goto, kernel
  <2>4. Others
    BY <1>1, <2>1, <2>3
  <2>5. Held(p)'
    BY <1>1, <2>1, <2>3 DEF Held
  <2> QED BY <1>2, <2>4, <2>5
<1>6. CASE p = monitor /\ DetachSegment
  <2>1. /\ at[p] = "loop" /\ at' = [at EXCEPT ![p] = "detach"] /\ DetachShm(p, ret[p])
    BY <1>6 DEF DetachSegment, Moves
  <2>2. Attached(p) = {ret[p]} /\ orphans[p] = {} /\ pc[p] = "idle"
    BY <1>1, <2>1 DEF Held, DetachShm, MayUse, Idle
  <2>3. ret[p] \in Tracked(p)
    BY <1>1, <2>2 DEF TracksAt, InHand
  <2>4. /\ attached' = [attached EXCEPT ![p][ret[p]] = NULL] /\ pc' = [pc EXCEPT ![p] = "unlocked"]
        /\ UNCHANGED <<ret, orphans>>
    BY <1>1, <2>1, <2>3 DEF DetachShm, Detach, ThenLock, Goto
  <2>5. Others
    BY <1>1, <2>1, <2>4
  <2>6. Attached(p)' = {}
    BY <1>1, <2>2, <2>4 DEF Attached
  <2>7. Held(p)'
    BY <1>1, <2>1, <2>2, <2>4, <2>6 DEF Held
  <2> QED BY <1>2, <2>5, <2>7
<1> QED BY <1>3, <1>4, <1>5, <1>6

LEMMA HeldNext ==
  HeldBy /\ Control /\ Owned /\ [MonitorNext]_monitorVars => \A q \in Procs : Held(q)'
<1> SUFFICES ASSUME HeldBy, Control, Owned, [MonitorNext]_monitorVars
             PROVE  \A q \in Procs : Held(q)'
  OBVIOUS
<1>1. ASSUME UNCHANGED vars, UNCHANGED at PROVE \A q \in Procs : Held(q)'
  <2>1. UNCHANGED <<pc, ret, attached, orphans>>
    BY <1>1 DEF vars, kernel, locals
  <2> QED BY <1>1, <2>1, HeldBeside
<1>2. ASSUME NEW p \in Procs, CopyRead(p) PROVE \A q \in Procs : Held(q)'
  <2>1. Moves(p, "connect", "copy") /\ UNCHANGED vars /\ pc[p] = "idle" /\ Connected(p)
    BY <1>2 DEF CopyRead
  <2> QED BY <2>1, HeldOutside
<1>3. ASSUME NEW p \in Procs, CopyWrite(p) PROVE \A q \in Procs : Held(q)'
  <2>1. Moves(p, "copy", IF p = monitor THEN "loop" ELSE "work") /\ UNCHANGED vars
    BY <1>3 DEF CopyWrite
  <2>2. CASE p = monitor
    BY <2>1, <2>2, HeldOutside
  <2>3. CASE p # monitor
    BY <2>1, <2>3, HeldOutside
  <2> QED BY <2>2, <2>3
<1>4. ASSUME NEW p \in Procs, NotConnected(p) PROVE \A q \in Procs : Held(q)'
  <2>1. Moves(p, "connect", "ended") /\ UNCHANGED vars /\ pc[p] = "idle" /\ ~Connected(p)
    BY <1>4 DEF NotConnected
  <2> QED BY <2>1, HeldOutside
<1>5. ASSUME LoopHead \/ Stats \/ Listed \/ Sleep PROVE \A q \in Procs : Held(q)'
  <2>1. UNCHANGED vars /\ \E from \in {"loop", "count", "list", "sleep"},
                             to \in {"loop", "count", "list", "sleep"} : Moves(monitor, from, to)
    BY <1>5 DEF LoopHead, Stats, Listed, Sleep
  <2>2. PICK from \in {"loop", "count", "list", "sleep"}, to \in {"loop", "count", "list", "sleep"} :
          Moves(monitor, from, to)
    BY <2>1
  <2> QED BY <2>1, <2>2, HeldOutside, MonitorAssumption
<1>6. CASE Detached
  <2>1. Moves(monitor, "detach", "ended") /\ UNCHANGED vars /\ pc[monitor] = "idle"
    BY <1>6 DEF Detached
  <2> QED BY <2>1, HeldOutside, MonitorAssumption
<1>7. CASE Destroyed
  <2>1. Moves(installer, "destroy", "ended") /\ UNCHANGED vars /\ pc[installer] = "idle"
    BY <1>7 DEF Destroyed
  <2> QED BY <2>1, HeldOutside, MonitorAssumption
<1>8. ASSUME \/ Count \/ ListPoints \/ Clear \/ SignalExit
             \/ \E i \in Points, b \in BOOLEAN : Install(i, b)
      PROVE  \A q \in Procs : Held(q)'
  BY <1>1, <1>8 DEF Count, ListPoints, Clear, SignalExit, Install
<1>9. CASE MonitorNext
  BY <1>2, <1>3, <1>4, <1>5, <1>6, <1>7, <1>8, <1>9, HeldLibrary, HeldCalls, MonitorAssumption
     DEF MonitorNext, MonitorStep, InstallerStep
<1>10. CASE UNCHANGED monitorVars
  BY <1>1, <1>10 DEF monitorVars, programs
<1> QED BY <1>9, <1>10

\* REQ_monitor_4 and REQ_destroy_1, of the programs: monitor_shm and install_data
\* are attached to nothing when they end, whether they connected, whatever the
\* other program did to the segment, and wherever it was killed.
THEOREM EndedIsDetached ==
  MonitorSpec => [](\A p \in Procs : at[p] = "ended" => \A a \in Addrs : attached[p][a] = NULL)
<1>1. MonitorInit => HeldBy /\ Owned
  BY HeldInit, OwnedInit, AttachInit DEF HeldBy, MonitorInit
<1>2. HeldBy /\ Owned /\ Control /\ [MonitorNext]_monitorVars => (HeldBy /\ Owned)'
  <2> SUFFICES ASSUME HeldBy, Owned, Control, [MonitorNext]_monitorVars PROVE (HeldBy /\ Owned)'
    OBVIOUS
  <2>1. AttachInv'
    BY StepsInLibrary, AttachNext DEF HeldBy
  <2> QED BY <2>1, HeldNext, OwnedNext DEF HeldBy
<1>3. HeldBy => \A p \in Procs : at[p] = "ended" => \A a \in Addrs : attached[p][a] = NULL
  BY DEF HeldBy, Held, Attached
<1> QED BY <1>1, <1>2, <1>3, ControlInvariant, PTL DEF MonitorSpec
=============================================================================
