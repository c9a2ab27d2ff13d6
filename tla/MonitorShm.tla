----------------------------- MODULE MonitorShm -----------------------------
(***************************************************************************)
(* The programs monitor_shm and install_data on one segment of points, each *)
(* a process of SharedMem, without semaphores as both choose.  The monitor  *)
(* is src/src/bin/monitor_shm/monitor_shm.c with show_points of point.c,    *)
(* one read of the segment at a time.  install_data is reduced to what it   *)
(* does to the segment: it connects, its worker installs and invalidates    *)
(* points in any order, clear_and_restart clears them, destroy_shm ends it; *)
(* how its threads get there is InstallData.  Either program may be killed  *)
(* anywhere, and started again.                                             *)
(***************************************************************************)
EXTENDS SharedMem

CONSTANTS
  installer, monitor,
  MAX_NUM_POINTS,
  Seconds            \* the monitor's argument

ASSUME MonitorAssumption ==
  /\ Procs = {installer, monitor} /\ installer # monitor
  /\ SemUsers = {}
  /\ MAX_NUM_POINTS \in Nat \ {0} /\ Seconds \in Nat \ {0}

VARIABLES
  at,            \* where each program is
  is_valid,      \* the points of each segment
  byte,          \* what push_list_item has read and not yet written back
  clearing,      \* the point that memset clears next
  seconds, Running, idx, valid_points,   \* the monitor's variables
  always, ever,  \* points valid during all, and some, of show_points (history)
  wanted,        \* what install_data last made of each point (history)
  abandoned      \* segments that an install_data was killed over (history)

show == <<idx, valid_points, always, ever>>
points == <<is_valid, wanted>>
programs == <<at, byte, clearing, seconds, Running, show, points, abandoned>>
monitorVars == <<vars, programs>>

----------------------------------------------------------------------------
Points == 0 .. MAX_NUM_POINTS - 1

\* ShmAddr is what connect_shm returned.
Connected(p) == ret[p] # NULL /\ attached[p][ret[p]] # NULL

Segment(p) == attached[p][ret[p]]

Valid(id) == {i \in Points : is_valid[id][i]}

Showing == at[monitor] \in {"count", "list"}

\* What a show_points under way could have seen up to now
Witness ==
  LET now == {i \in Points : is_valid'[Segment(monitor)][i]}
  IN IF Showing THEN always' = always \cap now /\ ever' = ever \cup now
                ELSE UNCHANGED <<always, ever>>

Write(id, i, b) ==
  /\ is_valid' = [is_valid EXCEPT ![id][i] = b]
  /\ Witness

Moves(p, from, to) == at[p] = from /\ at' = [at EXCEPT ![p] = to]

----------------------------------------------------------------------------
(* connect_shm.  push_list_item, called with the segment as the value, copies *)
(* its first sizeof(shm_ptr) bytes onto themselves: the first point's flag is *)
(* read and written back.  The list itself is the process's own, so these two *)
(* steps may follow the push.                                                *)

ConnectShm(p) ==
  /\ Moves(p, "start", "connect")
  /\ Shmget(p) \/ ShmgetFails(p)
  /\ UNCHANGED <<byte, clearing, seconds, Running, show, points, abandoned>>

CopyRead(p) ==
  /\ pc[p] = "idle" /\ Connected(p)
  /\ Moves(p, "connect", "copy")
  /\ byte' = [byte EXCEPT ![p] = is_valid[Segment(p)][0]]
  /\ UNCHANGED <<vars, clearing, seconds, Running, show, points, abandoned>>

CopyWrite(p) ==
  /\ Moves(p, "copy", IF p = monitor THEN "loop" ELSE "work")
  /\ Write(Segment(p), 0, byte[p])
  /\ byte' = [byte EXCEPT ![p] = FALSE]
  /\ UNCHANGED <<vars, clearing, seconds, Running, idx, valid_points, wanted, abandoned>>

\* connect_shm returned NULL: exit(1)
NotConnected(p) ==
  /\ pc[p] = "idle" /\ ~Connected(p)
  /\ Moves(p, "connect", "ended")
  /\ UNCHANGED <<vars, byte, clearing, seconds, Running, show, points, abandoned>>

----------------------------------------------------------------------------
(* install_data                                                             *)

Installs(i, b) ==
  /\ at[installer] = "work"
  /\ Write(Segment(installer), i, b)
  /\ wanted' = [wanted EXCEPT ![Segment(installer)][i] = b]

\* install_point and invalidate_point, by the worker
Install(i, b) ==
  /\ Installs(i, b)
  /\ UNCHANGED <<vars, at, byte, clearing, seconds, Running, idx, valid_points, abandoned>>

\* memset of clear_and_restart, in the manager thread
Clear ==
  /\ Installs(clearing, FALSE)
  /\ clearing' = (clearing + 1) % MAX_NUM_POINTS
  /\ UNCHANGED <<vars, at, byte, seconds, Running, idx, valid_points, abandoned>>

\* main() destroys the segment when the work is done or a signal ends it.
DestroySegment ==
  /\ Moves(installer, "work", "destroy")
  /\ DestroyShm(installer)
  /\ clearing' = 0
  /\ UNCHANGED <<byte, seconds, Running, show, points, abandoned>>

Destroyed ==
  /\ pc[installer] = "idle"
  /\ Moves(installer, "destroy", "ended")
  /\ UNCHANGED <<vars, byte, clearing, seconds, Running, show, points, abandoned>>

----------------------------------------------------------------------------
(* monitor_shm                                                              *)

\* signal_exit, at any time
SignalExit ==
  /\ at[monitor] \notin {"start", "ended"}
  /\ Running' = FALSE
  /\ UNCHANGED <<vars, at, byte, clearing, seconds, show, points, abandoned>>

\* mutant: one second more
MoreSecondsByOne == seconds >= 0 /\ Running

MoreSeconds == seconds > 0 /\ Running

\* show_points begins.
LoopHead ==
  /\ MoreSeconds
  /\ Moves(monitor, "loop", "count")
  /\ idx' = 0 /\ valid_points' = 0
  /\ always' = Valid(Segment(monitor)) /\ ever' = always'
  /\ UNCHANGED <<vars, byte, clearing, seconds, Running, points, abandoned>>

\* mutant: the last point is left out
MoreButLastPoint == idx < MAX_NUM_POINTS - 1

MorePoints == idx < MAX_NUM_POINTS

Reads == is_valid[Segment(monitor)][idx]

\* The first loop: the valid points are counted (and their sums taken).
Count ==
  /\ at[monitor] = "count" /\ MorePoints
  /\ idx' = idx + 1
  /\ valid_points' = IF Reads THEN valid_points + 1 ELSE valid_points
  /\ UNCHANGED <<vars, at, byte, clearing, seconds, Running, always, ever, points, abandoned>>

\* The statistics are logged.
Stats ==
  /\ ~MorePoints
  /\ Moves(monitor, "count", IF valid_points > 0 THEN "list" ELSE "sleep")
  /\ idx' = 0
  /\ UNCHANGED <<vars, byte, clearing, seconds, Running, valid_points, always, ever, points,
                 abandoned>>

\* The second loop: each point that is valid now is logged, and counted down.
ListPoints ==
  /\ at[monitor] = "list" /\ MorePoints
  /\ idx' = idx + 1
  /\ valid_points' = IF Reads THEN valid_points - 1 ELSE valid_points
  /\ UNCHANGED <<vars, at, byte, clearing, seconds, Running, always, ever, points, abandoned>>

Listed ==
  /\ ~MorePoints
  /\ Moves(monitor, "list", "sleep")
  /\ UNCHANGED <<vars, byte, clearing, seconds, Running, show, points, abandoned>>

\* mutant: the second is not counted
SleepForEver ==
  /\ Moves(monitor, "sleep", "loop")
  /\ UNCHANGED <<seconds, idx, valid_points, always, ever>>
  /\ UNCHANGED <<vars, byte, clearing, Running, points, abandoned>>

\* sleep(1), which a signal ends early
Sleep ==
  /\ Moves(monitor, "sleep", "loop")
  /\ seconds' = seconds - 1
  /\ idx' = 0 /\ valid_points' = 0 /\ always' = {} /\ ever' = {}
  /\ UNCHANGED <<vars, byte, clearing, Running, points, abandoned>>

\* mutant: the monitor destroys the segment
MonitorDestroys ==
  /\ ~MoreSeconds
  /\ Moves(monitor, "loop", "detach")
  /\ DestroyShm(monitor)
  /\ UNCHANGED <<byte, clearing, seconds, Running, show, points, abandoned>>

DetachSegment ==
  /\ ~MoreSeconds
  /\ Moves(monitor, "loop", "detach")
  /\ DetachShm(monitor, ret[monitor])
  /\ UNCHANGED <<byte, clearing, seconds, Running, show, points, abandoned>>

Detached ==
  /\ pc[monitor] = "idle"
  /\ Moves(monitor, "detach", "ended")
  /\ UNCHANGED <<vars, byte, clearing, seconds, Running, show, points, abandoned>>

----------------------------------------------------------------------------
\* A program ends, because it is done or because it is killed, and is started
\* again.
Restart(p) ==
  /\ Exit(p)
  /\ at' = [at EXCEPT ![p] = "start"]
  /\ byte' = [byte EXCEPT ![p] = FALSE]
  /\ IF p = installer
     THEN /\ abandoned' = IF at[p] = "work" \/ (at[p] = "destroy" /\ pc[p] # "idle")
                          THEN abandoned \cup {segment} ELSE abandoned
          /\ clearing' = 0
          /\ UNCHANGED <<seconds, Running, show>>
     ELSE /\ seconds' = Seconds /\ Running' = TRUE
          /\ idx' = 0 /\ valid_points' = 0 /\ always' = {} /\ ever' = {}
          /\ UNCHANGED <<clearing, abandoned>>
  /\ UNCHANGED points

MonitorInit ==
  /\ Init
  /\ at = [p \in Procs |-> "start"]
  /\ is_valid = [id \in Ids |-> [i \in Points |-> FALSE]]
  /\ wanted = is_valid
  /\ byte = [p \in Procs |-> FALSE]
  /\ clearing = 0
  /\ seconds = Seconds
  /\ Running = TRUE
  /\ idx = 0 /\ valid_points = 0 /\ always = {} /\ ever = {}
  /\ abandoned = {}

\* A step inside shared_mem.c
InLibrary(p) == Inside(p) /\ UNCHANGED programs

MonitorStep ==
  \/ InLibrary(monitor) \/ CopyRead(monitor) \/ CopyWrite(monitor) \/ NotConnected(monitor)
  \/ LoopHead \/ Count \/ Stats \/ ListPoints \/ Listed \/ Sleep \/ DetachSegment \/ Detached

InstallerStep ==
  \/ InLibrary(installer) \/ CopyRead(installer) \/ CopyWrite(installer)
  \/ NotConnected(installer) \/ Clear \/ DestroySegment \/ Destroyed
  \/ \E i \in Points, b \in BOOLEAN : Install(i, b)

MonitorNext ==
  \/ MonitorStep \/ InstallerStep \/ SignalExit
  \/ \E p \in Procs : ConnectShm(p) \/ Restart(p)

MonitorSpec == MonitorInit /\ [][MonitorNext]_monitorVars

\* The scheduler runs the monitor, and sleep(1) ends.
MonitorFairSpec == MonitorSpec /\ WF_monitorVars(MonitorStep)

----------------------------------------------------------------------------
(* Properties                                                               *)

\* The values the variables take.
MonitorTypeOK ==
  /\ at \in [Procs -> {"start", "connect", "copy", "work", "destroy", "loop", "count", "list",
                       "sleep", "detach", "ended"}]
  /\ is_valid \in [Ids -> [Points -> BOOLEAN]] /\ wanted \in [Ids -> [Points -> BOOLEAN]]
  /\ byte \in [Procs -> BOOLEAN] /\ clearing \in Points
  /\ seconds \in 0 .. Seconds /\ Running \in BOOLEAN
  /\ idx \in 0 .. MAX_NUM_POINTS /\ valid_points \in 1 - MAX_NUM_POINTS .. MAX_NUM_POINTS
  /\ always \subseteq Points /\ ever \subseteq Points /\ abandoned \subseteq Ids \cup {NULL}

\* REQ_monitor_3: show_points reads without a lock what another process writes.
\* Its count is at least that of the points valid all along, and at most that
\* of the points valid at some time, since it began; and when no point changed
\* it lists as many as it counted.
CountIsPlausible ==
  /\ at[monitor] = "count" /\ ~MorePoints
       => valid_points \in Cardinality(always) .. Cardinality(ever)
  /\ at[monitor] = "list" /\ ~MorePoints /\ always = ever => valid_points = 0

\* The monitor "shall detach (but not destroy)": while install_data works, the
\* segment it writes is the one that a program that connects gets, whatever
\* monitors did before.
WorkIsVisible == at[installer] = "work" => Segment(installer) = segment

\* install_data does not clear the points when it starts; it need not, unless
\* one was killed before it: a segment that nobody was killed over holds no
\* point when the next install_data has connected to it, monitors or not.
StartsClean ==
  [][at[installer] = "connect" /\ at'[installer] = "copy"
       => Valid(Segment(installer)) = {} \/ Segment(installer) \in abandoned]_monitorVars

\* REQ_monitor_2, REQ_monitor_4: a monitor that is connected ends, after its
\* seconds or a signal, and is then attached to nothing.
MonitorDetaches ==
  at[monitor] = "loop" ~> \A a \in Addrs : attached[monitor][a] = NULL

\* "Write the data to the shared memory": what install_data last made of a point
\* stays.  The code does not keep this (its run ends in a counterexample): a
\* monitor that connects writes the first flag back as it was before.
InstalledStays == \A id \in Ids : is_valid[id] = wanted[id]
=============================================================================
