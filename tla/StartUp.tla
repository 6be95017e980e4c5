------------------------------- MODULE StartUp ------------------------------
(***************************************************************************)
(* The life of one gateway's process: it reads its configuration, a master *)
(* also the map file, opens its sessions, starts the receive thread,       *)
(* configures the GPIO and starts the other threads (main.cpp,             *)
(* MyRepeater.cpp, Monitor_Interface.cpp, GPIO_App.cpp, Myrtp.cpp), saves  *)
(* every map it is given as a text in /opt/map (MFile.cpp) and gives every *)
(* new session the next port numbers.  It may die at any moment and is     *)
(* started again.                                                          *)
(*                                                                         *)
(* The text of the map is a sequence of fields, an address and a time for  *)
(* each member: the brackets, braces and commas between them all separate, *)
(* so AnalysisMap finds the same fields whichever of them it meets.        *)
(* Lengths count fields instead of bytes.                                  *)
(*                                                                         *)
(* An operator named X_Y is the operator X with a plausible mistake Y.     *)
(***************************************************************************)
EXTENDS Integers, Sequences, FiniteSets

CONSTANTS
  Members,       \* the gateways that may be in the map
  Self,          \* the address of this one when it is a slave
  Master,        \* the address of the master
  Times,         \* the times that may be noted for a member
  Cut,           \* what is left of a field that was cut off
  BUF,           \* the fields of a text that fit its buffers
  PORTS,         \* how many port numbers there are
  STEP,          \* how far the ports of two sessions lie apart
  BASE,          \* the port of the first session
  MASTER_PORT,   \* the port of the session of a slave to its master
  RECV_PORT,     \* the port all voice is received on
  CONTROL_PORT,  \* the port of the protocol
  LAP,           \* how many sessions get ports that are certainly free
  MaxStarts,     \* bound: how often the process is started
  MaxSessions    \* bound: the sessions a process makes

\* A session takes two ports, for RTP and for RTCP.
Uses(port) == {port, port + 1}

\* The port of the k-th session of a process, counted from 0.
PortAt(k) == (BASE + STEP * k) % PORTS

\* Port 0 would mean any port.
Reserved == {0, CONTROL_PORT} \cup Uses(MASTER_PORT) \cup Uses(RECV_PORT)

ASSUME StartUpAssumption ==
  /\ IsFiniteSet(Members)
  /\ Self \in Members /\ Master \notin Members
  /\ Cut \notin Times
  /\ BUF \in Nat
  /\ PORTS \in Nat \ {0} /\ STEP \in Nat /\ BASE \in 0..(PORTS - 1)
  /\ MaxStarts \in Nat /\ MaxSessions \in Nat

ASSUME PortAssumption ==
  /\ MASTER_PORT \in Nat /\ RECV_PORT \in Nat /\ CONTROL_PORT \in Nat
  /\ Uses(MASTER_PORT) \cap (Uses(RECV_PORT) \cup {CONTROL_PORT}) = {}
  /\ CONTROL_PORT \notin Uses(RECV_PORT)
  /\ LAP \in Nat
  /\ \A i \in 0..(LAP - 1) : Uses(PortAt(i)) \cap Reserved = {}
  /\ \A i, j \in 0..(LAP - 1) : i # j => Uses(PortAt(i)) \cap Uses(PortAt(j)) = {}

VARIABLES
  phase,             \* where main is in Start
  exit,              \* why the last process ended
  basedevice_ID,     \* whether it is the master
  mapOpen,           \* whether /opt/map is open
  gpio_config_flag,  \* whether config_GPIO has run
  receiving,         \* whether the receive thread runs
  tasks,             \* whether the threads of repeater_task_start run
  job,               \* what is being done about a new map
  newmap,            \* that map
  todo,              \* its members that still need a session
  sessionmap,        \* the port of the session of each peer
  base_port,         \* the port of the next session
  created,           \* how many sessions took their port from it
  text,              \* the fields in /opt/map
  saved,             \* the map that was saved last, as long as the file is known
  torn,              \* whether the process died while it was saved
  blackout,          \* whether the power failed since it was saved
  starts             \* counter of MaxStarts

bootVars    == <<phase, exit, basedevice_ID, mapOpen, gpio_config_flag, receiving, tasks>>
jobVars     == <<job, newmap, todo>>
sessionVars == <<sessionmap, base_port, created>>
fileVars    == <<text, saved, torn, blackout>>
vars == <<bootVars, jobVars, sessionVars, fileVars, starts>>

Maps == UNION {[D -> Times \cup {Cut}] : D \in SUBSET Members}
Empty == [x \in {} |-> Cut]

\* Port numbers never leave 16 bits, sessions belong to members or the master,
\* and only members that are in the map wait for one.
TypeOK ==
  /\ phase \in {"off", "connect", "bind", "config", "tasks", "run"}
  /\ exit \in {"none", "gpio", "port", "overflow", "killed"}
  /\ basedevice_ID \in BOOLEAN /\ mapOpen \in BOOLEAN
  /\ gpio_config_flag \in {0, 1}
  /\ receiving \in BOOLEAN /\ tasks \in BOOLEAN
  /\ job \in {"none", "write", "sessions"}
  /\ newmap \in Maps /\ saved \in Maps
  /\ todo \subseteq DOMAIN newmap
  /\ DOMAIN sessionmap \subseteq Members \cup {Master}
  /\ \A p \in DOMAIN sessionmap : sessionmap[p] \in Nat
  /\ base_port \in 0..(PORTS - 1)
  /\ created \in 0..MaxSessions
  /\ text \in Seq(Members \cup Times \cup {Cut})
  /\ torn \in BOOLEAN /\ blackout \in BOOLEAN
  /\ starts \in 0..MaxStarts

\* No process has run yet, and the map file is empty.
Init ==
  /\ phase = "off" /\ exit = "none"
  /\ basedevice_ID = FALSE /\ mapOpen = FALSE
  /\ gpio_config_flag = 0
  /\ receiving = FALSE /\ tasks = FALSE
  /\ job = "none" /\ newmap = Empty /\ todo = {}
  /\ sessionmap = Empty /\ base_port = BASE /\ created = 0
  /\ text = <<>> /\ saved = Empty /\ torn = FALSE /\ blackout = FALSE
  /\ starts = 0
-----------------------------------------------------------------------------
(***************************************************************************)
(* The text of a map.                                                      *)
(***************************************************************************)

\* The members in the order of the map, which nothing here depends on.
Listed(S) ==
  CHOOSE s \in [1..Cardinality(S) -> S] : \A x \in S : \E i \in DOMAIN s : s[i] = x

\* What SaveMap writes: for each member its address and its time.
Text(m) ==
  LET it == Listed(DOMAIN m)
  IN  [k \in 1..(2 * Cardinality(DOMAIN m)) |->
         IF k % 2 = 1 THEN it[(k + 1) \div 2] ELSE m[it[k \div 2]]]

\* AnalysisMap takes the fields in pairs while there are two, and updateMap
\* enters each pair; no text names an address twice.
Pairs(t) == 1..(Len(t) \div 2)
Address(t, i) == t[2 * i - 1]
Time(t, i) == t[2 * i]
AnalysisMap(t) ==
  [p \in {Address(t, i) : i \in Pairs(t)} |->
     Time(t, CHOOSE i \in Pairs(t) : Address(t, i) = p)]

\* The first n fields of a text, and the same with the last of them cut off.
Beginning(t, n) == {SubSeq(t, 1, n)} \cup
  (IF n = 0 THEN {} ELSE {[SubSeq(t, 1, n) EXCEPT ![n] = Cut]})

\* GetMap reads no more than its buffer holds.
GetMap(t) ==
  IF Len(t) <= BUF THEN {AnalysisMap(t)} ELSE {AnalysisMap(b) : b \in Beginning(t, BUF)}

\* The buffer SaveMap builds the text in is as large.
Fits(m) == 2 * Cardinality(DOMAIN m) <= BUF
-----------------------------------------------------------------------------
(***************************************************************************)
(* The end of a process.                                                   *)
(***************************************************************************)

\* Its memory and its sockets go, the file stays.
Stops(cause) ==
  /\ phase' = "off" /\ exit' = cause
  /\ gpio_config_flag' = 0
  /\ receiving' = FALSE /\ tasks' = FALSE
  /\ job' = "none" /\ todo' = {}
  /\ sessionmap' = Empty /\ base_port' = BASE /\ created' = 0
  /\ UNCHANGED <<basedevice_ID, mapOpen, starts>>

\* Perhaps after the file was emptied and before the text was written.
Exits(cause) ==
  /\ Stops(cause)
  /\ torn' = (torn \/ job = "write")
  /\ newmap' = Empty
  /\ UNCHANGED <<text, saved, blackout>>

\* Stopped (module Shutdown), killed or crashed.
Killed ==
  /\ phase # "off"
  /\ Exits("killed")

\* The power fails.  The file is not opened for synchronous writing and nothing
\* is synced: the disk may hold the text, that of a map saved before, or a
\* beginning of either.  Which maps were saved before is left open.
Remains == UNION {UNION {Beginning(Text(m), n) : n \in 0..Len(Text(m))} : m \in Maps}
PowerFails ==
  /\ phase # "off"
  /\ Stops("killed")
  /\ text' \in Remains
  /\ torn' = TRUE /\ blackout' = TRUE
  /\ newmap' = Empty /\ saved' = Empty
-----------------------------------------------------------------------------
(***************************************************************************)
(* Sessions.                                                               *)
(***************************************************************************)

Own == IF basedevice_ID THEN Master ELSE Self

\* The ports this process has bound.
InUse ==
  (UNION {Uses(sessionmap[p]) : p \in DOMAIN sessionmap})
    \cup (IF receiving THEN {CONTROL_PORT} ELSE {})
    \cup (IF phase \in {"tasks", "run"} THEN Uses(RECV_PORT) ELSE {})

With(f, x, y) == [z \in DOMAIN f \cup {x} |-> IF z = x THEN y ELSE f[z]]

NeedSession(m) == DOMAIN m \ (DOMAIN sessionmap \cup {Own})

\* The counter has 16 bits.
NextPort_Wide(port) == port + STEP
NextPort_One(port) == (port + 1) % PORTS
NextPort(port) == (port + STEP) % PORTS

\* The next member in the map that has no session.  A port that is taken ends
\* the process (checkerror).
CreateSession ==
  /\ job = "sessions"
  /\ created < MaxSessions
  /\ \E p \in todo :
       \/ /\ Uses(base_port) \cap InUse # {}
          /\ Exits("port")
       \/ /\ Uses(base_port) \cap InUse = {}
          /\ sessionmap' = With(sessionmap, p, base_port)
          /\ base_port' = NextPort(base_port)
          /\ created' = created + 1
          /\ todo' = todo \ {p}
          /\ UNCHANGED <<bootVars, job, newmap, fileVars, starts>>

\* Then a slave's session to its master.
MasterSession ==
  /\ job = "sessions" /\ todo = {}
  /\ ~basedevice_ID
  /\ Master \notin DOMAIN sessionmap
  /\ \/ /\ Uses(MASTER_PORT) \cap InUse # {}
        /\ Exits("port")
     \/ /\ Uses(MASTER_PORT) \cap InUse = {}
        /\ sessionmap' = With(sessionmap, Master, MASTER_PORT)
        /\ UNCHANGED <<bootVars, jobVars, base_port, created, fileVars, starts>>

\* Then the sessions of peers that left: the loop goes on from the element it
\* erased, so of several only one is certain to go.
CloseSessions ==
  LET gone == DOMAIN sessionmap \ (DOMAIN newmap \cup {Master})
      open == DOMAIN sessionmap
  IN  /\ job = "sessions" /\ todo = {}
      /\ basedevice_ID \/ Master \in DOMAIN sessionmap
      /\ job' = "none"
      /\ IF Cardinality(DOMAIN newmap) < Cardinality(open)
         THEN \E d \in SUBSET gone :
                /\ d = {} <=> gone = {}
                /\ sessionmap' = [p \in open \ d |-> sessionmap[p]]
         ELSE UNCHANGED sessionmap
      /\ UNCHANGED <<bootVars, newmap, todo, base_port, created, fileVars, starts>>
-----------------------------------------------------------------------------
(***************************************************************************)
(* Start.                                                                  *)
(***************************************************************************)

\* What the configuration file says of isMaster: it cannot be opened, has no
\* such key, says false, or anything else.
Configs == {"noFile", "noKey", "false", "other"}
IsMaster(config) == config = "other"

\* Without the configuration file MFile::Start does not come to the map file.
OpensMap(config) == config # "noFile"

\* Monitor_Interface reads it before anything else.
ReadConfig(config) ==
  /\ phase = "off"
  /\ starts < MaxStarts
  /\ starts' = starts + 1
  /\ phase' = "connect" /\ exit' = "none"
  /\ basedevice_ID' = IsMaster(config)
  /\ mapOpen' = OpensMap(config)
  /\ UNCHANGED <<gpio_config_flag, receiving, tasks, jobVars, sessionVars, fileVars>>

\* Connect of the master: it goes on from the file.
MasterReadsMap_LaterSessions ==
  /\ phase = "connect" /\ basedevice_ID
  /\ phase' = "bind"
  /\ \E m \in GetMap(text) : newmap' = m
  /\ UNCHANGED <<exit, basedevice_ID, mapOpen, gpio_config_flag, receiving, tasks,
                 job, todo, sessionVars, fileVars, starts>>
MasterReadsMap ==
  /\ phase = "connect" /\ basedevice_ID
  /\ phase' = "bind"
  /\ \E m \in GetMap(text) :
       /\ newmap' = m
       /\ todo' = NeedSession(m)
       /\ job' = IF m = Empty THEN "none" ELSE "sessions"
  /\ UNCHANGED <<exit, basedevice_ID, mapOpen, gpio_config_flag, receiving, tasks,
                 sessionVars, fileVars, starts>>

\* Then of both: the socket of the protocol and its receive thread.
InitSocket == receiving' = TRUE

Connect ==
  /\ phase = (IF basedevice_ID THEN "bind" ELSE "connect")
  /\ job = "none"
  /\ phase' = "config"
  /\ InitSocket
  /\ UNCHANGED <<exit, basedevice_ID, mapOpen, gpio_config_flag, tasks, jobVars,
                 sessionVars, fileVars, starts>>

ConfigGpio == gpio_config_flag' = 1

\* The GPIO and the port for all voice.
ConfigHw ==
  /\ phase = "config"
  /\ \/ /\ Uses(RECV_PORT) \cap InUse # {}
        /\ Exits("port")
     \/ /\ Uses(RECV_PORT) \cap InUse = {}
        /\ ConfigGpio
        /\ phase' = "tasks"
        /\ UNCHANGED <<exit, basedevice_ID, mapOpen, receiving, tasks, jobVars,
                       sessionVars, fileVars, starts>>

\* At last the threads of the voice, the CD pin and the timer.
TaskStart ==
  /\ phase = "tasks"
  /\ phase' = "run"
  /\ tasks' = TRUE
  /\ UNCHANGED <<exit, basedevice_ID, mapOpen, gpio_config_flag, receiving, jobVars,
                 sessionVars, fileVars, starts>>
-----------------------------------------------------------------------------
(***************************************************************************)
(* The threads.                                                            *)
(***************************************************************************)

\* The receive thread, on a datagram about the channel, and the tasks use the
\* GPIO, which ends the process when it is not configured.  When it is, this
\* is module Channel.
UseGpio ==
  /\ tasks \/ (receiving /\ job = "none")
  /\ gpio_config_flag # 1
  /\ Exits("gpio")

\* SLAVEMAP, at a master its own map, at a slave one the master sent: SaveMap
\* builds the text, which may run over its buffer, and empties the file ...
SaveMap_NotEmptied(m) ==
  /\ receiving /\ job = "none"
  /\ basedevice_ID \/ Self \in DOMAIN m
  /\ newmap' = m
  /\ \/ /\ ~Fits(m)
        /\ Stops("overflow")
        /\ UNCHANGED fileVars
     \/ /\ todo' = NeedSession(m)
        /\ job' = IF m = Empty THEN "sessions" ELSE "write"
        /\ IF mapOpen THEN text' = text /\ saved' = m /\ torn' = FALSE /\ blackout' = FALSE
                      ELSE UNCHANGED fileVars
        /\ UNCHANGED <<bootVars, sessionVars, starts>>
SaveMap(m) ==
  /\ receiving /\ job = "none"
  /\ basedevice_ID \/ Self \in DOMAIN m
  /\ newmap' = m
  /\ \/ /\ ~Fits(m)
        /\ Stops("overflow")
        /\ UNCHANGED fileVars
     \/ /\ todo' = NeedSession(m)
        /\ job' = IF m = Empty THEN "sessions" ELSE "write"
        /\ IF mapOpen THEN text' = <<>> /\ saved' = m /\ torn' = FALSE /\ blackout' = FALSE
                      ELSE UNCHANGED fileVars
        /\ UNCHANGED <<bootVars, sessionVars, starts>>

\* What is left of the file behind the text that is written stays there.
WriteFrom0(t) == t \o SubSeq(text, Len(t) + 1, Len(text))

\* ... and writes the text; the sessions follow.
WriteMap ==
  /\ job = "write"
  /\ job' = "sessions"
  /\ text' = IF mapOpen THEN WriteFrom0(Text(newmap)) ELSE text
  /\ UNCHANGED <<bootVars, newmap, todo, sessionVars, saved, torn, blackout, starts>>
-----------------------------------------------------------------------------
Start ==
  \/ \E config \in Configs : ReadConfig(config)
  \/ MasterReadsMap \/ Connect \/ ConfigHw \/ TaskStart

OnSlaveMap == (\E m \in Maps : SaveMap(m)) \/ WriteMap

RtpSessionCreate == CreateSession \/ MasterSession \/ CloseSessions

Next == Start \/ UseGpio \/ OnSlaveMap \/ RtpSessionCreate \/ Killed \/ PowerFails

Spec == Init /\ [][Next]_vars
-----------------------------------------------------------------------------
\* The file holds what was saved, also when the process was killed or crashed
\* while it was: read back it never names a member that was not in the map that
\* was saved last, and a time that was noted for it or cut off; it is that map
\* when the process lived through the save and the text fits the buffers.  Only
\* a power failure may bring back an older map, until the next one is saved.
FileReadsBack ==
  ~blackout =>
    \A m \in GetMap(text) :
      /\ DOMAIN m \subseteq DOMAIN saved
      /\ \A p \in DOMAIN m : m[p] \in {saved[p], Cut}
      /\ ~torn /\ job # "write" /\ Fits(saved) => m = saved

\* A gateway does not stop by itself, but for three limits: a datagram about
\* the channel that comes before Start has configured the GPIO, a map too
\* large for the buffer of SaveMap, and more than LAP sessions since it was
\* started, when the counter of ports comes round to one that is taken.
StaysUp ==
  [][phase # "off" /\ phase' = "off" =>
       \/ exit' = "killed"
       \/ exit' = "gpio" /\ phase = "config" /\ ~tasks
       \/ exit' = "overflow" /\ ~Fits(newmap')
       \/ exit' = "port" /\ created >= LAP]_vars

\* A master that comes back from a file that was not torn sends its voice to
\* all its members before it hears from any of them.
Resumes ==
  [][Connect /\ basedevice_ID /\ ~torn /\ Fits(saved) => DOMAIN sessionmap = DOMAIN saved]_vars
=============================================================================
