----------------------------- MODULE Membership -----------------------------
(***************************************************************************)
(* Who is in the group: registration, heartbeats and the map (CMaster.cpp, *)
(* CSlave.cpp), the RTP session each gateway keeps per member              *)
(* (MyRepeater.cpp) and the map file the master restarts from (MFile.cpp). *)
(*                                                                         *)
(* Time passes in ticks of the 20 s between two heartbeats.  Slaves are    *)
(* not in phase, so an entry refreshed k ticks ago is between k-1 and k+1  *)
(* periods old: whether three ticks exceed the limit of 60 s is open.      *)
(*                                                                         *)
(* Left out: the heartbeats between slaves and the master's answer to one, *)
(* which only set a time nobody reads.                                     *)
(*                                                                         *)
(* An operator named X_Y is the operator X with a plausible mistake Y.     *)
(***************************************************************************)
EXTENDS Naturals, Sequences, FiniteSets

CONSTANTS
  Master,     \* the gateway the slaves are configured with
  Slaves,     \* the gateways that may register
  MaxCrash,   \* bound: how many times a gateway crashes, in all
  MaxLoss,    \* bound: how many datagrams the network loses, in all
  MasterDies  \* whether the master is among those that crash

ASSUME MembershipAssumption ==
  /\ Master \notin Slaves
  /\ IsFiniteSet(Slaves)
  /\ MaxCrash \in Nat
  /\ MaxLoss \in Nat
  /\ MasterDies \in BOOLEAN

Node == Slaves \cup {Master}

Old == 4        \* ticks after which an entry is certainly more than 60 s old
MayBeOld == 3   \* ticks after which it may be
Period == 3     \* ticks that MonitorAliveThread sleeps

VARIABLES
  up,           \* the gateways that run
  slavemap,     \* master: the members
  age,          \* master: ticks since the time noted for a member
  file,         \* master: the members in the map file
  fileAge,      \* master: ticks since the times in the map file
  isAlive,      \* master: a heartbeat came since MonitorAliveThread woke
  slept,        \* master: ticks MonitorAliveThread has slept
  recvThread,   \* master: where the receive thread is
  peer,         \* master: the sender it serves
  isHave,       \* master: that sender was in the map when the scan began
  todo,         \* master: the members the scan has not visited
  isRecvedmap,  \* slave: isRecvedmap
  isSendAlive,  \* slave: isSendAlive
  view,         \* slave: the members it was told
  aliveThread,  \* slave: where SendAliveThread is
  sessions,     \* the peers a gateway sends its voice to
  toMaster,     \* datagrams from each slave to the master
  toSlave,      \* maps from the master to each slave
  crashes,      \* counter of MaxCrash
  losses        \* counter of MaxLoss

mapVars    == <<slavemap, age, file, fileAge>>
monVars    == <<isAlive, slept>>
recvVars   == <<recvThread, peer, isHave, todo>>
slaveVars  == <<isRecvedmap, isSendAlive, view, aliveThread>>
netVars    == <<toMaster, toSlave>>
countVars  == <<crashes, losses>>
vars == <<up, mapVars, monVars, recvVars, slaveVars, sessions, netVars, countVars>>

MapType ==
  /\ slavemap \subseteq Slaves
  /\ file \subseteq Slaves
  /\ age \in [Slaves -> 0..Old]
  /\ fileAge \in [Slaves -> 0..Old]

MasterType ==
  /\ isAlive \in BOOLEAN
  /\ slept \in 0..Period
  /\ recvThread \in {"recv", "scan", "saveScan", "save", "send"}
  /\ peer \in Node
  /\ isHave \in BOOLEAN
  /\ todo \subseteq slavemap

SlaveType ==
  /\ isRecvedmap \in [Slaves -> BOOLEAN]
  /\ isSendAlive \in [Slaves -> BOOLEAN]
  /\ view \in [Slaves -> SUBSET Slaves]
  /\ aliveThread \in [Slaves -> {"sleep", "due", "register", "alive"}]

NetType ==
  /\ up \subseteq Node
  /\ sessions \in [Node -> SUBSET Node]
  /\ toMaster \in [Slaves -> Seq({"Register", "Alive"})]
  /\ toSlave \in [Slaves -> Seq(SUBSET Slaves)]
  /\ crashes \in 0..MaxCrash
  /\ losses \in 0..MaxLoss

\* Ages stay within the bound, and a scan only ever looks at entries that are
\* still in the map.
TypeOK == MapType /\ MasterType /\ SlaveType /\ NetType

\* The master runs, no slave does, and the map file is empty.
Init ==
  /\ up = {Master}
  /\ slavemap = {}
  /\ age = [s \in Slaves |-> 0]
  /\ file = {}
  /\ fileAge = [s \in Slaves |-> 0]
  /\ isAlive = FALSE
  /\ slept = 0
  /\ recvThread = "recv"
  /\ peer = Master
  /\ isHave = FALSE
  /\ todo = {}
  /\ isRecvedmap = [s \in Slaves |-> FALSE]
  /\ isSendAlive = [s \in Slaves |-> FALSE]
  /\ view = [s \in Slaves |-> {}]
  /\ aliveThread = [s \in Slaves |-> "sleep"]
  /\ sessions = [n \in Node |-> {}]
  /\ toMaster = [s \in Slaves |-> <<>>]
  /\ toSlave = [s \in Slaves |-> <<>>]
  /\ crashes = 0
  /\ losses = 0
-----------------------------------------------------------------------------
(***************************************************************************)
(* The map, the file and the sessions.                                     *)
(***************************************************************************)

\* rtp_session_create at gateway n: the sessions it may end up with.  New
\* members get one, a slave keeps one to its master, and when there are more
\* sessions than members those outside the map are closed.  The loop goes on
\* from the element it erased, so of several only one is certain to go.
RtpSessionCreate_NoMaster(n, members) ==
  LET new == sessions[n] \cup (members \ {n}) \cup (IF n \in Slaves THEN {Master} ELSE {})
      gone == new \ members
  IN  IF Cardinality(members) < Cardinality(new)
      THEN {new \ d : d \in {x \in SUBSET gone : x = {} <=> gone = {}}}
      ELSE {new}
RtpSessionCreate(n, members) ==
  LET new == sessions[n] \cup (members \ {n}) \cup (IF n \in Slaves THEN {Master} ELSE {})
      gone == new \ (members \cup {Master})
  IN  IF Cardinality(members) < Cardinality(new)
      THEN {new \ d : d \in {x \in SUBSET gone : x = {} <=> gone = {}}}
      ELSE {new}

\* SaveMap writes the members with the times noted in memory.
SaveMap ==
  /\ file' = slavemap
  /\ fileAge' = age

\* SLAVEMAP at the master: the file and the sessions follow the map.
OnSlaveMap ==
  /\ SaveMap
  /\ \E ss \in RtpSessionCreate(Master, slavemap) : sessions' = [sessions EXCEPT ![Master] = ss]

\* Sendmap2Slave, with the members left in the map.  Nobody receives for a
\* gateway that does not run.
Sendmap2Slave_Others(members) ==
  toSlave' = [s \in Slaves |-> IF s \in members \cap up THEN Append(toSlave[s], members \ {s})
                                                        ELSE toSlave[s]]
Sendmap2Slave(members) ==
  toSlave' = [s \in Slaves |-> IF s \in members \cap up THEN Append(toSlave[s], members)
                                                        ELSE toSlave[s]]

\* The entry of s with the present time, new or refreshed.
Note(s) ==
  /\ slavemap' = slavemap \cup {s}
  /\ age' = [age EXCEPT ![s] = 0]
-----------------------------------------------------------------------------
(***************************************************************************)
(* The master's receive thread.                                            *)
(***************************************************************************)

MasterReceives(s, m) ==
  /\ Master \in up
  /\ recvThread = "recv"
  /\ toMaster[s] # <<>>
  /\ Head(toMaster[s]) = m
  /\ toMaster' = [toMaster EXCEPT ![s] = Tail(@)]
  /\ peer' = s

\* RegisterOpcode: Sendmap2Repeater enters the sender, whoever it was.
Register(s) ==
  /\ MasterReceives(s, "Register")
  /\ Note(s)
  /\ recvThread' = "save"
  /\ UNCHANGED <<up, file, fileAge, monVars, isHave, todo, slaveVars, sessions,
                 toSlave, countVars>>

\* The callback after a member was entered, still under m_mapLocker ...
SaveNew ==
  /\ Master \in up
  /\ recvThread = "save"
  /\ OnSlaveMap
  /\ recvThread' = "send"
  /\ UNCHANGED <<up, slavemap, age, monVars, peer, isHave, todo, slaveVars,
                 netVars, countVars>>

\* ... and the map to every slave, after m_mapLocker was released.
SendNew ==
  /\ Master \in up
  /\ recvThread = "send"
  /\ Sendmap2Slave(slavemap)
  /\ recvThread' = "recv"
  /\ peer' = Master
  /\ UNCHANGED <<up, mapVars, monVars, isHave, todo, slaveVars, sessions, toMaster, countVars>>

\* AliveOpcode: Updatemap begins to go through the map.
Alive(s) ==
  /\ MasterReceives(s, "Alive")
  /\ isAlive' = TRUE
  /\ isHave' = (s \in slavemap)
  /\ todo' = slavemap
  /\ recvThread' = "scan"
  /\ UNCHANGED <<up, mapVars, slept, slaveVars, sessions, toSlave, countVars>>

\* An entry that is too old goes, even the sender's own, and the others hear
\* of it.
DropOld_SameIterator(x) ==
  /\ Master \in up
  /\ recvThread = "scan"
  /\ x \in todo
  /\ age[x] >= MayBeOld
  /\ slavemap' = slavemap \ {x}
  /\ age' = [age EXCEPT ![x] = 0]
  /\ Sendmap2Slave(slavemap \ {x})
  /\ recvThread' = "saveScan"
  /\ UNCHANGED <<up, file, fileAge, monVars, peer, isHave, todo, slaveVars, sessions,
                 toMaster, countVars>>
DropOld_Silent(x) ==
  /\ Master \in up
  /\ recvThread = "scan"
  /\ x \in todo
  /\ age[x] >= MayBeOld
  /\ todo' = todo \ {x}
  /\ slavemap' = slavemap \ {x}
  /\ age' = [age EXCEPT ![x] = 0]
  /\ recvThread' = "saveScan"
  /\ UNCHANGED <<up, file, fileAge, monVars, peer, isHave, slaveVars, sessions,
                 netVars, countVars>>
DropOld(x) ==
  /\ Master \in up
  /\ recvThread = "scan"
  /\ x \in todo
  /\ age[x] >= MayBeOld
  /\ todo' = todo \ {x}
  /\ slavemap' = slavemap \ {x}
  /\ age' = [age EXCEPT ![x] = 0]
  /\ Sendmap2Slave(slavemap \ {x})
  /\ recvThread' = "saveScan"
  /\ UNCHANGED <<up, file, fileAge, monVars, peer, isHave, slaveVars, sessions,
                 toMaster, countVars>>

SaveOld_NoCallback ==
  /\ Master \in up
  /\ recvThread = "saveScan"
  /\ recvThread' = "scan"
  /\ UNCHANGED <<up, mapVars, sessions, monVars, peer, isHave, todo, slaveVars,
                 netVars, countVars>>
SaveOld ==
  /\ Master \in up
  /\ recvThread = "saveScan"
  /\ OnSlaveMap
  /\ recvThread' = "scan"
  /\ UNCHANGED <<up, slavemap, age, monVars, peer, isHave, todo, slaveVars,
                 netVars, countVars>>

\* An entry that is not too old stays; the sender's own is refreshed.
Keep_RefreshAll(x) ==
  /\ Master \in up
  /\ recvThread = "scan"
  /\ x \in todo
  /\ age[x] < Old
  /\ todo' = todo \ {x}
  /\ age' = [age EXCEPT ![x] = 0]
  /\ UNCHANGED <<up, slavemap, file, fileAge, monVars, recvThread, peer, isHave,
                 slaveVars, sessions, netVars, countVars>>
Keep(x) ==
  /\ Master \in up
  /\ recvThread = "scan"
  /\ x \in todo
  /\ age[x] < Old
  /\ todo' = todo \ {x}
  /\ age' = IF x = peer THEN [age EXCEPT ![x] = 0] ELSE age
  /\ UNCHANGED <<up, slavemap, file, fileAge, monVars, recvThread, peer, isHave,
                 slaveVars, sessions, netVars, countVars>>

\* The sender is entered when the scan did not meet it or left nobody.
IsNew_EmptyOnly == slavemap = {}
IsNew == ~isHave \/ slavemap = {}

EndScan ==
  /\ Master \in up
  /\ recvThread = "scan"
  /\ todo = {}
  /\ IF IsNew
     THEN Note(peer) /\ recvThread' = "save" /\ UNCHANGED peer
     ELSE recvThread' = "recv" /\ peer' = Master /\ UNCHANGED <<slavemap, age>>
  /\ UNCHANGED <<up, file, fileAge, monVars, isHave, todo, slaveVars, sessions,
                 netVars, countVars>>
-----------------------------------------------------------------------------
(***************************************************************************)
(* MonitorAliveThread: a minute without any heartbeat empties the map.     *)
(***************************************************************************)

\* It needs m_mapLocker, which the receive thread holds in a scan or a save.
MonitorMayRun == Master \in up /\ slept = Period /\ recvThread \in {"recv", "send"}

MonitorAlive ==
  /\ MonitorMayRun
  /\ slept' = 0
  /\ isAlive' = FALSE
  /\ IF isAlive
     THEN UNCHANGED <<mapVars, sessions>>
     ELSE /\ slavemap' = {}
          /\ age' = [s \in Slaves |-> 0]
          /\ file' = {}
          /\ fileAge' = [s \in Slaves |-> 0]
          /\ \E ss \in RtpSessionCreate(Master, {}) :
               sessions' = [sessions EXCEPT ![Master] = ss]
  /\ UNCHANGED <<up, recvVars, slaveVars, netVars, countVars>>
-----------------------------------------------------------------------------
(***************************************************************************)
(* A slave.                                                                *)
(***************************************************************************)

\* A datagram to the master, which gets it only while it runs.
Send2Master(s, m) ==
  toMaster' = IF Master \in up THEN [toMaster EXCEPT ![s] = Append(@, m)] ELSE toMaster

\* SendAliveThread wakes and looks whether it ever got a map.
AliveWake(s) ==
  /\ s \in up
  /\ aliveThread[s] = "due"
  /\ aliveThread' = [aliveThread EXCEPT ![s] = IF isRecvedmap[s] THEN "alive" ELSE "register"]
  /\ UNCHANGED <<up, mapVars, monVars, recvVars, isRecvedmap, isSendAlive, view,
                 sessions, netVars, countVars>>

\* SendRegister2Master clears isRecvedmap, even if a map came meanwhile.
SendRegister2Master(s) ==
  /\ s \in up
  /\ aliveThread[s] = "register"
  /\ aliveThread' = [aliveThread EXCEPT ![s] = "alive"]
  /\ isRecvedmap' = [isRecvedmap EXCEPT ![s] = FALSE]
  /\ Send2Master(s, "Register")
  /\ UNCHANGED <<up, mapVars, monVars, recvVars, isSendAlive, view, sessions,
                 toSlave, countVars>>

\* The heartbeat of a slave that has joined.
HasJoined(s) == isSendAlive[s]

SendAlive2Master(s) ==
  /\ s \in up
  /\ aliveThread[s] = "alive"
  /\ aliveThread' = [aliveThread EXCEPT ![s] = "sleep"]
  /\ IF HasJoined(s) THEN Send2Master(s, "Alive") ELSE UNCHANGED toMaster
  /\ UNCHANGED <<up, mapVars, monVars, recvVars, isRecvedmap, isSendAlive, view,
                 sessions, toSlave, countVars>>

\* mapOpcode: the map replaces the one the slave had.
ReceiveMap(s) ==
  /\ s \in up
  /\ toSlave[s] # <<>>
  /\ toSlave' = [toSlave EXCEPT ![s] = Tail(@)]
  /\ isRecvedmap' = [isRecvedmap EXCEPT ![s] = TRUE]
  /\ isSendAlive' = [isSendAlive EXCEPT ![s] = TRUE]
  /\ view' = [view EXCEPT ![s] = Head(toSlave[s])]
  /\ \E ss \in RtpSessionCreate(s, Head(toSlave[s])) : sessions' = [sessions EXCEPT ![s] = ss]
  /\ UNCHANGED <<up, mapVars, monVars, recvVars, aliveThread, toMaster, countVars>>
-----------------------------------------------------------------------------
(***************************************************************************)
(* The environment: time, the network, crashes.                            *)
(***************************************************************************)

\* All that takes less than seconds has happened.
Settled ==
  /\ Master \in up => recvThread = "recv" /\ slept < Period
  /\ \A s \in Slaves : toMaster[s] = <<>> /\ toSlave[s] = <<>>
  /\ \A s \in up \cap Slaves : aliveThread[s] = "sleep"

Older(members, f) == [s \in Slaves |-> IF s \in members /\ f[s] < Old THEN f[s] + 1 ELSE f[s]]

\* Twenty seconds pass.
Tick ==
  /\ Settled
  /\ age' = Older(slavemap, age)
  /\ fileAge' = Older(file, fileAge)
  /\ slept' = IF Master \in up THEN slept + 1 ELSE slept
  /\ aliveThread' = [s \in Slaves |-> IF s \in up THEN "due" ELSE "sleep"]
  /\ UNCHANGED <<up, slavemap, file, isAlive, recvVars, isRecvedmap, isSendAlive, view,
                 sessions, netVars, countVars>>

\* The network loses the oldest datagram of a link.
Lose(s) ==
  /\ losses < MaxLoss
  /\ losses' = losses + 1
  /\ \/ /\ toMaster[s] # <<>>
        /\ toMaster' = [toMaster EXCEPT ![s] = Tail(@)]
        /\ UNCHANGED toSlave
     \/ /\ toSlave[s] # <<>>
        /\ toSlave' = [toSlave EXCEPT ![s] = Tail(@)]
        /\ UNCHANGED toMaster
  /\ UNCHANGED <<up, mapVars, monVars, recvVars, slaveVars, sessions, crashes>>

\* Power of a slave: its memory starts empty, and its alive thread at once.
SlaveStarts(s) ==
  /\ s \in Slaves \ up
  /\ up' = up \cup {s}
  /\ aliveThread' = [aliveThread EXCEPT ![s] = "due"]
  /\ UNCHANGED <<mapVars, monVars, recvVars, isRecvedmap, isSendAlive, view,
                 sessions, netVars, countVars>>

SlaveCrashes(s) ==
  /\ s \in Slaves \cap up
  /\ crashes < MaxCrash
  /\ crashes' = crashes + 1
  /\ up' = up \ {s}
  /\ isRecvedmap' = [isRecvedmap EXCEPT ![s] = FALSE]
  /\ isSendAlive' = [isSendAlive EXCEPT ![s] = FALSE]
  /\ view' = [view EXCEPT ![s] = {}]
  /\ aliveThread' = [aliveThread EXCEPT ![s] = "sleep"]
  /\ sessions' = [sessions EXCEPT ![s] = {}]
  /\ toSlave' = [toSlave EXCEPT ![s] = <<>>]
  /\ UNCHANGED <<mapVars, monVars, recvVars, toMaster, losses>>

\* SaveMap truncates the file before it writes: a crash in a save may leave
\* nothing.
MasterCrashes ==
  /\ MasterDies
  /\ Master \in up
  /\ crashes < MaxCrash
  /\ crashes' = crashes + 1
  /\ up' = up \ {Master}
  /\ \/ UNCHANGED <<file, fileAge>>
     \/ /\ recvThread \in {"save", "saveScan"}
        /\ file' = {}
        /\ fileAge' = [s \in Slaves |-> 0]
  /\ slavemap' = {}
  /\ age' = [s \in Slaves |-> 0]
  /\ isAlive' = FALSE
  /\ slept' = 0
  /\ recvThread' = "recv"
  /\ peer' = Master
  /\ isHave' = FALSE
  /\ todo' = {}
  /\ sessions' = [sessions EXCEPT ![Master] = {}]
  /\ toMaster' = [s \in Slaves |-> <<>>]
  /\ UNCHANGED <<slaveVars, toSlave, losses>>

\* MyRepeater::Connect: the master goes on from the file.
MasterStarts ==
  /\ Master \notin up
  /\ up' = up \cup {Master}
  /\ slavemap' = file
  /\ age' = fileAge
  /\ \E ss \in RtpSessionCreate(Master, file) : sessions' = [sessions EXCEPT ![Master] = ss]
  /\ UNCHANGED <<file, fileAge, monVars, recvVars, slaveVars, netVars, countVars>>
-----------------------------------------------------------------------------
MasterRecvThread ==
  \/ \E s \in Slaves : Register(s) \/ Alive(s) \/ DropOld(s) \/ Keep(s)
  \/ SaveNew \/ SendNew \/ SaveOld \/ EndScan

SendAliveThread(s) == AliveWake(s) \/ SendRegister2Master(s) \/ SendAlive2Master(s)

Next ==
  \/ MasterRecvThread \/ MonitorAlive
  \/ \E s \in Slaves : SendAliveThread(s) \/ ReceiveMap(s)
  \/ Tick
  \/ \E s \in Slaves : Lose(s) \/ SlaveStarts(s) \/ SlaveCrashes(s)
  \/ MasterCrashes \/ MasterStarts

Spec == Init /\ [][Next]_vars

\* The threads run and time passes; nobody has to switch a gateway on or off.
FairSpec ==
  /\ Spec
  /\ WF_vars(MasterRecvThread) /\ WF_vars(MonitorAlive) /\ WF_vars(Tick)
  /\ \A s \in Slaves : WF_vars(SendAliveThread(s)) /\ WF_vars(ReceiveMap(s))
-----------------------------------------------------------------------------
(***************************************************************************)
(* Safety.                                                                 *)
(***************************************************************************)

\* The voice of the master reaches every member, that of a slave every member
\* it was told of and the master: RtpSessionCreate never closes a session it
\* should keep, in whatever order members come and go.
SessionsReach ==
  /\ Master \in up /\ recvThread \in {"recv", "scan", "send"} => slavemap \subseteq sessions[Master]
  /\ \A s \in Slaves : isSendAlive[s] => (view[s] \ {s}) \cup {Master} \subseteq sessions[s]

\* Whenever the receive thread rests, the map file names exactly the members:
\* a master that is restarted then resumes with them.
FileIsMap == Master \in up /\ recvThread \in {"recv", "scan"} => file = slavemap

\* A slave that has a map is in it: the sizes that RtpSessionCreate compares
\* count on it.
SelfIsListed == \A s \in Slaves : isSendAlive[s] => s \in view[s]
-----------------------------------------------------------------------------
(***************************************************************************)
(* Liveness: crashes and losses are bounded, so each says what the group   *)
(* comes back to after the last of them.                                   *)
(***************************************************************************)

\* Every slave that runs ends up in the map and stays there, also after the
\* master forgot it or came back from an old file.
EveryoneListed ==
  \A s \in Slaves : <>[](s \in up /\ Master \in up => s \in slavemap)

\* A slave that is gone for good does not stay in the map.
DeadAreDropped ==
  \A s \in Slaves : <>[](s \notin up /\ Master \in up => s \notin slavemap)

\* All slaves come to see the same members: without it some would not send
\* their voice to others.  No slave asks for a map it missed, so this is for
\* a network that loses nothing and a master that does not crash.
ViewsAgree ==
  [](losses = 0 /\ Master \in up) => \A s \in Slaves : <>[](s \in up => view[s] = slavemap)
=============================================================================
