-------------------------- MODULE MembershipProofs --------------------------
(***************************************************************************)
(* Proofs about Membership, for any set of slaves and any bounds.          *)
(*                                                                         *)
(* MemberInv strengthens the safety properties to something inductive: a   *)
(* scan is going on when entries are left to visit, a thread at work has a *)
(* sender, and every map on its way to a slave names that slave.           *)
(***************************************************************************)
EXTENDS Membership, SequenceTheorems, TLAPS

\* What the program counter of the receive thread says about its variables.
ScanIsOpen ==
  /\ recvThread \in {"recv", "save", "send"} => todo = {}
  /\ recvThread # "recv" => peer \in Slaves /\ Master \in up

\* The file lags behind the map only between a change and its callback.
FileKept == Master \in up /\ recvThread \in {"recv", "scan", "send"} => file = slavemap

\* So do the sessions of the master ...
MasterReaches ==
  Master \in up /\ recvThread \in {"recv", "scan", "send"} => slavemap \subseteq sessions[Master]

\* ... but never those of a slave.
SlaveReaches(s) == isSendAlive[s] => (view[s] \ {s}) \cup {Master} \subseteq sessions[s]

\* A slave is in every map it got or will get.
Listed(s) ==
  /\ isSendAlive[s] => s \in view[s]
  /\ \A i \in 1..Len(toSlave[s]) : s \in toSlave[s][i]

MemberInv ==
  /\ TypeOK
  /\ ScanIsOpen
  /\ FileKept
  /\ MasterReaches
  /\ \A s \in Slaves : SlaveReaches(s)
  /\ \A s \in Slaves : Listed(s)
-----------------------------------------------------------------------------
(***************************************************************************)
(* Lemmas about the helpers.                                               *)
(***************************************************************************)

\* Whatever sessions rtp_session_create closes, it keeps those of the members
\* and, at a slave, the one to the master.
LEMMA SessionsKept ==
  ASSUME NetType, NEW n \in Node, NEW members \in SUBSET Slaves,
         NEW ss \in RtpSessionCreate(n, members)
  PROVE  /\ ss \subseteq Node
         /\ members \ {n} \subseteq ss
         /\ n \in Slaves => Master \in ss
<1> DEFINE new == sessions[n] \cup (members \ {n}) \cup (IF n \in Slaves THEN {Master} ELSE {})
           gone == new \ (members \cup {Master})
<1>1. \E d \in SUBSET gone : ss = new \ d
  <2>1. CASE Cardinality(members) < Cardinality(new)
    BY <2>1 DEF RtpSessionCreate
  <2>2. CASE ~(Cardinality(members) < Cardinality(new))
    <3>1. ss = new
      BY <2>2 DEF RtpSessionCreate
    <3>2. {} \in SUBSET gone /\ new = new \ {}
      OBVIOUS
    <3> QED
      BY <3>1, <3>2
  <2> QED
    BY <2>1, <2>2
<1>2. new \subseteq Node
  BY DEF NetType, Node
<1> QED
  BY <1>1, <1>2

\* A map that is sent names its receivers, and what was on its way still does.
LEMMA MapSent ==
  ASSUME NetType, NEW members \in SUBSET Slaves, Sendmap2Slave(members),
         NEW s \in Slaves, \A i \in 1..Len(toSlave[s]) : s \in toSlave[s][i]
  PROVE  /\ toSlave' \in [Slaves -> Seq(SUBSET Slaves)]
         /\ \A i \in 1..Len(toSlave'[s]) : s \in toSlave'[s][i]
<1>1. toSlave' \in [Slaves -> Seq(SUBSET Slaves)]
  BY DEF NetType, Sendmap2Slave
<1>2. CASE s \in members \cap up
  <2>1. toSlave'[s] = Append(toSlave[s], members)
    BY <1>2 DEF Sendmap2Slave
  <2>2. toSlave[s] \in Seq(SUBSET Slaves)
    BY DEF NetType
  <2> QED
    BY <1>1, <1>2, <2>1, <2>2
<1>3. CASE s \notin members \cap up
  BY <1>1, <1>3 DEF Sendmap2Slave
<1> QED
  BY <1>2, <1>3

\* Receiving leaves a shorter queue of the same maps.
LEMMA MapTaken ==
  ASSUME NEW s \in Slaves, NEW q \in Seq(SUBSET Slaves), q # <<>>,
         \A i \in 1..Len(q) : s \in q[i]
  PROVE  /\ Tail(q) \in Seq(SUBSET Slaves)
         /\ Head(q) \in SUBSET Slaves
         /\ s \in Head(q)
         /\ \A i \in 1..Len(Tail(q)) : s \in Tail(q)[i]
OBVIOUS

\* The callback after a change brings the file and the master's sessions up
\* to date.
LEMMA MapSaved ==
  ASSUME MemberInv, OnSlaveMap, UNCHANGED slavemap
  PROVE  /\ file' = slavemap /\ fileAge' = age
         /\ sessions' \in [Node -> SUBSET Node]
         /\ slavemap \subseteq sessions'[Master]
         /\ \A s \in Slaves : sessions'[s] = sessions[s]
<1>1. file' = slavemap /\ fileAge' = age
  BY DEF OnSlaveMap, SaveMap
<1>2. PICK ss \in RtpSessionCreate(Master, slavemap) :
         sessions' = [sessions EXCEPT ![Master] = ss]
  BY DEF OnSlaveMap
<1>3. Master \in Node /\ slavemap \in SUBSET Slaves /\ NetType
  BY DEF Node, MemberInv, TypeOK, MapType
<1>4. ss \subseteq Node /\ slavemap \ {Master} \subseteq ss
  BY <1>3, SessionsKept
<1> QED
  BY <1>1, <1>2, <1>3, <1>4, MembershipAssumption DEF NetType
-----------------------------------------------------------------------------
(***************************************************************************)
(* MemberInv, action by action.                                            *)
(***************************************************************************)

\* The receive thread.
LEMMA RecvStep == MemberInv /\ MasterRecvThread => MemberInv'
<1> SUFFICES ASSUME MemberInv, MasterRecvThread PROVE MemberInv'
  OBVIOUS
<1> USE DEF MemberInv, TypeOK
<1>1. Master \in Node /\ Slaves \subseteq Node /\ Master \notin Slaves
  BY MembershipAssumption DEF Node
<1>2. ASSUME NEW s \in Slaves, NEW m, MasterReceives(s, m)
      PROVE  /\ toMaster' \in [Slaves -> Seq({"Register", "Alive"})]
             /\ peer' = s /\ recvThread = "recv" /\ todo = {} /\ Master \in up
  BY <1>2 DEF MasterReceives, NetType, ScanIsOpen
<1>3. ASSUME NEW s \in Slaves, Note(s)
      PROVE  /\ slavemap' \subseteq Slaves /\ slavemap \subseteq slavemap'
             /\ age' \in [Slaves -> 0..Old]
  BY <1>3 DEF Note, MapType, Old
<1>4. ASSUME NEW s \in Slaves, Register(s) PROVE MemberInv'
  <2>1. /\ toMaster' \in [Slaves -> Seq({"Register", "Alive"})]
        /\ peer' = s /\ todo = {} /\ Master \in up
    BY <1>2, <1>4 DEF Register
  <2>2. MapType' /\ MasterType'
    BY <1>1, <1>3, <1>4, <2>1 DEF Register, MapType, MasterType, monVars
  <2>3. SlaveType' /\ NetType'
    BY <1>4, <2>1 DEF Register, SlaveType, NetType, slaveVars, countVars
  <2>4. ScanIsOpen' /\ FileKept' /\ MasterReaches'
    BY <1>4, <2>1 DEF Register, ScanIsOpen, FileKept, MasterReaches
  <2> QED
    BY <1>4, <2>2, <2>3, <2>4 DEF Register, slaveVars, SlaveReaches, Listed
<1>5. CASE SaveNew \/ SaveOld
  <2>1. UNCHANGED <<up, slavemap, age, monVars, peer, isHave, todo, slaveVars, netVars, countVars>>
    BY <1>5 DEF SaveNew, SaveOld
  <2>2. /\ OnSlaveMap
        /\ \/ recvThread = "save" /\ recvThread' = "send"
           \/ recvThread = "saveScan" /\ recvThread' = "scan"
    BY <1>5 DEF SaveNew, SaveOld
  <2>3. /\ file' = slavemap /\ fileAge' = age
        /\ sessions' \in [Node -> SUBSET Node]
        /\ slavemap \subseteq sessions'[Master]
        /\ \A s \in Slaves : sessions'[s] = sessions[s]
    BY <2>1, <2>2, MapSaved
  <2>4. MapType' /\ MasterType' /\ SlaveType' /\ NetType'
    BY <2>1, <2>2, <2>3 DEF MapType, MasterType, SlaveType, NetType, monVars, slaveVars,
       netVars, countVars
  <2>5. ScanIsOpen' /\ FileKept' /\ MasterReaches'
    BY <2>1, <2>2, <2>3 DEF ScanIsOpen, FileKept, MasterReaches
  <2> QED
    BY <2>1, <2>3, <2>4, <2>5 DEF slaveVars, netVars, SlaveReaches, Listed
<1>6. CASE SendNew
  <2>1. Sendmap2Slave(slavemap) /\ slavemap \in SUBSET Slaves
    BY <1>6 DEF SendNew, MapType
  <2>2. \A s \in Slaves : Listed(s)'
    BY <1>6, <2>1, MapSent DEF SendNew, slaveVars, Listed
  <2>3. toSlave' \in [Slaves -> Seq(SUBSET Slaves)]
    BY <2>1 DEF Sendmap2Slave, NetType
  <2>4. MapType' /\ MasterType' /\ SlaveType' /\ NetType'
    BY <1>1, <1>6, <2>3 DEF SendNew, MapType, MasterType, SlaveType, NetType, mapVars, monVars,
       slaveVars, countVars
  <2>5. ScanIsOpen' /\ FileKept' /\ MasterReaches'
    BY <1>6 DEF SendNew, mapVars, ScanIsOpen, FileKept, MasterReaches
  <2> QED
    BY <1>6, <2>2, <2>4, <2>5 DEF SendNew, slaveVars, SlaveReaches
<1>7. ASSUME NEW s \in Slaves, Alive(s) PROVE MemberInv'
  <2>1. /\ toMaster' \in [Slaves -> Seq({"Register", "Alive"})]
        /\ peer' = s /\ recvThread = "recv" /\ Master \in up
    BY <1>2, <1>7 DEF Alive
  <2>2. MapType' /\ MasterType' /\ SlaveType' /\ NetType'
    BY <1>1, <1>7, <2>1 DEF Alive, MapType, MasterType, SlaveType, NetType, mapVars,
       slaveVars, countVars
  <2>3. ScanIsOpen' /\ FileKept' /\ MasterReaches'
    BY <1>7, <2>1 DEF Alive, mapVars, ScanIsOpen, FileKept, MasterReaches
  <2> QED
    BY <1>7, <2>2, <2>3 DEF Alive, slaveVars, SlaveReaches, Listed
<1>8. ASSUME NEW x \in Slaves, DropOld(x) PROVE MemberInv'
  <2>1. Sendmap2Slave(slavemap \ {x}) /\ slavemap \ {x} \in SUBSET Slaves
    BY <1>8 DEF DropOld, MapType
  <2>2. \A s \in Slaves : Listed(s)'
    BY <1>8, <2>1, MapSent DEF DropOld, slaveVars, Listed
  <2>3. toSlave' \in [Slaves -> Seq(SUBSET Slaves)]
    BY <2>1 DEF Sendmap2Slave, NetType
  <2>4. MapType' /\ MasterType'
    BY <1>8 DEF DropOld, MapType, MasterType, monVars, Old
  <2>5. SlaveType' /\ NetType'
    BY <1>8, <2>3 DEF DropOld, SlaveType, NetType, slaveVars, countVars
  <2>6. ScanIsOpen' /\ FileKept' /\ MasterReaches'
    BY <1>8 DEF DropOld, ScanIsOpen, FileKept, MasterReaches
  <2> QED
    BY <1>8, <2>2, <2>4, <2>5, <2>6 DEF DropOld, slaveVars, SlaveReaches
<1>9. ASSUME NEW x \in Slaves, Keep(x) PROVE MemberInv'
  <2>1. MapType' /\ MasterType'
    BY <1>9 DEF Keep, MapType, MasterType, monVars, Old
  <2>2. SlaveType' /\ NetType'
    BY <1>9 DEF Keep, SlaveType, NetType, slaveVars, netVars, countVars
  <2>3. ScanIsOpen' /\ FileKept' /\ MasterReaches'
    BY <1>9 DEF Keep, ScanIsOpen, FileKept, MasterReaches
  <2> QED
    BY <1>9, <2>1, <2>2, <2>3 DEF Keep, slaveVars, netVars, SlaveReaches, Listed
<1>10. CASE EndScan
  <2>1. peer \in Slaves /\ todo = {}
    BY <1>10 DEF EndScan, ScanIsOpen
  <2>2. MapType' /\ MasterType'
    BY <1>1, <1>3, <1>10, <2>1 DEF EndScan, MapType, MasterType, monVars
  <2>3. SlaveType' /\ NetType'
    BY <1>10 DEF EndScan, SlaveType, NetType, slaveVars, netVars, countVars
  <2>4. ScanIsOpen' /\ FileKept' /\ MasterReaches'
    BY <1>10, <2>1 DEF EndScan, ScanIsOpen, FileKept, MasterReaches
  <2> QED
    BY <1>10, <2>2, <2>3, <2>4 DEF EndScan, slaveVars, netVars, SlaveReaches, Listed
<1> QED
  BY <1>4, <1>5, <1>6, <1>7, <1>8, <1>9, <1>10 DEF MasterRecvThread

\* MonitorAliveThread.
LEMMA MonitorStep == MemberInv /\ MonitorAlive => MemberInv'
<1> SUFFICES ASSUME MemberInv, MonitorAlive PROVE MemberInv'
  OBVIOUS
<1> USE DEF MemberInv, TypeOK
<1>1. Master \in Node /\ Master \notin Slaves
  BY MembershipAssumption DEF Node
<1>2. todo = {} /\ recvThread \in {"recv", "send"}
  BY DEF MonitorAlive, MonitorMayRun, ScanIsOpen
<1>3. UNCHANGED <<up, recvVars, slaveVars, netVars, countVars>>
  BY DEF MonitorAlive
<1>4. slept' \in 0..Period /\ isAlive' \in BOOLEAN
  <2>1. slept' = 0 /\ isAlive' = FALSE
    BY DEF MonitorAlive
  <2>2. slept' \in 0..Period
    BY <2>1 DEF Period
  <2> QED
    BY <2>1, <2>2
<1>5. CASE UNCHANGED <<mapVars, sessions>>
  BY <1>3, <1>4, <1>5 DEF MapType, MasterType, SlaveType, NetType, ScanIsOpen, FileKept,
     MasterReaches, SlaveReaches, Listed, mapVars, recvVars, slaveVars, netVars, countVars
<1>6. CASE ~UNCHANGED <<mapVars, sessions>>
  <2>1. PICK ss \in RtpSessionCreate(Master, {}) :
          sessions' = [sessions EXCEPT ![Master] = ss]
    BY <1>6 DEF MonitorAlive
  <2>2. ss \subseteq Node
    BY <1>1, SessionsKept
  <2>3. /\ slavemap' = {} /\ file' = {}
        /\ age' \in [Slaves -> 0..Old] /\ fileAge' \in [Slaves -> 0..Old]
    BY <1>6 DEF MonitorAlive, Old
  <2>4. MapType' /\ MasterType'
    BY <1>2, <1>3, <1>4, <2>3 DEF MapType, MasterType, recvVars
  <2>5. SlaveType' /\ NetType'
    BY <1>3, <2>1, <2>2 DEF SlaveType, NetType, slaveVars, netVars, countVars
  <2>6. ScanIsOpen' /\ FileKept' /\ MasterReaches'
    BY <1>3, <2>3 DEF recvVars, ScanIsOpen, FileKept, MasterReaches
  <2>7. \A s \in Slaves : sessions'[s] = sessions[s]
    BY <1>1, <2>1 DEF NetType, Node
  <2> QED
    BY <1>3, <2>4, <2>5, <2>6, <2>7 DEF slaveVars, netVars, SlaveReaches, Listed
<1> QED
  BY <1>5, <1>6

\* The threads of a slave.
LEMMA SlaveStep ==
  ASSUME MemberInv, NEW s \in Slaves, SendAliveThread(s) \/ ReceiveMap(s)
  PROVE  MemberInv'
<1> USE DEF MemberInv, TypeOK
<1>1. CASE AliveWake(s)
  <2>1. SlaveType'
    BY <1>1 DEF AliveWake, SlaveType
  <2> QED
    BY <1>1, <2>1 DEF AliveWake, MapType, MasterType, NetType, ScanIsOpen, FileKept,
       MasterReaches, SlaveReaches, Listed, mapVars, monVars, recvVars, netVars, countVars
<1>2. CASE SendRegister2Master(s) \/ SendAlive2Master(s)
  <2>1. toMaster' \in [Slaves -> Seq({"Register", "Alive"})]
    <3>1. toMaster \in [Slaves -> Seq({"Register", "Alive"})]
      BY DEF NetType
    <3>2. \A m \in {"Register", "Alive"} :
             Append(toMaster[s], m) \in Seq({"Register", "Alive"})
      BY <3>1
    <3>3. \/ \E m \in {"Register", "Alive"} :
               toMaster' = [toMaster EXCEPT ![s] = Append(@, m)]
          \/ UNCHANGED toMaster
      BY <1>2 DEF SendRegister2Master, SendAlive2Master, Send2Master
    <3> QED
      BY <3>1, <3>2, <3>3
  <2>2. SlaveType'
    BY <1>2 DEF SendRegister2Master, SendAlive2Master, SlaveType
  <2>3. UNCHANGED <<up, mapVars, monVars, recvVars, isSendAlive, view, sessions,
                    toSlave, countVars>>
    BY <1>2 DEF SendRegister2Master, SendAlive2Master
  <2> QED
    BY <2>1, <2>2, <2>3 DEF MapType, MasterType, NetType, ScanIsOpen, FileKept,
       MasterReaches, SlaveReaches, Listed, mapVars, monVars, recvVars, countVars
<1>3. CASE ReceiveMap(s)
  <2> DEFINE q == toSlave[s]
  <2>1. q \in Seq(SUBSET Slaves) /\ q # <<>> /\ \A i \in 1..Len(q) : s \in q[i]
    BY <1>3 DEF ReceiveMap, NetType, Listed
  <2>2. /\ Tail(q) \in Seq(SUBSET Slaves) /\ Head(q) \in SUBSET Slaves
        /\ s \in Head(q) /\ \A i \in 1..Len(Tail(q)) : s \in Tail(q)[i]
    BY <2>1, MapTaken
  <2>3. s \in Node /\ Master \in Node /\ s # Master
    BY MembershipAssumption DEF Node
  <2>4. PICK ss \in RtpSessionCreate(s, Head(q)) : sessions' = [sessions EXCEPT ![s] = ss]
    BY <1>3 DEF ReceiveMap
  <2>5. ss \subseteq Node /\ Head(q) \ {s} \subseteq ss /\ Master \in ss
    BY <2>2, <2>3, SessionsKept
  <2>6. UNCHANGED <<up, mapVars, monVars, recvVars, aliveThread, toMaster, countVars>>
    BY <1>3 DEF ReceiveMap
  <2>7. /\ toSlave' = [toSlave EXCEPT ![s] = Tail(q)]
        /\ isRecvedmap' = [isRecvedmap EXCEPT ![s] = TRUE]
        /\ isSendAlive' = [isSendAlive EXCEPT ![s] = TRUE]
        /\ view' = [view EXCEPT ![s] = Head(q)]
    BY <1>3 DEF ReceiveMap
  <2> HIDE DEF q
  <2>8. SlaveType'
    BY <2>2, <2>6, <2>7 DEF SlaveType
  <2>9. NetType'
    BY <2>2, <2>4, <2>5, <2>6, <2>7 DEF NetType, countVars
  <2>10. MapType' /\ MasterType' /\ ScanIsOpen' /\ FileKept'
    BY <2>6 DEF MapType, MasterType, ScanIsOpen, FileKept, mapVars, monVars, recvVars
  <2>11. MasterReaches'
    BY <2>3, <2>4, <2>6 DEF MasterReaches, NetType, mapVars, recvVars
  <2>12. ASSUME NEW r \in Slaves PROVE SlaveReaches(r)' /\ Listed(r)'
    <3>1. CASE r = s
      BY <2>2, <2>3, <2>4, <2>5, <2>7, <3>1 DEF SlaveReaches, Listed, NetType, SlaveType
    <3>2. CASE r # s
      BY <2>3, <2>4, <2>7, <3>2 DEF SlaveReaches, Listed, NetType, SlaveType
    <3> QED
      BY <3>1, <3>2
  <2> QED
    BY <2>8, <2>9, <2>10, <2>11, <2>12
<1> QED
  BY <1>1, <1>2, <1>3 DEF SendAliveThread

\* Time and the network.
LEMMA WorldStep ==
  ASSUME MemberInv, Tick \/ \E s \in Slaves : Lose(s)
  PROVE  MemberInv'
<1> USE DEF MemberInv, TypeOK
<1>1. CASE Tick
  <2>1. age' \in [Slaves -> 0..Old] /\ fileAge' \in [Slaves -> 0..Old]
    BY <1>1 DEF Tick, Older, MapType, Old
  <2>2. slept' \in 0..Period
    BY <1>1 DEF Tick, Settled, MasterType, Period
  <2>3. aliveThread' \in [Slaves -> {"sleep", "due", "register", "alive"}]
    BY <1>1 DEF Tick
  <2>4. UNCHANGED <<up, slavemap, file, isAlive, recvVars, isRecvedmap, isSendAlive, view,
                    sessions, netVars, countVars>>
    BY <1>1 DEF Tick
  <2> QED
    BY <2>1, <2>2, <2>3, <2>4 DEF MapType, MasterType, SlaveType, NetType, ScanIsOpen,
       FileKept, MasterReaches, SlaveReaches, Listed, recvVars, netVars, countVars
<1>2. ASSUME NEW s \in Slaves, Lose(s) PROVE MemberInv'
  <2>1. UNCHANGED <<up, mapVars, monVars, recvVars, slaveVars, sessions, crashes>>
    BY <1>2 DEF Lose
  <2>2. losses' \in 0..MaxLoss
    BY <1>2, MembershipAssumption DEF Lose, NetType
  <2>3. \/ /\ toMaster' = [toMaster EXCEPT ![s] = Tail(@)]
           /\ toMaster[s] # <<>> /\ UNCHANGED toSlave
        \/ /\ toSlave' = [toSlave EXCEPT ![s] = Tail(@)]
           /\ toSlave[s] # <<>> /\ UNCHANGED toMaster
    BY <1>2 DEF Lose
  <2>4. toMaster' \in [Slaves -> Seq({"Register", "Alive"})]
    <3>1. toMaster[s] # <<>> => Tail(toMaster[s]) \in Seq({"Register", "Alive"})
      BY DEF NetType
    <3> QED
      BY <2>3, <3>1 DEF NetType
  <2>5. toSlave' \in [Slaves -> Seq(SUBSET Slaves)]
    <3>1. toSlave[s] # <<>> => Tail(toSlave[s]) \in Seq(SUBSET Slaves)
      BY DEF NetType
    <3> QED
      BY <2>3, <3>1 DEF NetType
  <2>6. \A r \in Slaves : \A i \in 1..Len(toSlave'[r]) : r \in toSlave'[r][i]
    BY <2>3, MapTaken DEF NetType, Listed
  <2> QED
    BY <2>1, <2>2, <2>4, <2>5, <2>6 DEF MapType, MasterType, SlaveType, NetType, ScanIsOpen,
       FileKept, MasterReaches, SlaveReaches, Listed, mapVars, monVars, recvVars, slaveVars
<1> QED
  BY <1>1, <1>2

\* Power.
LEMMA PowerStep ==
  ASSUME MemberInv,
         \/ \E s \in Slaves : SlaveStarts(s) \/ SlaveCrashes(s)
         \/ MasterCrashes \/ MasterStarts
  PROVE  MemberInv'
<1> USE DEF MemberInv, TypeOK
<1>1. Master \in Node /\ Slaves \subseteq Node /\ Master \notin Slaves
  BY MembershipAssumption DEF Node
<1>2. ASSUME crashes < MaxCrash, crashes' = crashes + 1 PROVE crashes' \in 0..MaxCrash
  BY <1>2, MembershipAssumption DEF NetType
<1>3. ASSUME NEW s \in Slaves, SlaveStarts(s) PROVE MemberInv'
  <2>1. SlaveType'
    BY <1>3 DEF SlaveStarts, SlaveType
  <2>2. MapType' /\ MasterType' /\ NetType'
    BY <1>1, <1>3 DEF SlaveStarts, MapType, MasterType, NetType, mapVars, monVars, recvVars,
       netVars, countVars
  <2>3. ScanIsOpen' /\ FileKept' /\ MasterReaches'
    BY <1>1, <1>3 DEF SlaveStarts, mapVars, recvVars, ScanIsOpen, FileKept, MasterReaches
  <2> QED
    BY <1>3, <2>1, <2>2, <2>3 DEF SlaveStarts, netVars, SlaveReaches, Listed
<1>4. ASSUME NEW s \in Slaves, SlaveCrashes(s) PROVE MemberInv'
  <2>1. SlaveType'
    BY <1>4 DEF SlaveCrashes, SlaveType
  <2>2. NetType'
    BY <1>1, <1>2, <1>4 DEF SlaveCrashes, NetType
  <2>3. MapType' /\ MasterType'
    BY <1>4 DEF SlaveCrashes, MapType, MasterType, mapVars, monVars, recvVars
  <2>4. ScanIsOpen' /\ FileKept' /\ MasterReaches'
    BY <1>1, <1>4 DEF SlaveCrashes, mapVars, recvVars, ScanIsOpen, FileKept, MasterReaches,
       NetType
  <2>5. \A r \in Slaves : SlaveReaches(r)' /\ Listed(r)'
    BY <1>1, <1>4 DEF SlaveCrashes, SlaveReaches, Listed, SlaveType, NetType
  <2> QED
    BY <2>1, <2>2, <2>3, <2>4, <2>5
<1>5. CASE MasterCrashes
  <2>1. MapType'
    BY <1>5 DEF MasterCrashes, MapType, Old
  <2>2. slept' \in 0..Period
    BY <1>5 DEF MasterCrashes, Period
  <2>3. MasterType'
    BY <1>1, <1>5, <2>2 DEF MasterCrashes, MasterType
  <2>4. SlaveType' /\ NetType'
    BY <1>1, <1>2, <1>5 DEF MasterCrashes, SlaveType, NetType, slaveVars
  <2>5. ScanIsOpen' /\ FileKept' /\ MasterReaches'
    BY <1>5 DEF MasterCrashes, ScanIsOpen, FileKept, MasterReaches
  <2>6. \A r \in Slaves : SlaveReaches(r)' /\ Listed(r)'
    BY <1>1, <1>5 DEF MasterCrashes, slaveVars, SlaveReaches, Listed, NetType
  <2> QED
    BY <2>1, <2>3, <2>4, <2>5, <2>6
<1>6. CASE MasterStarts
  <2>1. PICK ss \in RtpSessionCreate(Master, file) :
          sessions' = [sessions EXCEPT ![Master] = ss]
    BY <1>6 DEF MasterStarts
  <2>2. ss \subseteq Node /\ file \ {Master} \subseteq ss
    BY <1>1, <2>1, SessionsKept DEF MapType
  <2>3. file \subseteq sessions'[Master] /\ \A s \in Slaves : sessions'[s] = sessions[s]
    BY <1>1, <2>1, <2>2 DEF MapType, NetType
  <2>4. MapType' /\ SlaveType' /\ NetType'
    BY <1>1, <1>6, <2>1, <2>2 DEF MasterStarts, MapType, SlaveType, NetType, slaveVars,
       netVars, countVars
  <2>5. ScanIsOpen' /\ FileKept' /\ MasterReaches'
    BY <1>6, <2>3 DEF MasterStarts, ScanIsOpen, FileKept, MasterReaches, recvVars
  <2>6. todo = {}
    BY <1>6 DEF MasterStarts, ScanIsOpen
  <2>7. MasterType'
    BY <1>6, <2>6 DEF MasterStarts, MasterType, monVars, recvVars
  <2> QED
    BY <1>6, <2>3, <2>4, <2>5, <2>7 DEF MasterStarts, slaveVars, netVars, SlaveReaches, Listed
<1> QED
  BY <1>3, <1>4, <1>5, <1>6

LEMMA MemberStep == MemberInv /\ [Next]_vars => MemberInv'
<1>1. MemberInv /\ UNCHANGED vars => MemberInv'
  BY DEF vars, mapVars, monVars, recvVars, slaveVars, netVars, countVars, MemberInv, TypeOK,
     MapType, MasterType, SlaveType, NetType, ScanIsOpen, FileKept, MasterReaches,
     SlaveReaches, Listed
<1> QED
  BY <1>1, RecvStep, MonitorStep, SlaveStep, WorldStep, PowerStep DEF Next

-----------------------------------------------------------------------------
\* MemberInv holds whoever registers, whatever is lost and whoever crashes.
THEOREM MemberSafe == Spec => []MemberInv
<1>1. ASSUME Init PROVE MemberInv
  <2>1. MapType /\ 0 \in 0..Period
    BY <1>1 DEF Init, MapType, Old, Period
  <2>2. MasterType
    BY <1>1, <2>1 DEF Init, MasterType, Node
  <2>3. SlaveType
    BY <1>1 DEF Init, SlaveType
  <2>4. NetType
    BY <1>1, MembershipAssumption DEF Init, NetType, Node
  <2>5. ScanIsOpen /\ FileKept /\ MasterReaches
    BY <1>1 DEF Init, ScanIsOpen, FileKept, MasterReaches
  <2>6. \A s \in Slaves : SlaveReaches(s) /\ Listed(s)
    BY <1>1 DEF Init, SlaveReaches, Listed
  <2> QED
    BY <2>1, <2>2, <2>3, <2>4, <2>5, <2>6 DEF MemberInv, TypeOK
<1> QED
  BY <1>1, MemberStep, PTL DEF Spec

\* Types: ages stay within their bound and a scan visits members only.
THEOREM MemberTypes == Spec => []TypeOK
BY MemberSafe, PTL DEF MemberInv

\* rtp_session_create never closes a session that is still needed, whatever
\* the freed element its loop goes on from makes it skip.
THEOREM VoiceReaches == Spec => []SessionsReach
<1>1. MemberInv => SessionsReach
  BY DEF MemberInv, MasterReaches, SlaveReaches, SessionsReach
<1> QED
  BY <1>1, MemberSafe, PTL

\* The master can be restarted from its file at any moment but in a save.
THEOREM FileIsKept == Spec => []FileIsMap
<1>1. MemberInv => FileIsMap
  BY DEF MemberInv, FileKept, FileIsMap
<1> QED
  BY <1>1, MemberSafe, PTL

\* A slave that has a map is in it.
THEOREM SlaveIsListed == Spec => []SelfIsListed
<1>1. MemberInv => SelfIsListed
  BY DEF MemberInv, Listed, SelfIsListed
<1> QED
  BY <1>1, MemberSafe, PTL
-----------------------------------------------------------------------------
(***************************************************************************)
(* Views.  The map a slave was told last is the one it has or, if some are *)
(* under way, the last of those.  A slave that restarts is told nothing    *)
(* until the next map is sent.                                             *)
(***************************************************************************)
Told(s) == isSendAlive[s] \/ toSlave[s] # <<>>
LastTold(s) == IF toSlave[s] = <<>> THEN view[s] ELSE toSlave[s][Len(toSlave[s])]

\* No map is behind the master's, but between a change and the sending of it.
ViewsFollow ==
  recvThread \in {"recv", "scan", "saveScan"} =>
    \A s \in slavemap : Told(s) => LastTold(s) = slavemap

ViewInv == ViewsFollow /\ \A s \in Slaves : Told(s) => s \in up

Undisturbed == losses = 0 /\ Master \in up

\* What is sent to the members that run is what each was told last.
LEMMA SentIsLast ==
  ASSUME MemberInv, NEW members \in SUBSET Slaves, Sendmap2Slave(members),
         \A s \in Slaves : Told(s) => s \in up, UNCHANGED <<up, slaveVars>>
  PROVE  /\ \A s \in Slaves : Told(s)' => s \in up'
         /\ \A s \in members : Told(s)' => LastTold(s)' = members
<1>1. \A s \in Slaves \ (members \cap up) : toSlave'[s] = toSlave[s]
  BY DEF Sendmap2Slave
<1>2. UNCHANGED <<up, isSendAlive, view>>
  BY DEF slaveVars
<1>3. \A s \in Slaves : Told(s)' => s \in up'
  <2> SUFFICES ASSUME NEW s \in Slaves, Told(s)' PROVE s \in up'
    OBVIOUS
  <2>1. CASE s \in members \cap up
    BY <1>2, <2>1
  <2>2. CASE s \notin members \cap up
    BY <1>1, <1>2, <2>2 DEF Told
  <2> QED
    BY <2>1, <2>2
<1>4. ASSUME NEW s \in members, Told(s)' PROVE LastTold(s)' = members
  <2>1. s \in Slaves /\ s \in up
    BY <1>2, <1>3, <1>4
  <2>2. toSlave'[s] = Append(toSlave[s], members)
    BY <2>1 DEF Sendmap2Slave
  <2>3. toSlave[s] \in Seq(SUBSET Slaves)
    BY <2>1 DEF MemberInv, TypeOK, NetType
  <2>4. /\ Append(toSlave[s], members) # <<>>
        /\ Append(toSlave[s], members)[Len(Append(toSlave[s], members))] = members
    BY <2>3
  <2> QED
    BY <2>2, <2>4 DEF LastTold
<1> QED
  BY <1>3, <1>4

\* Taking the first leaves the last.
LEMMA LastStays ==
  ASSUME NEW S, NEW q \in Seq(S), q # <<>>
  PROVE  /\ Tail(q) = <<>> => q[Len(q)] = Head(q)
         /\ Tail(q) # <<>> => Tail(q)[Len(Tail(q))] = q[Len(q)]
<1>1. PICK n \in Nat : n = Len(q) /\ n >= 1
  BY EmptySeq
<1>2. Tail(q) \in Seq(S) /\ Len(Tail(q)) = n - 1
  BY <1>1
<1>3. Tail(q) = <<>> <=> n = 1
  <2>1. Tail(q) = <<>> <=> Len(Tail(q)) = 0
    BY <1>2, EmptySeq
  <2>2. n - 1 = 0 <=> n = 1
    BY <1>1
  <2> QED
    BY <1>2, <2>1, <2>2
<1>4. n = 1 => q[Len(q)] = Head(q)
  BY <1>1
<1>5. n > 1 => Tail(q)[n - 1] = q[n]
  BY <1>1
<1> QED
  BY <1>1, <1>2, <1>3, <1>4, <1>5

\* The arrival of a map changes what a slave has, not what it was told last.
LEMMA ArrivalTellsNothing ==
  ASSUME MemberInv, NEW s \in Slaves, ReceiveMap(s)
  PROVE  /\ Told(s) /\ LastTold(s)' = LastTold(s)
         /\ \A r \in Slaves \ {s} : (Told(r)' <=> Told(r)) /\ LastTold(r)' = LastTold(r)
<1> DEFINE q == toSlave[s]
<1>1. q \in Seq(SUBSET Slaves) /\ q # <<>>
  BY DEF MemberInv, TypeOK, NetType, ReceiveMap
<1>2. /\ toSlave' = [toSlave EXCEPT ![s] = Tail(q)]
      /\ isSendAlive' = [isSendAlive EXCEPT ![s] = TRUE]
      /\ view' = [view EXCEPT ![s] = Head(q)]
  BY DEF ReceiveMap
<1> HIDE DEF q
<1>3. /\ toSlave'[s] = Tail(q) /\ view'[s] = Head(q)
      /\ \A r \in Slaves \ {s} : /\ toSlave'[r] = toSlave[r] /\ view'[r] = view[r]
                                 /\ isSendAlive'[r] = isSendAlive[r]
  BY <1>2 DEF MemberInv, TypeOK, NetType, SlaveType
<1>4. CASE Tail(q) = <<>>
  <2>1. q[Len(q)] = Head(q)
    BY <1>1, <1>4, LastStays
  <2> QED
    BY <1>1, <1>3, <1>4, <2>1 DEF Told, LastTold, q
<1>5. CASE Tail(q) # <<>>
  <2>1. Tail(q)[Len(Tail(q))] = q[Len(q)]
    BY <1>1, <1>5, LastStays
  <2> QED
    BY <1>1, <1>3, <1>5, <2>1 DEF Told, LastTold, q
<1> QED
  BY <1>4, <1>5

\* A step that sends nothing and leaves the map alone, or is on its way to
\* sending the map.
LEMMA ViewStays ==
  ASSUME ViewInv, UNCHANGED <<up, isSendAlive, view, toSlave>>,
         \/ recvThread' \notin {"recv", "scan", "saveScan"}
         \/ slavemap' = {}
         \/ slavemap' = slavemap /\ recvThread \in {"recv", "scan", "saveScan"}
  PROVE  ViewInv'
BY DEF ViewInv, ViewsFollow, Told, LastTold

LEMMA ViewStep ==
  MemberInv /\ ViewInv /\ Undisturbed /\ Undisturbed' /\ [Next]_vars => ViewInv'
<1> SUFFICES ASSUME MemberInv, ViewInv, Undisturbed, Undisturbed', [Next]_vars
             PROVE  ViewInv'
  OBVIOUS
<1> USE DEF slaveVars, netVars, mapVars, recvVars
<1>0. slavemap \subseteq Slaves /\ losses \in Nat
  BY DEF MemberInv, TypeOK, MapType, NetType
<1>1. ASSUME NEW s \in Slaves, Register(s) \/ Alive(s) \/ Keep(s) PROVE ViewInv'
  <2>1. CASE Register(s)
    BY <2>1, ViewStays DEF Register
  <2>2. CASE Alive(s)
    BY <2>2, ViewStays DEF Alive, MasterReceives
  <2>3. CASE Keep(s)
    BY <2>3, ViewStays DEF Keep
  <2> QED
    BY <1>1, <2>1, <2>2, <2>3
<1>2. ASSUME NEW x \in Slaves, DropOld(x) PROVE ViewInv'
  <2>1. /\ Sendmap2Slave(slavemap \ {x}) /\ slavemap' = slavemap \ {x}
        /\ UNCHANGED <<up, slaveVars>>
    BY <1>2 DEF DropOld
  <2> QED
    BY <1>0, <2>1, SentIsLast DEF ViewInv, ViewsFollow
<1>3. CASE SendNew
  <2>1. Sendmap2Slave(slavemap) /\ UNCHANGED <<slavemap, up, slaveVars>>
    BY <1>3 DEF SendNew
  <2> QED
    BY <1>0, <2>1, SentIsLast DEF ViewInv, ViewsFollow
<1>4. CASE SaveNew \/ SaveOld
  BY <1>4, ViewStays DEF SaveNew, SaveOld
<1>5. CASE EndScan
  <2>1. UNCHANGED <<up, isSendAlive, view, toSlave>> /\ recvThread = "scan"
    BY <1>5 DEF EndScan
  <2>2. recvThread' = "save" \/ UNCHANGED slavemap
    BY <1>5 DEF EndScan
  <2> QED
    BY <2>1, <2>2, ViewStays
<1>6. CASE MonitorAlive
  <2>1. UNCHANGED <<up, isSendAlive, view, toSlave, recvThread>>
    BY <1>6 DEF MonitorAlive
  <2>2. slavemap' = {} \/ UNCHANGED slavemap
    BY <1>6 DEF MonitorAlive
  <2> QED
    BY <2>1, <2>2 DEF ViewInv, ViewsFollow, Told, LastTold
<1>7. ASSUME NEW s \in Slaves, SendAliveThread(s) PROVE ViewInv'
  <2>1. UNCHANGED <<up, isSendAlive, view, toSlave, slavemap, recvThread>>
    BY <1>7 DEF SendAliveThread, AliveWake, SendRegister2Master, SendAlive2Master
  <2> QED
    BY <2>1 DEF ViewInv, ViewsFollow, Told, LastTold
<1>8. ASSUME NEW s \in Slaves, ReceiveMap(s) PROVE ViewInv'
  <2>1. UNCHANGED <<up, slavemap, recvThread>> /\ s \in up
    BY <1>8 DEF ReceiveMap
  <2>2. \A r \in Slaves : (Told(r)' => Told(r)) /\ LastTold(r)' = LastTold(r)
    BY <1>8, ArrivalTellsNothing
  <2> QED
    BY <1>0, <2>1, <2>2 DEF ViewInv, ViewsFollow
<1>9. CASE Tick
  BY <1>9 DEF Tick, ViewInv, ViewsFollow, Told, LastTold
<1>10. ASSUME NEW s \in Slaves, Lose(s) PROVE FALSE
  BY <1>0, <1>10 DEF Lose, Undisturbed
<1>11. ASSUME NEW s \in Slaves, SlaveStarts(s) PROVE ViewInv'
  BY <1>11 DEF SlaveStarts, ViewInv, ViewsFollow, Told, LastTold
<1>12. ASSUME NEW s \in Slaves, SlaveCrashes(s) PROVE ViewInv'
  <2>1. UNCHANGED <<slavemap, recvThread>> /\ up' = up \ {s} /\ ~Told(s)'
    BY <1>12 DEF SlaveCrashes, Told, MemberInv, TypeOK, SlaveType, NetType
  <2>2. \A r \in Slaves \ {s} : (Told(r)' <=> Told(r)) /\ LastTold(r)' = LastTold(r)
    BY <1>12 DEF SlaveCrashes, Told, LastTold, MemberInv, TypeOK, SlaveType, NetType
  <2> QED
    BY <1>0, <2>1, <2>2 DEF ViewInv, ViewsFollow
<1>13. CASE MasterCrashes \/ MasterStarts
  BY <1>13, MembershipAssumption DEF MasterCrashes, MasterStarts, Undisturbed
<1>14. CASE UNCHANGED vars
  BY <1>14 DEF vars, ViewInv, ViewsFollow, Told, LastTold
<1> QED
  BY <1>1, <1>2, <1>3, <1>4, <1>5, <1>6, <1>7, <1>8, <1>9, <1>10, <1>11, <1>12, <1>13, <1>14
     DEF Next, MasterRecvThread

\* While nothing is lost and the master runs, whoever registers, ages out, dies
\* or restarts: whenever the receive thread is not between a change of the map
\* and the sending of it, every member that was told a map since it runs was
\* told the present one last, so all of them come to the same view.
THEOREM MembersAreTold ==
  Spec /\ []Undisturbed => []ViewsFollow
<1>1. Init => ViewInv
  BY DEF Init, ViewInv, ViewsFollow, Told
<1>2. ViewInv => ViewsFollow
  BY DEF ViewInv
<1> QED
  BY <1>1, <1>2, ViewStep, MemberSafe, PTL DEF Spec
=============================================================================
