--------------------------- MODULE ChannelProofs ---------------------------
(***************************************************************************)
(* Proofs about Channel, for any number of slaves and any bounds.          *)
(*                                                                         *)
(* The lemmas follow the helpers of Channel: what the four operations on   *)
(* the talk and listen events, the sending and the receiving of datagrams  *)
(* preserve.  The theorems then go through the actions one by one: first   *)
(* what holds whatever the network does, then, until the first fault, who  *)
(* holds the channel, and who listens to it.                               *)
(***************************************************************************)
EXTENDS Channel, TLAPS

LEMMA Gateways == Master \in Node /\ Slaves \subseteq Node /\ Master \notin Slaves
BY ChannelAssumption DEF Node

(***************************************************************************)
(* Types.                                                                  *)
(***************************************************************************)

\* Starting and stopping to record or to receive keeps the flags Boolean.
LEMMA EventType ==
  ASSUME NodeType, NEW n \in Node,
         \/ StartRecording(n) \/ StopRecording(n)
         \/ StartReceiving(n) \/ StopReceiving(n)
  PROVE  NodeType'
BY DEF NodeType, StartRecording, StopRecording, StartReceiving, StopReceiving

\* Telling every slave adds a message to every link.
LEMMA BroadcastType ==
  ASSUME NetType, NEW m \in ToSlaveMsg, Broadcast(m), UNCHANGED <<toMaster, losses>>
  PROVE  NetType'
BY DEF NetType, Broadcast

\* A slave's message to the master.
LEMMA SendType ==
  ASSUME NetType, NEW s \in Slaves, GetStatus(s) \/ ReleaseChannelStatus(s),
         UNCHANGED <<toSlave, losses>>
  PROVE  NetType'
<1>1. \A m \in ToMasterMsg : Append(toMaster[s], m) \in Seq(ToMasterMsg)
  BY DEF NetType
<1>2. \E m \in ToMasterMsg : toMaster' = [toMaster EXCEPT ![s] = Append(@, m)]
  BY DEF GetStatus, ReleaseChannelStatus, ToMasterMsg
<1> QED
  BY <1>1, <1>2 DEF NetType

\* Receiving takes the head of one link.
LEMMA MasterReceivesType ==
  ASSUME NetType, NEW s \in Slaves, NEW m, MasterReceives(s, m)
  PROVE  toMaster' \in [Slaves -> Seq(ToMasterMsg)]
BY DEF NetType, MasterReceives

LEMMA SlaveReceivesType ==
  ASSUME NetType, NEW s \in Slaves, NEW m, SlaveReceives(s, m)
  PROVE  NetType'
BY DEF NetType, SlaveReceives

\* The end of a talk, at the master or at a slave.
LEMMA EndOwnVoiceType ==
  ASSUME TypeOK, NEW n \in Node, EndOwnVoice(n)
  PROVE  NodeType' /\ MasterType' /\ SlaveType' /\ NetType' /\ fault' \in BOOLEAN
<1>1. NodeType'
  BY EventType DEF TypeOK, EndOwnVoice
<1>2. fault' \in BOOLEAN
  BY DEF TypeOK, NodeType, EndOwnVoice
<1>3. CASE n = Master
  <2>1. NetType'
    BY <1>3, BroadcastType DEF TypeOK, EndOwnVoice, ToSlaveMsg
  <2>2. MasterType' /\ SlaveType'
    BY <1>3 DEF TypeOK, EndOwnVoice, MasterType, SlaveType
  <2> QED
    BY <1>1, <1>2, <2>1, <2>2
<1>4. CASE n # Master
  <2>1. n \in Slaves
    BY <1>4 DEF Node
  <2>2. NetType'
    BY <1>4, <2>1, SendType DEF TypeOK, EndOwnVoice
  <2>3. MasterType' /\ SlaveType'
    BY <1>4 DEF TypeOK, EndOwnVoice, MasterType, SlaveType, ForgetGrant
  <2> QED
    BY <1>1, <1>2, <2>2, <2>3
<1> QED
  BY <1>3, <1>4

LEMMA TypeStep == TypeOK /\ [Next]_vars => TypeOK'
<1> SUFFICES ASSUME TypeOK, [Next]_vars PROVE TypeOK'
  OBVIOUS
<1> USE DEF TypeOK
<1>1. ASSUME NEW n \in Node, Press(n) \/ LetGo(n) \/ Expire(n) PROVE TypeOK'
  <2>1. RadioType'
    <3>1. CASE Press(n)
      BY <3>1 DEF Press, RadioType
    <3>2. CASE LetGo(n)
      BY <3>2 DEF LetGo, RadioType
    <3>3. CASE Expire(n)
      BY <3>3 DEF Expire, RadioType
    <3> QED
      BY <1>1, <3>1, <3>2, <3>3
  <2>2. NodeType'
    BY <1>1 DEF Press, LetGo, Expire, NodeType, nodeVars
  <2>3. fault' \in BOOLEAN
    BY <1>1 DEF Press, LetGo, Expire, NodeType
  <2>4. UNCHANGED <<threadVars, masterVars, slaveVars, netVars>>
    BY <1>1 DEF Press, LetGo, Expire
  <2> QED
    BY <2>1, <2>2, <2>3, <2>4 DEF ThreadType, MasterType, SlaveType, NetType,
       threadVars, masterVars, slaveVars, netVars
<1>2. ASSUME NEW n \in Node, CDRise(n) \/ CDFallSlave(n) PROVE TypeOK'
  BY <1>2 DEF CDRise, CDFallSlave, ReadEdge, RadioType, NodeType, ThreadType, MasterType,
     SlaveType, NetType, nodeVars, masterVars, slaveVars, netVars
<1>3. ASSUME NEW n \in Node, CDRelease(n) \/ TimeStop(n) PROVE TypeOK'
  <2>1. EndOwnVoice(n)
    BY <1>3 DEF CDRelease, TimeStop
  <2>2. RadioType' /\ ThreadType'
    BY <1>3 DEF CDRelease, TimeStop, RadioType, ThreadType, radioVars
  <2> QED
    BY <2>1, <2>2, EndOwnVoiceType
<1>4. ASSUME CDFallMaster PROVE TypeOK'
  <2>1. Master \in Node
    BY DEF Node
  <2>2. NodeType'
    BY <1>4, <2>1, EventType DEF CDFallMaster, nodeVars, NodeType
  <2>3. NetType'
    BY <1>4, BroadcastType DEF CDFallMaster, ToSlaveMsg, NetType
  <2> QED
    BY <1>4, <2>1, <2>2, <2>3 DEF CDFallMaster, ReadEdge, RadioType, ThreadType,
       MasterType, SlaveType, threadVars, slaveVars
<1>5. ASSUME NEW s \in Slaves, CDAsk(s) PROVE TypeOK'
  <2>1. NetType'
    BY <1>5, SendType DEF CDAsk
  <2>2. sem' \in [Slaves -> Nat] /\ isGetStatus' \in [Slaves -> BOOLEAN]
    <3>1. sem[s] + 1 \in Nat
      BY DEF SlaveType
    <3> QED
      BY <1>5, <3>1 DEF CDAsk, GetStatus, SlaveType
  <2>3. SlaveType'
    BY <1>5, <2>2 DEF CDAsk, SlaveType
  <2> QED
    BY <1>5, <2>1, <2>3 DEF CDAsk, RadioType, NodeType, ThreadType,
       MasterType, Node, radioVars, nodeVars, masterVars
<1>6. ASSUME NEW n \in Node, TimeDecide(n) \/ RtpTimeout(n) PROVE TypeOK'
  BY <1>6 DEF TimeDecide, RtpTimeout, RadioType, NodeType, ThreadType, MasterType,
     SlaveType, NetType, radioVars, nodeVars, slaveVars, netVars
<1>7. ASSUME NEW n \in Node, RtpStop(n) PROVE TypeOK'
  <2>1. NodeType'
    BY <1>7, EventType DEF RtpStop
  <2> QED
    BY <1>7, <2>1 DEF RtpStop, BusyAfterTimeout, RadioType, NodeType, ThreadType,
       MasterType, SlaveType, NetType, radioVars, slaveVars, netVars
<1>8. ASSUME EndSlaveVoice PROVE TypeOK'
  <2>1. NodeType'
    BY <1>8, EventType DEF EndSlaveVoice, Node
  <2>2. NetType'
    BY <1>8, BroadcastType DEF EndSlaveVoice, ToSlaveMsg
  <2>3. fault' \in BOOLEAN
    BY <1>8 DEF EndSlaveVoice, NodeType
  <2> QED
    BY <1>8, <2>1, <2>2, <2>3 DEF EndSlaveVoice, RadioType, ThreadType, MasterType,
       SlaveType, radioVars, threadVars, slaveVars
<1>9. ASSUME NEW s \in Slaves, GetChannelStatus(s) PROVE TypeOK'
  <2>1. toMaster' \in [Slaves -> Seq(ToMasterMsg)]
    BY <1>9, MasterReceivesType DEF GetChannelStatus
  <2>2. MasterType'
    <3>1. recvThread = "recv" /\ status' = StatusNow /\ UNCHANGED channel_busy
      BY <1>9 DEF GetChannelStatus, MasterReceives
    <3>2. /\ timeout_flag' = FALSE
          /\ \/ StatusNow = "WAIT_SLAVE_GET_CHANNEL" /\ recvThread' = "answer" /\ asker' = s
             \/ UNCHANGED <<recvThread, asker>>
      BY <1>9 DEF GetChannelStatus
    <3> QED
      BY <3>1, <3>2 DEF MasterType, StatusNow, Node
  <2> QED
    BY <1>9, <2>1, <2>2 DEF GetChannelStatus, RadioType, NodeType, ThreadType,
       SlaveType, NetType, radioVars, nodeVars, threadVars, slaveVars
<1>20. ASSUME NEW s \in Slaves, ReplyBusy(s) \/ ReplyFree(s) PROVE TypeOK'
  <2>1. toSlave' \in [Slaves -> Seq(ToSlaveMsg)]
    <3>1. <<"free", "begin">> \in Seq(ToSlaveMsg)
      BY DEF ToSlaveMsg
    <3>2. /\ "begin" \in ToSlaveMsg
          /\ "busy" \in ToSlaveMsg
      BY DEF ToSlaveMsg
    <3>3. \A t \in Slaves : /\ toSlave[t] \o <<"free", "begin">> \in Seq(ToSlaveMsg)
                           /\ Append(toSlave[t], "begin") \in Seq(ToSlaveMsg)
                           /\ Append(toSlave[t], "busy") \in Seq(ToSlaveMsg)
      BY <3>1, <3>2 DEF NetType
    <3>4. CASE ReplyFree(s)
      BY <3>3, <3>4 DEF ReplyFree
    <3>5. CASE ReplyBusy(s)
      BY <3>3, <3>5 DEF ReplyBusy, NetType
    <3> QED
      BY <1>20, <3>4, <3>5
  <2>2. NodeType'
    BY <1>20, EventType DEF ReplyBusy, ReplyFree, Node, NodeType, nodeVars
  <2>3. MasterType' /\ fault' \in BOOLEAN
    BY <1>20, Gateways DEF ReplyBusy, ReplyFree, Answers, MasterType
  <2> QED
    BY <1>20, <2>1, <2>2, <2>3 DEF ReplyBusy, ReplyFree, Answers, RadioType, ThreadType,
       SlaveType, NetType, radioVars, threadVars, slaveVars
<1>10. ASSUME NEW s \in Slaves, ReleaseChannel(s) PROVE TypeOK'
  <2>1. toMaster' \in [Slaves -> Seq(ToMasterMsg)]
    BY <1>10, MasterReceivesType DEF ReleaseChannel
  <2> QED
    BY <1>10, <2>1 DEF ReleaseChannel, RadioType, NodeType, ThreadType, MasterType,
       SlaveType, NetType, radioVars, nodeVars, threadVars, slaveVars
<1>11. ASSUME NEW s \in Slaves, NEW m, SlaveReceives(s, m),
              NodeType', isGetStatus' \in [Slaves -> BOOLEAN],
              channel_applied' \in [Slaves -> BOOLEAN]
       PROVE  TypeOK'
  <2>1. NetType'
    BY <1>11, SlaveReceivesType
  <2> QED
    BY <1>11, <2>1 DEF SlaveReceives, RadioType, ThreadType, MasterType, SlaveType,
       radioVars, threadVars, masterVars
<1>12. ASSUME NEW s \in Slaves, SetChannelBusy(s) PROVE TypeOK'
  BY <1>11, <1>12 DEF SetChannelBusy, NodeType, SlaveType, nodeVars
<1>13. ASSUME NEW s \in Slaves, SetChannelFree(s) PROVE TypeOK'
  <2>1. NodeType'
    BY <1>13, EventType DEF SetChannelFree, Node, NodeType, nodeVars
  <2>2. /\ isGetStatus' \in [Slaves -> BOOLEAN]
        /\ channel_applied' \in [Slaves -> BOOLEAN]
    BY <1>13 DEF SetChannelFree, SlaveType
  <2> QED
    BY <1>11, <1>13, <2>1, <2>2 DEF SetChannelFree
<1>14. ASSUME NEW s \in Slaves, BeginRecorderVoice(s) \/ EndRecorderVoice(s)
       PROVE  TypeOK'
  <2>1. NodeType'
    BY <1>14, EventType DEF BeginRecorderVoice, EndRecorderVoice, Node, NodeType, nodeVars
  <2>2. /\ isGetStatus' \in [Slaves -> BOOLEAN]
        /\ channel_applied' \in [Slaves -> BOOLEAN]
    BY <1>14 DEF BeginRecorderVoice, EndRecorderVoice, SlaveType
  <2> QED
    BY <1>11, <1>14, <2>1, <2>2 DEF BeginRecorderVoice, EndRecorderVoice
<1>15. ASSUME NEW s \in Slaves, MonitorWake(s) \/ LocalSet(s) PROVE TypeOK'
  <2>1. SlaveType'
    <3>1. CASE MonitorWake(s)
      BY <3>1 DEF MonitorWake, SemWait, SlaveType
    <3>2. CASE LocalSet(s)
      BY <3>2 DEF LocalSet, SlaveType
    <3> QED
      BY <1>15, <3>1, <3>2
  <2>2. fault' \in BOOLEAN
    BY <1>15 DEF MonitorWake, LocalSet, WantsLocal, SlaveType
  <2>3. UNCHANGED <<radioVars, nodeVars, threadVars, masterVars, netVars>>
    BY <1>15 DEF MonitorWake, LocalSet
  <2> QED
    BY <2>1, <2>2, <2>3 DEF RadioType, NodeType, ThreadType, MasterType, NetType,
       radioVars, nodeVars, threadVars, masterVars, netVars
<1>16. ASSUME NEW s \in Slaves, LocalTake(s) PROVE TypeOK'
  <2>1. NodeType'
    BY <1>16, EventType DEF LocalTake, Node
  <2> QED
    BY <1>16, <2>1 DEF LocalTake, RadioType, ThreadType, MasterType, SlaveType,
       NetType, radioVars, threadVars, masterVars, netVars
<1>17. ASSUME NEW s \in Slaves, Lose(s) PROVE TypeOK'
  <2>1. NetType'
    <3>1. CASE toMaster[s] # <<>> /\ toMaster' = [toMaster EXCEPT ![s] = Tail(@)]
               /\ UNCHANGED toSlave
      BY <1>17, <3>1 DEF Lose, NetType
    <3>2. CASE toSlave[s] # <<>> /\ toSlave' = [toSlave EXCEPT ![s] = Tail(@)]
               /\ UNCHANGED toMaster
      BY <1>17, <3>2 DEF Lose, NetType
    <3> QED
      BY <1>17, <3>1, <3>2 DEF Lose
  <2> QED
    BY <1>17, <2>1 DEF Lose, RadioType, NodeType, ThreadType, MasterType, SlaveType,
       radioVars, nodeVars, threadVars, masterVars, slaveVars
<1>18. CASE UNCHANGED vars
  BY <1>18 DEF vars, RadioType, NodeType, ThreadType, MasterType, SlaveType, NetType,
     radioVars, nodeVars, threadVars, masterVars, slaveVars, netVars
<1> QED
  BY <1>1, <1>2, <1>3, <1>4, <1>5, <1>6, <1>7, <1>8, <1>9, <1>10, <1>12, <1>13,
     <1>14, <1>15, <1>16, <1>17, <1>18, <1>20
     DEF Next, User, CDPollThread, TimePollThread, MulcastPortPollThread,
         MasterRecvThread, SlaveRecvThread, MonitorStatusThread

\* Every variable of the arbitration keeps its type; the semaphore never goes
\* below zero.
THEOREM TypeCorrect == Spec => []TypeOK
<1>1. Init => TypeOK
  <2> SUFFICES ASSUME Init PROVE TypeOK
    OBVIOUS
  <2>1. RadioType /\ NodeType /\ ThreadType /\ MasterType
    BY Gateways DEF Init, RadioType, NodeType, ThreadType, MasterType
  <2>2. SlaveType
    BY DEF Init, SlaveType
  <2>3. NetType
    <3>1. <<>> \in Seq(ToMasterMsg) /\ <<>> \in Seq(ToSlaveMsg)
      OBVIOUS
    <3> QED
      BY <3>1 DEF Init, NetType
  <2> QED
    BY <2>1, <2>2, <2>3 DEF Init, TypeOK
<1> QED
  BY <1>1, TypeStep, PTL DEF Spec
-----------------------------------------------------------------------------
(***************************************************************************)
(* Safety.  The three invariants are inductive together with the types:    *)
(* every body that clears an event also clears what the event accounts     *)
(* for, and the flags of one gateway are only written for that gateway.    *)
(***************************************************************************)

ChannelInv ==
  /\ TypeOK
  /\ BusyHasOwner
  /\ KeyedHasReason
  /\ GrantIsRecording

\* The end of a talk clears the grant, the relay and, at the master, the
\* channel together with the record event.
LEMMA EndOwnVoiceSafe ==
  ASSUME ChannelInv, NEW n \in Node, EndOwnVoice(n)
  PROVE  BusyHasOwner' /\ KeyedHasReason' /\ GrantIsRecording'
<1> USE DEF ChannelInv
<1>1. Master \in Node /\ Slaves \subseteq Node /\ Master \notin Slaves
  BY ChannelAssumption DEF Node
<1>2. KeyedHasReason'
  BY DEF EndOwnVoice, StopRecording, KeyedHasReason, TypeOK, NodeType
<1>3. CASE n = Master
  <2>1. BusyHasOwner'
    BY <1>3 DEF EndOwnVoice, BusyHasOwner
  <2>2. GrantIsRecording'
    BY <1>1, <1>3 DEF EndOwnVoice, StopRecording, GrantIsRecording, TypeOK, NodeType
  <2> QED
    BY <1>2, <2>1, <2>2
<1>4. CASE n # Master
  <2>1. BusyHasOwner'
    BY <1>1, <1>4 DEF EndOwnVoice, StopRecording, BusyHasOwner, TypeOK, NodeType
  <2>2. GrantIsRecording'
    BY <1>1, <1>4 DEF EndOwnVoice, StopRecording, ForgetGrant, GrantIsRecording,
       TypeOK, NodeType, SlaveType
  <2> QED
    BY <1>2, <2>1, <2>2
<1> QED
  BY <1>3, <1>4

\* Starting an event gives the relay a reason and takes none away.
LEMMA StartSafe ==
  ASSUME ChannelInv, NEW n \in Node, StartRecording(n) \/ StartReceiving(n)
  PROVE  /\ KeyedHasReason'
         /\ \A k \in Node : CD_Trigger[k] => CD_Trigger'[k]
         /\ \A k \in Node : Mulcast_Trigger[k] => Mulcast_Trigger'[k]
BY DEF ChannelInv, TypeOK, NodeType, KeyedHasReason, StartRecording, StartReceiving

\* A listener that stops unkeys its relay, which it shares with no talk of
\* another gateway.
LEMMA StopReceivingSafe ==
  ASSUME ChannelInv, NEW n \in Node, StopReceiving(n)
  PROVE  KeyedHasReason'
BY DEF ChannelInv, TypeOK, NodeType, KeyedHasReason, StopReceiving

LEMMA SafeStep == ChannelInv /\ TypeOK' /\ [Next]_vars => ChannelInv'
<1> SUFFICES ASSUME ChannelInv, TypeOK', [Next]_vars
             PROVE  BusyHasOwner' /\ KeyedHasReason' /\ GrantIsRecording'
  BY DEF ChannelInv
<1> DEFINE Safe == BusyHasOwner' /\ KeyedHasReason' /\ GrantIsRecording'
<1>0. Master \in Node /\ Slaves \subseteq Node /\ Master \notin Slaves
  BY ChannelAssumption DEF Node
<1>1. ASSUME UNCHANGED <<nodeVars, channel_busy, channel_applied, slave_busy, monitor>>
      PROVE  Safe
  BY <1>1 DEF ChannelInv, nodeVars, BusyHasOwner, KeyedHasReason, GrantIsRecording
<1>2. ASSUME NEW n \in Node, Press(n) \/ LetGo(n) PROVE Safe
  BY <1>1, <1>2 DEF Press, LetGo, masterVars, slaveVars
<1>3. ASSUME NEW n \in Node, Expire(n) PROVE Safe
  BY <1>3 DEF Expire, masterVars, slaveVars, ChannelInv, BusyHasOwner,
     KeyedHasReason, GrantIsRecording
<1>4. ASSUME NEW n \in Node, CDRise(n) PROVE Safe
  BY <1>1, <1>4 DEF CDRise, masterVars, slaveVars
<1>5. ASSUME NEW n \in Node, CDRelease(n) \/ TimeStop(n) PROVE Safe
  BY <1>5, EndOwnVoiceSafe DEF CDRelease, TimeStop
<1>6. ASSUME CDFallMaster PROVE Safe
  <2>1. CASE MasterMayTalk
    <3>1. StartRecording(Master) /\ UNCHANGED slaveVars
      BY <1>6, <2>1 DEF CDFallMaster
    <3>2. KeyedHasReason' /\ GrantIsRecording'
      BY <1>0, <3>1, StartSafe DEF ChannelInv, slaveVars, GrantIsRecording
    <3>3. BusyHasOwner'
      BY <1>0, <3>1 DEF StartRecording, BusyHasOwner, ChannelInv, TypeOK, NodeType
    <3> QED
      BY <3>2, <3>3
  <2>2. CASE ~MasterMayTalk
    BY <1>1, <1>6, <2>2 DEF CDFallMaster, slaveVars
  <2> QED
    BY <2>1, <2>2
<1>7. ASSUME NEW s \in Slaves, CDFallSlave(s) \/ CDAsk(s) PROVE Safe
  BY <1>1, <1>7 DEF CDFallSlave, CDAsk, masterVars, slaveVars
<1>8. ASSUME NEW n \in Node, TimeDecide(n) \/ RtpTimeout(n) PROVE Safe
  BY <1>1, <1>8 DEF TimeDecide, RtpTimeout, slaveVars
<1>9. ASSUME NEW n \in Node, RtpStop(n) PROVE Safe
  <2>1. KeyedHasReason'
    BY <1>9, StopReceivingSafe DEF RtpStop
  <2>2. GrantIsRecording'
    BY <1>9 DEF RtpStop, StopReceiving, slaveVars, ChannelInv, GrantIsRecording
  <2>3. BusyHasOwner'
    BY <1>0, <1>9 DEF RtpStop, StopReceiving, BusyAfterTimeout, BusyHasOwner,
       ChannelInv, TypeOK, NodeType
  <2> QED
    BY <2>1, <2>2, <2>3
<1>10. ASSUME NEW s \in Slaves, GetChannelStatus(s) \/ ReplyBusy(s) PROVE Safe
  BY <1>1, <1>10 DEF GetChannelStatus, ReplyBusy, Answers, slaveVars
<1>20. ASSUME NEW s \in Slaves, ReplyFree(s) PROVE Safe
  <2>1. StartReceiving(Master) /\ UNCHANGED slaveVars
    BY <1>20 DEF ReplyFree, Answers
  <2>2. KeyedHasReason' /\ GrantIsRecording'
    BY <1>0, <2>1, StartSafe DEF ChannelInv, slaveVars, GrantIsRecording
  <2>3. BusyHasOwner'
    BY <1>0, <2>1 DEF StartReceiving, BusyHasOwner, ChannelInv, TypeOK, NodeType
  <2> QED
    BY <2>2, <2>3
<1>11. ASSUME NEW s \in Slaves, ReleaseChannel(s) PROVE Safe
  BY <1>1, <1>11 DEF ReleaseChannel, slaveVars
<1>12. ASSUME EndSlaveVoice PROVE Safe
  <2>1. KeyedHasReason'
    BY <1>0, <1>12, StopReceivingSafe DEF EndSlaveVoice
  <2>2. BusyHasOwner' /\ GrantIsRecording'
    BY <1>12 DEF EndSlaveVoice, StopReceiving, slaveVars, ChannelInv, BusyHasOwner,
       GrantIsRecording
  <2> QED
    BY <2>1, <2>2
<1>13. ASSUME NEW s \in Slaves, SetChannelBusy(s) PROVE Safe
  BY <1>1, <1>13 DEF SetChannelBusy, SlaveReceives, masterVars
<1>14. ASSUME NEW s \in Slaves, SetChannelFree(s) \/ LocalTake(s) PROVE Safe
  <2>1. CASE StartRecording(s) /\ channel_applied' = [channel_applied EXCEPT ![s] = TRUE]
    <3>1. KeyedHasReason' /\ BusyHasOwner'
      BY <1>0, <1>14, <2>1, StartSafe DEF SetChannelFree, SlaveReceives, LocalTake,
         masterVars, ChannelInv, BusyHasOwner
    <3>2. \A t \in Slaves : channel_applied'[t] => CD_Trigger'[t]
      BY <1>0, <2>1 DEF StartRecording, ChannelInv, TypeOK, NodeType, SlaveType,
         GrantIsRecording
    <3>3. UNCHANGED slave_busy /\ \A t \in Slaves \ {s} : monitor'[t] = monitor[t]
      BY <1>14 DEF SetChannelFree, SlaveReceives, LocalTake, ChannelInv, TypeOK, SlaveType
    <3>4. \A t \in Slaves : slave_busy'[t] => CD_Trigger'[t] \/ monitor'[t] = "take"
      BY <1>0, <2>1, <3>3 DEF StartRecording, ChannelInv, TypeOK, NodeType,
         GrantIsRecording
    <3> QED
      BY <3>1, <3>2, <3>4 DEF GrantIsRecording
  <2>2. CASE UNCHANGED <<nodeVars, channel_applied>> /\ SetChannelFree(s)
    BY <1>1, <2>2 DEF SetChannelFree, SlaveReceives, masterVars
  <2> QED
    BY <1>14, <2>1, <2>2 DEF SetChannelFree, LocalTake
<1>15. ASSUME NEW s \in Slaves, BeginRecorderVoice(s) PROVE Safe
  <2>1. CASE StartReceiving(s)
    BY <1>0, <1>15, <2>1, StartSafe DEF BeginRecorderVoice, SlaveReceives, masterVars,
       ChannelInv, BusyHasOwner, GrantIsRecording
  <2>2. CASE UNCHANGED nodeVars
    BY <1>1, <1>15, <2>2 DEF BeginRecorderVoice, SlaveReceives, masterVars
  <2> QED
    BY <1>15, <2>1, <2>2 DEF BeginRecorderVoice
<1>16. ASSUME NEW s \in Slaves, EndRecorderVoice(s) PROVE Safe
  <2>1. /\ channel_applied' = [channel_applied EXCEPT ![s] = FALSE]
        /\ UNCHANGED <<slave_busy, monitor, channel_busy, CD_Trigger>>
    BY <1>16 DEF EndRecorderVoice, SlaveReceives, masterVars, nodeVars, StopReceiving
  <2>2. GrantIsRecording'
    BY <2>1 DEF GrantIsRecording, ChannelInv, TypeOK, SlaveType
  <2>3. CASE UNCHANGED nodeVars
    BY <2>1, <2>2, <2>3 DEF nodeVars, ChannelInv, BusyHasOwner, KeyedHasReason
  <2>4. CASE StopReceiving(s)
    BY <1>0, <2>1, <2>2, <2>4, StopReceivingSafe DEF StopReceiving, ChannelInv,
       BusyHasOwner, TypeOK, NodeType
  <2> QED
    BY <1>16, <2>3, <2>4 DEF EndRecorderVoice
<1>17. ASSUME NEW s \in Slaves, MonitorWake(s) \/ LocalSet(s) PROVE Safe
  <2>1. UNCHANGED <<nodeVars, channel_busy, channel_applied>>
    BY <1>17 DEF MonitorWake, LocalSet, masterVars
  <2>2. \A t \in Slaves :
           slave_busy'[t] => CD_Trigger[t] \/ monitor'[t] = "take"
    <3>1. CASE MonitorWake(s)
      BY <3>1 DEF MonitorWake, SemWait, ChannelInv, TypeOK, SlaveType, GrantIsRecording
    <3>2. CASE LocalSet(s)
      BY <3>2 DEF LocalSet, MayTalkLocally, ChannelInv, TypeOK, SlaveType, GrantIsRecording
    <3> QED
      BY <1>17, <3>1, <3>2
  <2> QED
    BY <2>1, <2>2 DEF nodeVars, ChannelInv, BusyHasOwner, KeyedHasReason, GrantIsRecording
<1>18. ASSUME NEW s \in Slaves, Lose(s) PROVE Safe
  BY <1>1, <1>18 DEF Lose, masterVars, slaveVars
<1>19. CASE UNCHANGED vars
  BY <1>1, <1>19 DEF vars, masterVars, slaveVars
<1> QED
  BY <1>2, <1>3, <1>4, <1>5, <1>6, <1>7, <1>8, <1>9, <1>10, <1>11, <1>12, <1>13,
     <1>14, <1>15, <1>16, <1>17, <1>18, <1>19, <1>20
     DEF Next, User, CDPollThread, TimePollThread, MulcastPortPollThread,
         MasterRecvThread, SlaveRecvThread, MonitorStatusThread

\* ChannelInv is an invariant, whatever the network loses and in whatever
\* order the threads run.
THEOREM ChannelSafe == Spec => []ChannelInv
<1>1. Init => BusyHasOwner /\ KeyedHasReason /\ GrantIsRecording
  BY ChannelAssumption DEF Init, BusyHasOwner, KeyedHasReason, GrantIsRecording
<1>2. Init /\ TypeOK => ChannelInv
  BY <1>1 DEF ChannelInv
<1> QED
  BY <1>2, SafeStep, TypeCorrect, PTL DEF Spec

\* A busy channel is always watched by a thread that will free it.
THEOREM BusyIsOwned == Spec => []BusyHasOwner
BY ChannelSafe, PTL DEF ChannelInv

\* A keyed relay always has a talk or a reception behind it.
THEOREM KeyedIsExplained == Spec => []KeyedHasReason
BY ChannelSafe, PTL DEF ChannelInv

\* No grant outlives its talk.
THEOREM GrantIsLive == Spec => []GrantIsRecording
BY ChannelSafe, PTL DEF ChannelInv
-----------------------------------------------------------------------------
(***************************************************************************)
(* What the steps towards an end rest on, whatever goes wrong.             *)
(***************************************************************************)

\* Nobody restarts the clock of a master whose channel is busy.
LEMMA ClockRuns ==
  ASSUME TypeOK, [Next]_vars, channel_busy, late[Master]
  PROVE  late'[Master]
<1> USE DEF nodeVars
<1>1. Master \in Node /\ Slaves \subseteq Node /\ Master \notin Slaves /\ late \in [Node -> BOOLEAN]
  BY ChannelAssumption DEF Node, TypeOK, NodeType
<1>2. ASSUME NEW n \in Node, User(n) \/ Expire(n) PROVE late'[Master]
  BY <1>1, <1>2 DEF User, Press, LetGo, Expire
<1>3. ASSUME NEW n \in Node, EndOwnVoice(n) \/ RtpStop(n) PROVE UNCHANGED late
  BY <1>3 DEF EndOwnVoice, StopRecording, RtpStop, StopReceiving
<1>4. ASSUME NEW n \in Node, CDPollThread(n) PROVE late'[Master]
  BY <1>1, <1>3, <1>4 DEF CDPollThread, CDRise, CDRelease, CDFallMaster, MasterMayTalk, CDFallSlave, CDAsk
<1>5. ASSUME NEW n \in Node, TimePollThread(n) \/ MulcastPortPollThread(n) PROVE UNCHANGED late
  BY <1>3, <1>5 DEF TimePollThread, TimeDecide, TimeStop, MulcastPortPollThread, RtpTimeout
<1>6. ASSUME MasterRecvThread PROVE UNCHANGED late
  BY <1>6 DEF MasterRecvThread, EndSlaveVoice, StopReceiving, GetChannelStatus, ReplyBusy,
     ReplyFree, ReleaseChannel
<1>7. ASSUME NEW s \in Slaves, SlaveRecvThread(s) \/ MonitorStatusThread(s) \/ Lose(s)
      PROVE  late'[Master]
  BY <1>1, <1>7 DEF SlaveRecvThread, SetChannelBusy, SetChannelFree, BeginRecorderVoice,
     EndRecorderVoice, MonitorStatusThread, MonitorWake, LocalSet, LocalTake, Lose,
     StartRecording, StartReceiving, StopReceiving
<1>8. CASE UNCHANGED vars
  BY <1>8 DEF vars
<1> QED
  BY <1>2, <1>4, <1>5, <1>6, <1>7, <1>8 DEF Next

\* Once a limit of the master has run out, one of its two timing threads has
\* something to end, and goes on having it until the channel is free: whatever
\* is pressed, sent or lost, nothing restarts the clock or takes the talk away
\* and leaves the channel busy.  The safety part of ChannelIsFreed.
THEOREM LimitStands ==
  Spec => [][channel_busy /\ late[Master] /\ channel_busy' =>
               (TalkOver(Master) \/ ListenOver(Master))']_vars
<1>1. ChannelInv /\ ChannelInv' /\ [Next]_vars =>
        (channel_busy /\ late[Master] /\ channel_busy' => (TalkOver(Master) \/ ListenOver(Master))')
  BY ClockRuns DEF ChannelInv, BusyHasOwner, TalkOver, ListenOver
<1> QED
  BY <1>1, ChannelSafe, PTL DEF Spec

\* When the monitor finds a request unanswered and the user still holds the
\* key, the slave begins a local talk unless it already talks or listens: no
\* flag left over from an earlier talk swallows the request.  The safety part
\* of RequestSettles.
THEOREM RequestIsTaken ==
  Spec => [][\A s \in Slaves :
               LocalSet(s) /\ cd[s] = "LOW" =>
                 monitor'[s] = "take" \/ CD_Trigger[s] \/ Mulcast_Trigger[s]]_vars
<1>1. ASSUME ChannelInv, NEW s \in Slaves, LocalSet(s), cd[s] = "LOW"
      PROVE  monitor'[s] = "take" \/ CD_Trigger[s] \/ Mulcast_Trigger[s]
  <2>1. monitor[s] = "call" /\ (MayTalkLocally(s) => monitor'[s] = "take")
    BY <1>1 DEF LocalSet, ChannelInv, TypeOK, SlaveType
  <2>2. ~MayTalkLocally(s) => slave_busy[s] \/ Mulcast_Trigger[s]
    BY <1>1 DEF MayTalkLocally
  <2> QED
    BY <1>1, <2>1, <2>2 DEF ChannelInv, GrantIsRecording
<1>2. ChannelInv =>
        \A s \in Slaves :
          LocalSet(s) /\ cd[s] = "LOW" =>
            monitor'[s] = "take" \/ CD_Trigger[s] \/ Mulcast_Trigger[s]
  BY <1>1
<1> QED
  BY <1>2, ChannelSafe, PTL DEF Spec
-----------------------------------------------------------------------------
(***************************************************************************)
(* One talker.  As long as `fault' is not set, whoever talks holds the     *)
(* channel by exactly one thing, wherever it is: an answer `free' under    *)
(* way, the talk itself, the `release' under way, or the master's section  *)
(* that ends the talk.  A slave that takes the channel locally while it    *)
(* was granted drops it; then nobody holds it, though it is busy.          *)
(***************************************************************************)
Once(q, m) == \E i \in 1..Len(q) : q[i] = m /\ \A j \in 1..Len(q) : q[j] = m => j = i

Nobody == recvThread # "release" /\ ~CD_Trigger[Master] /\ \A s \in Slaves : Idle(s)
MasterTalks ==
  recvThread # "release" /\ CD_Trigger[Master] /\ channel_busy /\ \A s \in Slaves : Idle(s)

Holds(s) ==
  \/ /\ recvThread # "release"
     /\ Once(toSlave[s], "free") /\ ~ReleaseUnderWay(s) /\ ~Transmitting(s)
  \/ /\ recvThread # "release"
     /\ ~FreeUnderWay(s) /\ ~ReleaseUnderWay(s) /\ Transmitting(s)
  \/ /\ recvThread # "release"
     /\ ~FreeUnderWay(s) /\ Once(toMaster[s], "release") /\ ~Transmitting(s)
  \/ recvThread = "release" /\ Idle(s)

\* What the master knows of it.
ForSlave ==
  /\ channel_busy /\ Mulcast_Trigger[Master] /\ ~CD_Trigger[Master]
  /\ status = "WAIT_SLAVE_RELEASE_CHANNEL" /\ ~timeout_flag
SlaveTalks(s) == ForSlave /\ Holds(s) /\ \A t \in Slaves \ {s} : Idle(t)

Holder == Nobody \/ MasterTalks \/ \E s \in Slaves : SlaveTalks(s)

\* The master times out only a talk that nobody holds.
Lost == Mulcast_Trigger[Master] /\ late[Master]

TalkInv ==
  /\ Holder
  /\ Mulcast_Trigger[Master] => channel_busy /\ ~CD_Trigger[Master]
  /\ Lost => Nobody
  /\ rtpPoll[Master] = "stop" => Lost
  /\ \A s \in Slaves : monitor[s] = "take" => slave_busy[s]

\* What a step does to the floor (module Floor), as long as nothing goes wrong.
FloorMove ==
  \/ UNCHANGED <<Users, channel_busy>>
  \/ \E n \in Node : TheFloor!Take(n)
  \/ TheFloor!Leave
  \/ TheFloor!Free

(***************************************************************************)
(* Sequences of messages.                                                  *)
(***************************************************************************)
LEMMA LinkAppend ==
  ASSUME NEW S, NEW q \in Seq(S), NEW x \in S, NEW m
  PROVE  /\ Has(Append(q, x), m) <=> Has(q, m) \/ x = m
         /\ x # m /\ Once(q, m) => Once(Append(q, x), m)
         /\ x = m /\ ~Has(q, m) => Once(Append(q, x), m)
<1> DEFINE r == Append(q, x)
<1>1. /\ Len(q) \in Nat /\ Len(r) = Len(q) + 1 /\ r[Len(q) + 1] = x
      /\ \A i \in 1..Len(q) : r[i] = q[i]
  OBVIOUS
<1> HIDE DEF r
<1>2. \A i \in 1..Len(r) : i \in 1..Len(q) \/ i = Len(q) + 1  BY <1>1
<1>3. \A i \in 1..Len(q) : i \in 1..Len(r)  BY <1>1
<1>4. Len(q) + 1 \in 1..Len(r)  BY <1>1
<1>5. Has(r, m) <=> Has(q, m) \/ x = m  BY <1>1, <1>2, <1>3, <1>4 DEF Has
<1>6. ASSUME x # m, Once(q, m)
      PROVE  Once(r, m)
  <2>1. PICK i \in 1..Len(q) : q[i] = m /\ \A j \in 1..Len(q) : q[j] = m => j = i
    BY <1>6 DEF Once
  <2>2. i \in 1..Len(r) /\ r[i] = m /\ \A j \in 1..Len(r) : r[j] = m => j = i
    BY <1>1, <1>2, <1>3, <1>6, <2>1
  <2> QED  BY <2>2 DEF Once
<1>7. ASSUME x = m, ~Has(q, m)
      PROVE  Once(r, m)
  <2>1. r[Len(q) + 1] = m /\ \A j \in 1..Len(r) : r[j] = m => j = Len(q) + 1
    BY <1>1, <1>2, <1>7 DEF Has
  <2> QED  BY <1>4, <2>1 DEF Once
<1> QED  BY <1>5, <1>6, <1>7 DEF r

LEMMA LinkTail ==
  ASSUME NEW S, NEW q \in Seq(S), q # <<>>, NEW m
  PROVE  /\ Has(q, m) <=> Head(q) = m \/ Has(Tail(q), m)
         /\ Head(q) # m /\ Once(q, m) => Once(Tail(q), m)
         /\ Head(q) = m /\ Once(q, m) => ~Has(Tail(q), m)
         /\ Tail(q) \in Seq(S)
<1> DEFINE r == Tail(q)
<1>1. /\ Len(q) \in Nat \ {0} /\ Len(r) = Len(q) - 1 /\ Head(q) = q[1] /\ r \in Seq(S)
      /\ \A i \in 1..Len(r) : r[i] = q[i + 1]
  OBVIOUS
<1> HIDE DEF r
<1>2. \A i \in 1..Len(r) : i + 1 \in 1..Len(q)  BY <1>1
<1>3. \A i \in 1..Len(q) : i = 1 \/ (i - 1 \in 1..Len(r) /\ (i - 1) + 1 = i)  BY <1>1
<1>4. 1 \in 1..Len(q)  BY <1>1
<1>5. Has(q, m) <=> Head(q) = m \/ Has(r, m)
  <2>1. Has(r, m) => Has(q, m)  BY <1>1, <1>2 DEF Has
  <2>2. Head(q) = m => Has(q, m)  BY <1>1, <1>4 DEF Has
  <2>3. ASSUME Has(q, m), Head(q) # m
        PROVE  Has(r, m)
    <3>1. PICK i \in 1..Len(q) : q[i] = m  BY <2>3 DEF Has
    <3>2. i - 1 \in 1..Len(r) /\ (i - 1) + 1 = i  BY <1>1, <1>3, <2>3, <3>1
    <3>3. r[i - 1] = m  BY <1>1, <3>1, <3>2
    <3> QED  BY <3>2, <3>3 DEF Has
  <2> QED  BY <2>1, <2>2, <2>3
<1>6. ASSUME Head(q) # m, Once(q, m)
      PROVE  Once(r, m)
  <2>1. PICK i \in 1..Len(q) : q[i] = m /\ \A j \in 1..Len(q) : q[j] = m => j = i
    BY <1>6 DEF Once
  <2>2. i - 1 \in 1..Len(r) /\ (i - 1) + 1 = i  BY <1>1, <1>3, <1>6, <2>1
  <2>3. r[i - 1] = m  BY <1>1, <2>1, <2>2
  <2>4. ASSUME NEW j \in 1..Len(r), r[j] = m
        PROVE  j = i - 1
    <3>1. j + 1 = i  BY <1>1, <1>2, <2>1, <2>4
    <3> QED  BY <2>4, <3>1
  <2> QED  BY <2>2, <2>3, <2>4 DEF Once
<1>7. ASSUME Head(q) = m, Once(q, m)
      PROVE  ~Has(r, m)
  <2>1. PICK i \in 1..Len(q) : q[i] = m /\ \A j \in 1..Len(q) : q[j] = m => j = i
    BY <1>7 DEF Once
  <2>2. i = 1  BY <1>1, <1>4, <1>7, <2>1
  <2>3. ASSUME NEW j \in 1..Len(r)
        PROVE  r[j] # m
    <3>1. q[j + 1] = m => j + 1 = 1  BY <1>2, <2>1, <2>2
    <3> QED  BY <1>1, <3>1
  <2> QED  BY <2>3 DEF Has
<1> QED  BY <1>1, <1>5, <1>6, <1>7 DEF r

LEMMA LinkGrant ==
  ASSUME NEW S, NEW q \in Seq(S), NEW x \in S, NEW y \in S
  PROVE  q \o <<x, y>> = Append(Append(q, x), y) /\ Append(q, x) \in Seq(S)
OBVIOUS

LEMMA OnceHas == ASSUME NEW q, NEW m, Once(q, m) PROVE Has(q, m)
BY DEF Once, Has

(***************************************************************************)
(* A step that leaves everything by which the channel is held.             *)
(***************************************************************************)
SameTokens(s) ==
  /\ FreeUnderWay(s)' <=> FreeUnderWay(s)
  /\ Once(toSlave[s], "free") => Once(toSlave'[s], "free")
  /\ ReleaseUnderWay(s)' <=> ReleaseUnderWay(s)
  /\ Once(toMaster[s], "release") => Once(toMaster'[s], "release")
  /\ Transmitting(s)' <=> Transmitting(s)

SameMaster ==
  /\ (recvThread' = "release" <=> recvThread = "release") /\ channel_busy' = channel_busy
  /\ CD_Trigger'[Master] = CD_Trigger[Master]
  /\ Mulcast_Trigger'[Master] = Mulcast_Trigger[Master]
  /\ ForSlave => ForSlave'

LEMMA IdleStays ==
  ASSUME NEW s \in Slaves, SameTokens(s), Idle(s)
  PROVE  Idle(s)'
BY DEF SameTokens, Idle

LEMMA NobodyStays ==
  ASSUME \A s \in Slaves : SameTokens(s), recvThread' = "release" => recvThread = "release",
         CD_Trigger'[Master] = CD_Trigger[Master], Nobody
  PROVE  Nobody'
BY IdleStays DEF Nobody

LEMMA HolderStays ==
  ASSUME \A s \in Slaves : SameTokens(s), SameMaster, Holder
  PROVE  Holder'
<1>1. CASE Nobody  BY <1>1, NobodyStays DEF Holder, SameMaster
<1>2. CASE MasterTalks  BY <1>2, IdleStays DEF Holder, SameMaster, MasterTalks
<1>3. ASSUME NEW s \in Slaves, SlaveTalks(s)
      PROVE  Holder'
  <2>1. ForSlave'  BY <1>3 DEF SlaveTalks, SameMaster
  <2>2. \A t \in Slaves \ {s} : Idle(t)'  BY <1>3, IdleStays DEF SlaveTalks
  <2>3. Holds(s) /\ SameTokens(s) /\ (recvThread' = "release" <=> recvThread = "release")
    BY <1>3 DEF SlaveTalks, SameMaster
  <2>4. Holds(s)'  BY <2>3 DEF Holds, SameTokens, Idle
  <2> QED  BY <2>1, <2>2, <2>4 DEF SlaveTalks, Holder
<1> QED  BY <1>1, <1>2, <1>3 DEF Holder

\* Who holds the channel, told from one of the things it is held by.
LEMMA HolderIs ==
  ASSUME Holder
  PROVE  /\ ~channel_busy => Nobody
         /\ CD_Trigger[Master] => MasterTalks
         /\ recvThread = "release" => \E s \in Slaves : SlaveTalks(s)
         /\ \A s \in Slaves : FreeUnderWay(s) \/ ReleaseUnderWay(s) \/ Transmitting(s) => SlaveTalks(s)
<1>1. CASE Nobody  BY <1>1 DEF Nobody, Idle
<1>2. CASE MasterTalks  BY <1>2 DEF MasterTalks, Idle
<1>3. ASSUME NEW s \in Slaves, SlaveTalks(s)
      PROVE  /\ ~channel_busy => Nobody
             /\ CD_Trigger[Master] => MasterTalks
             /\ \A t \in Slaves : FreeUnderWay(t) \/ ReleaseUnderWay(t) \/ Transmitting(t) => SlaveTalks(t)
  <2>1. channel_busy /\ ~CD_Trigger[Master]  BY <1>3 DEF SlaveTalks, ForSlave
  <2>2. ASSUME NEW t \in Slaves, ~Idle(t)
        PROVE  SlaveTalks(t)
    <3>1. t = s  BY <1>3, <2>2 DEF SlaveTalks
    <3> QED  BY <1>3, <3>1
  <2> QED  BY <2>1, <2>2 DEF Idle
<1>4. recvThread = "release" => \E s \in Slaves : SlaveTalks(s)
  BY DEF Holder, Nobody, MasterTalks
<1> QED  BY <1>1, <1>2, <1>3, <1>4 DEF Holder

\* Who uses the channel, before and after a step.
LEMMA UsersAre ==
  /\ Nobody => Users = {}
  /\ MasterTalks => Users = {Master}
  /\ \A s \in Slaves : SlaveTalks(s) => Users = IF recvThread # "release" THEN {s} ELSE {}
<1>1. Nobody => Users = {}
  BY DEF Nobody, Users
<1>2. MasterTalks => Users = {Master}
  BY DEF MasterTalks, Users
<1>3. ASSUME NEW s \in Slaves, SlaveTalks(s)
      PROVE  Users = IF recvThread # "release" THEN {s} ELSE {}
  <2>1. recvThread # "release" <=> ~Idle(s)
    BY <1>3, OnceHas DEF SlaveTalks, Holds, Idle, FreeUnderWay, ReleaseUnderWay
  <2> QED
    BY <1>3, <2>1 DEF SlaveTalks, ForSlave, Users
<1> QED
  BY <1>1, <1>2, <1>3

LEMMA UsersBecome ==
  /\ Nobody' => Users' = {}
  /\ MasterTalks' => Users' = {Master}
  /\ \A s \in Slaves : SlaveTalks(s)' => Users' = IF recvThread' # "release" THEN {s} ELSE {}
<1>1. Nobody' => Users' = {}
  BY DEF Nobody, Users
<1>2. MasterTalks' => Users' = {Master}
  BY DEF MasterTalks, Users
<1>3. ASSUME NEW s \in Slaves, SlaveTalks(s)'
      PROVE  Users' = IF recvThread' # "release" THEN {s} ELSE {}
  <2>1. recvThread' # "release" <=> ~Idle(s)'
    BY <1>3, OnceHas DEF SlaveTalks, Holds, Idle, FreeUnderWay, ReleaseUnderWay
  <2> QED
    BY <1>3, <2>1 DEF SlaveTalks, ForSlave, Users
<1> QED
  BY <1>1, <1>2, <1>3

LEMMA UsersStay ==
  ASSUME \A s \in Slaves : SameTokens(s), CD_Trigger'[Master] = CD_Trigger[Master]
  PROVE  Users' = Users
<1>1. \A s \in Slaves : Idle(s)' <=> Idle(s)
  BY DEF SameTokens, Idle
<1> QED
  BY <1>1 DEF Users

\* A step that neither hands the channel on nor touches what it is held by.
LEMMA HeldStep ==
  ASSUME TalkInv, \A s \in Slaves : SameTokens(s), SameMaster,
         rtpPoll'[Master] = rtpPoll[Master], late'[Master] = late[Master],
         \A s \in Slaves : monitor'[s] = "take" => slave_busy'[s]
  PROVE  TalkInv' /\ FloorMove
<1>1. Holder'  BY HolderStays DEF TalkInv
<1>2. Lost' <=> Lost  BY DEF Lost, SameMaster
<1>3. Nobody => Nobody'  BY NobodyStays DEF SameMaster
<1>4. FloorMove  BY UsersStay DEF FloorMove, SameMaster
<1> QED  BY <1>1, <1>2, <1>3, <1>4 DEF TalkInv, SameMaster

\* What an unused link keeps, and a used one.
LEMMA LinksKept ==
  ASSUME NEW s \in Slaves, toSlave'[s] = toSlave[s], toMaster'[s] = toMaster[s],
         Transmitting(s)' <=> Transmitting(s)
  PROVE  SameTokens(s)
BY DEF SameTokens, FreeUnderWay, ReleaseUnderWay

LEMMA SentToSlave ==
  ASSUME NetType, NEW s \in Slaves, NEW m \in ToSlaveMsg, m # "free",
         toSlave'[s] = Append(toSlave[s], m) \/ toSlave'[s] = toSlave[s],
         toMaster'[s] = toMaster[s], Transmitting(s)' <=> Transmitting(s)
  PROVE  SameTokens(s)
<1>1. CASE toSlave'[s] = toSlave[s]  BY <1>1, LinksKept
<1>2. CASE toSlave'[s] = Append(toSlave[s], m)
  <2>1. toSlave[s] \in Seq(ToSlaveMsg)  BY DEF NetType
  <2>2. /\ Has(toSlave'[s], "free") <=> Has(toSlave[s], "free")
        /\ Once(toSlave[s], "free") => Once(toSlave'[s], "free")
    BY <1>2, <2>1, LinkAppend
  <2> QED  BY <2>2 DEF SameTokens, FreeUnderWay, ReleaseUnderWay
<1> QED  BY <1>1, <1>2

LEMMA TakenBySlave ==
  ASSUME NetType, NEW s \in Slaves, NEW m, m # "free", SlaveReceives(s, m),
         UNCHANGED CD_Trigger
  PROVE  \A t \in Slaves : SameTokens(t)
<1>1. /\ toSlave[s] # <<>> /\ Head(toSlave[s]) = m
      /\ toSlave' = [toSlave EXCEPT ![s] = Tail(@)]
      /\ UNCHANGED <<toMaster, slave_busy>>
  BY DEF SlaveReceives
<1>2. \A t \in Slaves : Transmitting(t)' <=> Transmitting(t)  BY <1>1 DEF Transmitting
<1>3. ASSUME NEW t \in Slaves, t # s
      PROVE  SameTokens(t)
  <2>1. toSlave'[t] = toSlave[t]  BY <1>1, <1>3 DEF NetType
  <2> QED  BY <1>1, <1>2, <2>1, LinksKept
<1>4. SameTokens(s)
  <2>1. toSlave[s] \in Seq(ToSlaveMsg) /\ toSlave'[s] = Tail(toSlave[s])
    BY <1>1 DEF NetType
  <2>2. /\ Has(toSlave'[s], "free") <=> Has(toSlave[s], "free")
        /\ Once(toSlave[s], "free") => Once(toSlave'[s], "free")
    BY <1>1, <2>1, LinkTail
  <2> QED  BY <1>1, <1>2, <2>2 DEF SameTokens, FreeUnderWay, ReleaseUnderWay
<1> QED  BY <1>3, <1>4

(***************************************************************************)
(* The threads' steps, one lemma for each way the channel changes hands.   *)
(***************************************************************************)

\* The slave that talks is the one who holds the channel by talking.
LEMMA TalkIsHeld ==
  ASSUME TalkInv, NEW s \in Slaves, Transmitting(s)
  PROVE  /\ SlaveTalks(s) /\ recvThread # "release" /\ ~Lost
         /\ ~FreeUnderWay(s) /\ ~ReleaseUnderWay(s)
<1>1. SlaveTalks(s)  BY HolderIs DEF TalkInv
<1>2. Lost => ~Transmitting(s)  BY DEF TalkInv, Nobody, Idle
<1> QED  BY <1>1, <1>2 DEF SlaveTalks, Holds, Idle

\* The master or a slave ends its own talk.
LEMMA EndOwnVoiceTalk ==
  ASSUME TypeOK, TalkInv, ~fault', NEW n \in Node, EndOwnVoice(n),
         UNCHANGED rtpPoll
  PROVE  TalkInv' /\ FloorMove
<1>1. CD_Trigger[n] /\ Transmitting(n)
  BY DEF EndOwnVoice, Transmitting
<1>2. CASE n = Master
  <2>1. /\ CD_Trigger' = [CD_Trigger EXCEPT ![Master] = FALSE]
        /\ toSlave' = [s \in Slaves |-> Append(toSlave[s], "end")]
        /\ channel_busy' = FALSE
        /\ UNCHANGED <<toMaster, Mulcast_Trigger, late, recvThread, slave_busy, monitor>>
    BY <1>2 DEF EndOwnVoice, StopRecording, Broadcast
  <2>2. MasterTalks  BY <1>1, <1>2, HolderIs DEF TalkInv
  <2>3. \A s \in Slaves : SameTokens(s)
    <3>1. NetType /\ "end" \in ToSlaveMsg  BY DEF TypeOK, ToSlaveMsg
    <3>2. \A s \in Slaves : Transmitting(s)' <=> Transmitting(s)
      BY <2>1, Gateways DEF Transmitting, TypeOK, NodeType
    <3> QED  BY <2>1, <3>1, <3>2, SentToSlave
  <2>4. Nobody'
    <3>1. ~CD_Trigger'[Master]  BY <2>1, Gateways DEF TypeOK, NodeType
    <3> QED  BY <2>1, <2>2, <2>3, <3>1, IdleStays DEF MasterTalks, Nobody
  <2>5. ~Mulcast_Trigger[Master]  BY <1>1, <1>2 DEF TalkInv
  <2>6. ~Lost /\ ~Lost'  BY <2>1, <2>5 DEF Lost
  <2>7. TheFloor!Free
    BY <2>1, <2>2, <2>4, UsersAre, UsersBecome DEF TheFloor!Free, MasterTalks
  <2> QED  BY <2>1, <2>4, <2>5, <2>6, <2>7 DEF TalkInv, Holder, FloorMove
<1>3. CASE n # Master
  <2>0. n \in Slaves  BY <1>3 DEF Node
  <2>1. /\ CD_Trigger' = [CD_Trigger EXCEPT ![n] = FALSE]
        /\ toMaster' = [toMaster EXCEPT ![n] = Append(@, "release")]
        /\ slave_busy' = [slave_busy EXCEPT ![n] = FALSE]
        /\ UNCHANGED <<toSlave, Mulcast_Trigger, late, recvThread, monitor, channel_busy,
                       status, timeout_flag>>
    BY <1>3 DEF EndOwnVoice, StopRecording, ReleaseChannelStatus, ForgetGrant
  <2>2. /\ SlaveTalks(n) /\ recvThread # "release" /\ ~Lost
        /\ ~FreeUnderWay(n) /\ ~ReleaseUnderWay(n)
    BY <1>1, <2>0, TalkIsHeld
  <2>3. ~slave_busy[n]  BY <1>1, <2>0 DEF Transmitting
  <2>4. \A t \in Slaves \ {n} : SameTokens(t)
    <3>1. ASSUME NEW t \in Slaves \ {n}
          PROVE  /\ CD_Trigger'[t] = CD_Trigger[t] /\ slave_busy'[t] = slave_busy[t]
                 /\ toMaster'[t] = toMaster[t]
      BY <2>0, <2>1 DEF TypeOK, NodeType, SlaveType, NetType, Node
    <3> QED  BY <2>1, <3>1, LinksKept DEF Transmitting
  <2>5. Holds(n)'
    <3>1. ~Transmitting(n)'  BY <2>0, <2>1 DEF Transmitting, TypeOK, NodeType, Node
    <3>2. ~FreeUnderWay(n)'  BY <2>1, <2>2 DEF FreeUnderWay
    <3>3. Once(toMaster'[n], "release")
      <4>1. toMaster[n] \in Seq(ToMasterMsg) /\ "release" \in ToMasterMsg
            /\ toMaster'[n] = Append(toMaster[n], "release")
        BY <2>0, <2>1 DEF TypeOK, NetType, ToMasterMsg
      <4> QED  BY <2>2, <4>1, LinkAppend DEF ReleaseUnderWay
    <3> QED  BY <2>1, <2>2, <3>1, <3>2, <3>3 DEF Holds
  <2>6. ForSlave'
    <3>1. CD_Trigger'[Master] = CD_Trigger[Master]
      BY <1>3, <2>0, <2>1, Gateways DEF TypeOK, NodeType
    <3> QED  BY <2>1, <2>2, <3>1 DEF SlaveTalks, ForSlave
  <2>7. SlaveTalks(n)' /\ Holder'
    BY <2>0, <2>2, <2>4, <2>5, <2>6, IdleStays DEF SlaveTalks, Holder
  <2>8. ~Lost'  BY <2>1, <2>2 DEF Lost
  <2>9. \A t \in Slaves : monitor'[t] = "take" => slave_busy'[t]
    BY <2>0, <2>1, <2>3 DEF TalkInv, TypeOK, SlaveType
  <2>10. rtpPoll'[Master] # "stop"  BY <2>2 DEF TalkInv
  <2>11. FloorMove
    BY <2>0, <2>1, <2>2, <2>7, UsersAre, UsersBecome DEF FloorMove
  <2> QED  BY <2>6, <2>7, <2>8, <2>9, <2>10, <2>11 DEF TalkInv, ForSlave
<1> QED  BY <1>2, <1>3

\* The master takes the channel.
LEMMA MasterTakes ==
  ASSUME TypeOK, TalkInv, CDFallMaster, MasterMayTalk
  PROVE  TalkInv' /\ FloorMove
<1>1. /\ CD_Trigger' = [CD_Trigger EXCEPT ![Master] = TRUE]
      /\ late' = [late EXCEPT ![Master] = FALSE]
      /\ toSlave' = [s \in Slaves |-> Append(toSlave[s], "begin")]
      /\ channel_busy' = TRUE
      /\ UNCHANGED <<toMaster, Mulcast_Trigger, recvThread, slave_busy, monitor, rtpPoll>>
  BY DEF CDFallMaster, StartRecording, Broadcast, threadVars, slaveVars
<1>2. Nobody  BY HolderIs DEF TalkInv, MasterMayTalk
<1>3. ~Mulcast_Trigger[Master]  BY DEF TalkInv, MasterMayTalk
<1>4. \A s \in Slaves : SameTokens(s)
  <2>1. NetType /\ "begin" \in ToSlaveMsg  BY DEF TypeOK, ToSlaveMsg
  <2>2. \A s \in Slaves : Transmitting(s)' <=> Transmitting(s)
    BY <1>1, Gateways DEF Transmitting, TypeOK, NodeType
  <2> QED  BY <1>1, <2>1, <2>2, SentToSlave
<1>5. CD_Trigger'[Master]  BY <1>1, Gateways DEF TypeOK, NodeType
<1>6. MasterTalks'  BY <1>1, <1>2, <1>4, <1>5, IdleStays DEF Nobody, MasterTalks
<1>7. ~Lost /\ ~Lost'  BY <1>1, <1>3 DEF Lost
<1>8. TheFloor!Take(Master)
  BY <1>1, <1>2, <1>6, UsersAre, UsersBecome DEF TheFloor!Take, MasterMayTalk
<1> QED  BY <1>1, <1>3, <1>6, <1>7, <1>8, Gateways DEF TalkInv, Holder, FloorMove

\* The master grants the channel to a slave, in the section under flag_mutex.
LEMMA GrantTalk ==
  ASSUME TypeOK, TalkInv, ~fault', NEW s \in Slaves, ReplyFree(s)
  PROVE  TalkInv' /\ FloorMove
<1>1. /\ toSlave' = [t \in Slaves |-> IF t = s THEN toSlave[t] \o <<"free", "begin">>
                                               ELSE Append(toSlave[t], "begin")]
      /\ Mulcast_Trigger' = [Mulcast_Trigger EXCEPT ![Master] = TRUE]
      /\ late' = [late EXCEPT ![Master] = FALSE]
      /\ ~channel_busy /\ channel_busy' = TRUE
      /\ status' = "WAIT_SLAVE_RELEASE_CHANNEL" /\ ~timeout_flag'
      /\ recvThread' = "recv"
      /\ UNCHANGED <<toMaster, CD_Trigger, slave_busy, monitor, rtpPoll>>
  BY DEF ReplyFree, Answers, StartReceiving, threadVars, slaveVars
<1>2. Nobody  BY <1>1, HolderIs DEF TalkInv
<1>3. ~Lost  BY <1>1 DEF TalkInv, Lost
<1>4. Mulcast_Trigger'[Master] /\ ~late'[Master]
  BY <1>1, Gateways DEF TypeOK, NodeType
<1>5. ForSlave'  BY <1>1, <1>2, <1>4 DEF Nobody, ForSlave
<1>6. \A t \in Slaves : Transmitting(t)' <=> Transmitting(t)  BY <1>1 DEF Transmitting
<1>7. \A t \in Slaves \ {s} : SameTokens(t)
  <2>1. NetType /\ "begin" \in ToSlaveMsg  BY DEF TypeOK, ToSlaveMsg
  <2>2. \A t \in Slaves \ {s} : toSlave'[t] = Append(toSlave[t], "begin") /\ toMaster'[t] = toMaster[t]
    BY <1>1
  <2> QED  BY <1>6, <2>1, <2>2, SentToSlave
<1>8. Holds(s)'
  <2>1. Idle(s)  BY <1>2 DEF Nobody
  <2>2. Once(toSlave'[s], "free")
    <3>1. /\ toSlave[s] \in Seq(ToSlaveMsg) /\ "free" \in ToSlaveMsg /\ "begin" \in ToSlaveMsg
          /\ toSlave'[s] = toSlave[s] \o <<"free", "begin">>
      BY <1>1 DEF TypeOK, NetType, ToSlaveMsg
    <3> DEFINE q == Append(toSlave[s], "free")
    <3>2. toSlave'[s] = Append(q, "begin") /\ q \in Seq(ToSlaveMsg)
      BY <3>1, LinkGrant
    <3>3. Once(q, "free")  BY <2>1, <3>1, LinkAppend DEF Idle, FreeUnderWay
    <3> HIDE DEF q
    <3>4. "begin" # "free"  OBVIOUS
    <3>5. Once(Append(q, "begin"), "free")
      BY ONLY <3>1, <3>2, <3>3, <3>4, LinkAppend
    <3> QED  BY <3>2, <3>5
  <2>3. ~ReleaseUnderWay(s)'  BY <1>1, <2>1 DEF Idle, ReleaseUnderWay
  <2> QED  BY <1>1, <1>2, <1>6, <2>1, <2>2, <2>3 DEF Holds, Nobody, Idle
<1>9. SlaveTalks(s)' /\ Holder'
  BY <1>2, <1>5, <1>7, <1>8, IdleStays DEF Nobody, SlaveTalks, Holder
<1>10. rtpPoll'[Master] # "stop"  BY <1>1, <1>3 DEF TalkInv
<1>11. TheFloor!Take(s)
  BY <1>1, <1>2, <1>9, UsersAre, UsersBecome DEF TheFloor!Take, Nobody
<1> QED  BY <1>1, <1>4, <1>5, <1>9, <1>10, <1>11, Gateways DEF TalkInv, ForSlave, Lost, FloorMove

\* A slave's answer arrives: it talks, or its local talk keeps the answer from
\* being taken and nobody holds the channel.
LEMMA FreeArrives ==
  ASSUME TypeOK, TalkInv, NEW s \in Slaves, SetChannelFree(s)
  PROVE  TalkInv' /\ FloorMove
<1>1. /\ toSlave[s] # <<>> /\ Head(toSlave[s]) = "free"
      /\ toSlave' = [toSlave EXCEPT ![s] = Tail(@)]
      /\ UNCHANGED <<toMaster, threadVars, masterVars, slave_busy, monitor>>
  BY DEF SetChannelFree, SlaveReceives
<1>2. UNCHANGED <<recvThread, channel_busy, status, timeout_flag, rtpPoll>>
  BY <1>1 DEF masterVars, threadVars
<1>3. /\ UNCHANGED Mulcast_Trigger /\ late'[Master] = late[Master]
      /\ \A n \in Node \ {s} : CD_Trigger'[n] = CD_Trigger[n]
  BY Gateways DEF SetChannelFree, StartRecording, nodeVars, TypeOK, NodeType
<1>4. toSlave[s] \in Seq(ToSlaveMsg) /\ toSlave'[s] = Tail(toSlave[s])
  BY <1>1 DEF TypeOK, NetType
<1>5. FreeUnderWay(s)
  BY <1>1, <1>4, LinkTail DEF FreeUnderWay
<1>6. SlaveTalks(s) /\ ~Lost
  BY <1>5, HolderIs DEF TalkInv, Nobody, Idle
<1>7. /\ recvThread # "release" /\ Once(toSlave[s], "free")
      /\ ~ReleaseUnderWay(s) /\ ~Transmitting(s)
  BY <1>5, <1>6 DEF SlaveTalks, Holds, Idle
<1>8. ~FreeUnderWay(s)' /\ ~ReleaseUnderWay(s)'
  BY <1>1, <1>4, <1>7, LinkTail DEF FreeUnderWay, ReleaseUnderWay
<1>9. \A t \in Slaves \ {s} : SameTokens(t)
  <2>1. ASSUME NEW t \in Slaves \ {s}
        PROVE  toSlave'[t] = toSlave[t] /\ (Transmitting(t)' <=> Transmitting(t))
    BY <1>1, <1>3, Gateways DEF TypeOK, NetType, Transmitting
  <2> QED  BY <1>1, <2>1, LinksKept
<1>10. \A t \in Slaves \ {s} : Idle(t)'  BY <1>6, <1>9, IdleStays DEF SlaveTalks
<1>11. ForSlave /\ ForSlave'
  BY <1>2, <1>3, <1>6, Gateways DEF SlaveTalks, ForSlave
<1>12. Holder' /\ FloorMove
  <2>0. Users = {s} /\ UNCHANGED channel_busy  BY <1>2, <1>6, <1>7, UsersAre
  <2>1. CASE slave_busy[s]
    <3>1. ~Transmitting(s)'  BY <1>1, <2>1 DEF Transmitting
    <3>2. Nobody'  BY <1>2, <1>7, <1>8, <1>10, <1>11, <3>1 DEF Nobody, Idle, ForSlave
    <3>3. TheFloor!Leave  BY <2>0, <3>2, UsersBecome DEF TheFloor!Leave
    <3> QED  BY <3>2, <3>3 DEF Holder, FloorMove
  <2>2. CASE ~slave_busy[s]
    <3>1. Transmitting(s)'
      BY <1>1, <2>2, Gateways DEF SetChannelFree, StartRecording, Transmitting, TypeOK, NodeType
    <3>2. Holds(s)'  BY <1>2, <1>7, <1>8, <3>1 DEF Holds
    <3>3. SlaveTalks(s)'  BY <1>10, <1>11, <3>2 DEF SlaveTalks
    <3>4. Users' = {s}  BY <1>2, <1>7, <3>3, UsersBecome
    <3> QED  BY <2>0, <3>3, <3>4 DEF Holder, FloorMove
  <2> QED  BY <2>1, <2>2
<1>13. ~Lost'  BY <1>3, <1>6 DEF Lost
<1>14. rtpPoll'[Master] # "stop"  BY <1>2, <1>6 DEF TalkInv
<1> QED  BY <1>1, <1>11, <1>12, <1>13, <1>14 DEF TalkInv, ForSlave

\* A release arrives: it is the release of the one who held the channel.
LEMMA ReleaseArrives ==
  ASSUME TypeOK, TalkInv, NEW s \in Slaves, ReleaseChannel(s)
  PROVE  TalkInv' /\ FloorMove
<1>1. /\ toMaster[s] # <<>> /\ Head(toMaster[s]) = "release"
      /\ toMaster' = [toMaster EXCEPT ![s] = Tail(@)]
      /\ UNCHANGED <<nodeVars, channel_busy, timeout_flag, slave_busy, monitor, toSlave, rtpPoll>>
  BY DEF ReleaseChannel, MasterReceives, slaveVars, threadVars
<1>2. UNCHANGED <<CD_Trigger, Mulcast_Trigger, late>>  BY <1>1 DEF nodeVars
<1>3. toMaster[s] \in Seq(ToMasterMsg) /\ toMaster'[s] = Tail(toMaster[s])
  BY <1>1 DEF TypeOK, NetType
<1>4. ReleaseUnderWay(s)
  BY <1>1, <1>3, LinkTail DEF ReleaseUnderWay
<1>5. SlaveTalks(s) /\ ~Lost
  BY <1>4, HolderIs DEF TalkInv, Nobody, Idle
<1>6. ~FreeUnderWay(s) /\ Once(toMaster[s], "release") /\ ~Transmitting(s)
  BY <1>4, <1>5 DEF SlaveTalks, Holds, Idle
<1>7. recvThread' = "release" /\ UNCHANGED status
  BY <1>5 DEF ReleaseChannel, SlaveTalks, ForSlave
<1>8. ForSlave'  BY <1>1, <1>2, <1>5, <1>7 DEF SlaveTalks, ForSlave
<1>9. Idle(s)'
  <2>1. ~ReleaseUnderWay(s)'  BY <1>1, <1>3, <1>6, LinkTail DEF ReleaseUnderWay
  <2> QED  BY <1>1, <1>2, <1>6, <2>1 DEF Idle, FreeUnderWay, Transmitting
<1>10. \A t \in Slaves \ {s} : Idle(t)'
  <2>1. ASSUME NEW t \in Slaves \ {s}
        PROVE  SameTokens(t)
    <3>1. toMaster'[t] = toMaster[t]  BY <1>1 DEF TypeOK, NetType
    <3> QED  BY <1>1, <1>2, <3>1, LinksKept DEF Transmitting
  <2> QED  BY <1>5, <2>1, IdleStays DEF SlaveTalks
<1>11. SlaveTalks(s)' /\ Holder'  BY <1>7, <1>8, <1>9, <1>10 DEF Holds, SlaveTalks, Holder
<1>12. ~Lost'  BY <1>2, <1>5 DEF Lost
<1>13. rtpPoll'[Master] # "stop"  BY <1>1, <1>5 DEF TalkInv
<1>14. TheFloor!Leave
  <2>1. recvThread = "recv"  BY DEF ReleaseChannel, MasterReceives
  <2> QED
    BY <1>1, <1>5, <1>7, <1>11, <2>1, UsersAre, UsersBecome DEF TheFloor!Leave
<1> QED  BY <1>1, <1>8, <1>11, <1>12, <1>13, <1>14 DEF TalkInv, ForSlave, FloorMove

\* The master ends the voice of the slave that held the channel.
LEMMA EndSlaveTalk ==
  ASSUME TypeOK, TalkInv, EndSlaveVoice
  PROVE  TalkInv' /\ FloorMove
<1>1. /\ recvThread = "release" /\ recvThread' = "recv"
      /\ toSlave' = [s \in Slaves |-> Append(toSlave[s], "end")]
      /\ Mulcast_Trigger' = [Mulcast_Trigger EXCEPT ![Master] = FALSE]
      /\ channel_busy' = FALSE
      /\ UNCHANGED <<CD_Trigger, late, slave_busy, monitor, toMaster, rtpPoll>>
  BY DEF EndSlaveVoice, Broadcast, StopReceiving, slaveVars, threadVars
<1>2. PICK s \in Slaves : SlaveTalks(s)  BY <1>1, HolderIs DEF TalkInv
<1>3. ~CD_Trigger[Master] /\ \A t \in Slaves : Idle(t)
  BY <1>1, <1>2 DEF SlaveTalks, ForSlave, Holds
<1>4. \A t \in Slaves : SameTokens(t)
  <2>1. NetType /\ "end" \in ToSlaveMsg  BY DEF TypeOK, ToSlaveMsg
  <2>2. \A t \in Slaves : Transmitting(t)' <=> Transmitting(t)  BY <1>1 DEF Transmitting
  <2> QED  BY <1>1, <2>1, <2>2, SentToSlave
<1>5. Nobody'  BY <1>1, <1>3, <1>4, IdleStays DEF Nobody
<1>6. ~Mulcast_Trigger'[Master]  BY <1>1, Gateways DEF TypeOK, NodeType
<1>7. ~Lost  BY <1>1 DEF TalkInv, Nobody
<1>8. rtpPoll'[Master] # "stop"  BY <1>1, <1>7 DEF TalkInv
<1>9. TheFloor!Free
  BY <1>1, <1>2, <1>5, UsersAre, UsersBecome DEF TheFloor!Free, SlaveTalks, ForSlave
<1> QED  BY <1>1, <1>5, <1>6, <1>8, <1>9 DEF TalkInv, Holder, Lost, FloorMove

\* A slave that holds the channel takes itself for alone: nobody holds it then.
LEMMA LocalTalk ==
  ASSUME TypeOK, TalkInv, NEW s \in Slaves, LocalSet(s) \/ LocalTake(s)
  PROVE  TalkInv' /\ FloorMove
<1>1. UNCHANGED <<toSlave, toMaster, recvThread, channel_busy, status, timeout_flag,
                  Mulcast_Trigger, rtpPoll>>
  BY DEF LocalSet, LocalTake, StartRecording, nodeVars, threadVars, masterVars, netVars
<1>2. /\ late'[Master] = late[Master] /\ CD_Trigger'[Master] = CD_Trigger[Master]
      /\ \A t \in Slaves \ {s} : CD_Trigger'[t] = CD_Trigger[t] /\ slave_busy'[t] = slave_busy[t]
  BY Gateways DEF LocalSet, LocalTake, StartRecording, nodeVars, TypeOK, NodeType, SlaveType
<1>3. \A t \in Slaves \ {s} : SameTokens(t)
  BY <1>1, <1>2, LinksKept DEF Transmitting
<1>4. \A t \in Slaves : monitor'[t] = "take" => slave_busy'[t]
  <2>1. CASE LocalSet(s)
    BY <2>1 DEF LocalSet, TalkInv, TypeOK, SlaveType
  <2>2. CASE LocalTake(s)
    BY <2>2 DEF LocalTake, TalkInv, TypeOK, SlaveType
  <2> QED  BY <2>1, <2>2
<1>5. ForSlave => ForSlave'  BY <1>1, <1>2 DEF ForSlave
<1>6. CASE Transmitting(s)' <=> Transmitting(s)
  <2>1. \A t \in Slaves : SameTokens(t)  BY <1>1, <1>3, <1>6, LinksKept
  <2>2. SameMaster  BY <1>1, <1>2, <1>5 DEF SameMaster
  <2> QED  BY <1>1, <1>2, <1>4, <2>1, <2>2, HeldStep
<1>7. CASE ~(Transmitting(s)' <=> Transmitting(s))
  <2>1. LocalSet(s)
    BY <1>7 DEF LocalTake, TalkInv, Transmitting
  <2>2. Transmitting(s) /\ ~Transmitting(s)'
    <3>1. UNCHANGED CD_Trigger /\ (slave_busy'[s] \/ slave_busy'[s] = slave_busy[s])
      BY <2>1 DEF LocalSet, nodeVars, TypeOK, SlaveType
    <3> QED  BY <1>7, <3>1 DEF Transmitting
  <2>3. /\ SlaveTalks(s) /\ recvThread # "release" /\ ~Lost
        /\ ~FreeUnderWay(s) /\ ~ReleaseUnderWay(s)
    BY <2>2, TalkIsHeld
  <2>4. Nobody'
    <3>1. Idle(s)'  BY <1>1, <2>2, <2>3 DEF Idle, FreeUnderWay, ReleaseUnderWay
    <3>2. \A t \in Slaves \ {s} : Idle(t)'  BY <1>3, <2>3, IdleStays DEF SlaveTalks
    <3> QED  BY <1>1, <1>2, <2>3, <3>1, <3>2 DEF Nobody, SlaveTalks, ForSlave
  <2>5. ~Lost'  BY <1>1, <1>2, <2>3 DEF Lost
  <2>6. rtpPoll'[Master] # "stop"  BY <1>1, <2>3 DEF TalkInv
  <2>7. TheFloor!Leave
    BY <1>1, <2>3, <2>4, UsersAre, UsersBecome DEF TheFloor!Leave
  <2> QED  BY <1>1, <1>2, <1>4, <2>4, <2>5, <2>6, <2>7 DEF TalkInv, Holder, FloorMove
<1> QED  BY <1>6, <1>7

\* A limit runs out; for the master as a listener, only with nobody talking.
LEMMA ExpireTalk ==
  ASSUME TypeOK, TalkInv, ~fault', NEW n \in Node, Expire(n)
  PROVE  TalkInv' /\ FloorMove
<1>1. /\ late' = [late EXCEPT ![n] = TRUE]
      /\ UNCHANGED <<CD_Trigger, Mulcast_Trigger, toSlave, toMaster, recvThread,
                     channel_busy, status, timeout_flag, slave_busy, monitor, rtpPoll>>
  BY DEF Expire, threadVars, masterVars, slaveVars, netVars
<1>2. \A s \in Slaves : SameTokens(s)  BY <1>1, LinksKept DEF Transmitting
<1>3. SameMaster  BY <1>1 DEF SameMaster, ForSlave
<1>4. FloorMove  BY <1>2, <1>3, UsersStay DEF SameMaster, FloorMove
<1>5. CASE n # Master \/ ~Mulcast_Trigger[Master]
  <2>1. Lost' <=> Lost  BY <1>1, <1>5, Gateways DEF Lost, TypeOK, NodeType
  <2>2. Nobody => Nobody'  BY <1>2, <1>3, NobodyStays DEF SameMaster
  <2> QED  BY <1>1, <1>2, <1>3, <1>4, <2>1, <2>2, HolderStays DEF TalkInv
<1>6. CASE n = Master /\ Mulcast_Trigger[Master]
  <2>1. Settled /\ \A s \in Slaves : ~Transmitting(s)  BY <1>6, Gateways DEF Expire
  <2>2. ASSUME NEW s \in Slaves
        PROVE  Idle(s)
    <3>1. toSlave[s] = <<>> /\ toMaster[s] = <<>>  BY <2>1 DEF Settled
    <3>2. ~FreeUnderWay(s) /\ ~ReleaseUnderWay(s)
      BY <3>1 DEF FreeUnderWay, ReleaseUnderWay, Has
    <3> QED  BY <2>1, <3>2 DEF Idle
  <2>3. Nobody  BY <1>6, <2>1, <2>2 DEF Nobody, Settled, TalkInv
  <2>4. Nobody'  BY <1>2, <1>3, <2>3, NobodyStays DEF SameMaster
  <2>5. rtpPoll'[Master] # "stop"  BY <1>1, <2>1, Gateways DEF Settled
  <2> QED  BY <1>1, <1>4, <2>4, <2>5 DEF TalkInv, Holder
<1> QED  BY <1>5, <1>6

\* The two timers decide and the listening timer acts.
LEMMA TimersTalk ==
  ASSUME TypeOK, TalkInv, ~fault', NEW n \in Node,
         TimeDecide(n) \/ RtpTimeout(n) \/ RtpStop(n)
  PROVE  TalkInv' /\ FloorMove
<1>1. UNCHANGED <<CD_Trigger, toSlave, toMaster, recvThread, status, slave_busy, monitor, late>>
  BY DEF TimeDecide, RtpTimeout, RtpStop, StopReceiving, nodeVars, slaveVars, netVars
<1>2. \A s \in Slaves : SameTokens(s)  BY <1>1, LinksKept DEF Transmitting
<1>3. CASE RtpStop(n) /\ n = Master
  <2>1. /\ rtpPoll[Master] = "stop" /\ rtpPoll'[Master] = "poll"
        /\ ~Mulcast_Trigger'[Master]
    BY <1>3, Gateways DEF RtpStop, StopReceiving, TypeOK, NodeType, ThreadType
  <2>2. Nobody  BY <2>1 DEF TalkInv
  <2>3. Nobody'  BY <1>1, <1>2, <2>2, NobodyStays
  <2>4. Users = {} /\ Users' = {}  BY <2>2, <2>3, UsersAre, UsersBecome
  <2>5. channel_busy \in BOOLEAN /\ channel_busy' = FALSE
    BY <1>3 DEF RtpStop, BusyAfterTimeout, TypeOK, MasterType
  <2>6. FloorMove  BY <2>4, <2>5 DEF FloorMove, TheFloor!Free
  <2> QED  BY <1>1, <2>1, <2>3, <2>6 DEF TalkInv, Holder, Lost
<1>4. CASE RtpTimeout(n) /\ n = Master
  <2>1. Lost /\ UNCHANGED <<Mulcast_Trigger, channel_busy>>
    BY <1>4 DEF RtpTimeout, ListenOver, Lost, nodeVars
  <2>2. Nobody'  BY <1>1, <1>2, <2>1, NobodyStays DEF TalkInv
  <2>3. Lost'  BY <1>1, <2>1 DEF Lost
  <2>4. FloorMove  BY <1>1, <1>2, <2>1, UsersStay DEF FloorMove
  <2> QED  BY <1>1, <2>1, <2>2, <2>3, <2>4 DEF TalkInv, Holder
<1>5. CASE TimeDecide(n) \/ n # Master
  <2>1. /\ rtpPoll'[Master] = rtpPoll[Master]
        /\ channel_busy' = channel_busy /\ Mulcast_Trigger'[Master] = Mulcast_Trigger[Master]
    BY <1>5, Gateways DEF TimeDecide, RtpTimeout, RtpStop, StopReceiving, BusyAfterTimeout,
       nodeVars, TypeOK, NodeType, ThreadType, MasterType
  <2>2. ForSlave => timeout_flag' = timeout_flag
    <3>1. CASE n # Master
      BY <3>1 DEF TimeDecide, RtpTimeout, RtpStop, TypeOK, MasterType
    <3>2. CASE TimeDecide(Master)
      BY <3>2 DEF TimeDecide, TalkOver, ForSlave
    <3> QED  BY <1>5, <3>1, <3>2
  <2>3. SameMaster  BY <1>1, <2>1, <2>2 DEF SameMaster, ForSlave
  <2> QED  BY <1>1, <1>2, <2>1, <2>3, HeldStep DEF TalkInv
<1> QED  BY <1>3, <1>4, <1>5

\* The master takes a request, and answers one that it does not grant.
LEMMA RequestTakenTalk ==
  ASSUME TypeOK, TalkInv, NEW s \in Slaves, GetChannelStatus(s)
  PROVE  TalkInv' /\ FloorMove
<1>1. /\ toMaster[s] # <<>> /\ Head(toMaster[s]) = "get" /\ recvThread = "recv"
      /\ toMaster' = [toMaster EXCEPT ![s] = Tail(@)]
      /\ status' = StatusNow /\ timeout_flag' = FALSE /\ recvThread' # "release"
      /\ UNCHANGED <<nodeVars, channel_busy, slave_busy, monitor, rtpPoll, toSlave>>
  BY DEF GetChannelStatus, MasterReceives, threadVars, slaveVars
<1>2. UNCHANGED <<CD_Trigger, Mulcast_Trigger, late>>  BY <1>1 DEF nodeVars
<1>3. ASSUME NEW t \in Slaves
      PROVE  SameTokens(t)
  <2>1. /\ Has(toMaster'[t], "release") <=> Has(toMaster[t], "release")
        /\ Once(toMaster[t], "release") => Once(toMaster'[t], "release")
    <3>1. CASE t # s  BY <1>1, <3>1 DEF TypeOK, NetType
    <3>2. CASE t = s
      <4>1. toMaster[t] \in Seq(ToMasterMsg) /\ toMaster'[t] = Tail(toMaster[t])
        BY <1>1, <3>2 DEF TypeOK, NetType
      <4> QED  BY <1>1, <3>2, <4>1, LinkTail
    <3> QED  BY <3>1, <3>2
  <2> QED
    BY <1>1, <1>2, <2>1 DEF SameTokens, FreeUnderWay, ReleaseUnderWay, Transmitting
<1>4. SameMaster  BY <1>1, <1>2 DEF SameMaster, ForSlave, StatusNow
<1> QED  BY <1>1, <1>2, <1>3, <1>4, HeldStep DEF TalkInv

LEMMA RefusalTalk ==
  ASSUME TypeOK, TalkInv, NEW s \in Slaves, ReplyBusy(s)
  PROVE  TalkInv' /\ FloorMove
<1>1. /\ \A t \in Slaves : toSlave'[t] = Append(toSlave[t], "busy") \/ toSlave'[t] = toSlave[t]
      /\ recvThread = "answer" /\ recvThread' = "recv"
      /\ UNCHANGED <<nodeVars, channel_busy, status, timeout_flag, slave_busy, monitor,
                     rtpPoll, toMaster>>
  BY DEF ReplyBusy, Answers, threadVars, slaveVars, TypeOK, NetType
<1>2. UNCHANGED <<CD_Trigger, Mulcast_Trigger, late>>  BY <1>1 DEF nodeVars
<1>3. \A t \in Slaves : SameTokens(t)
  <2>1. NetType /\ "busy" \in ToSlaveMsg /\ "busy" # "free"  BY DEF TypeOK, ToSlaveMsg
  <2> QED  BY <1>1, <1>2, <2>1, SentToSlave DEF Transmitting
<1>4. SameMaster  BY <1>1, <1>2 DEF SameMaster, ForSlave
<1> QED  BY <1>1, <1>2, <1>3, <1>4, HeldStep DEF TalkInv

\* A slave's request, and the datagrams that hand nothing on.
LEMMA OtherMessagesTalk ==
  ASSUME TypeOK, TalkInv, NEW s \in Slaves,
         \/ CDAsk(s) \/ SetChannelBusy(s)
         \/ BeginRecorderVoice(s) \/ EndRecorderVoice(s)
  PROVE  TalkInv' /\ FloorMove
<1>1. /\ UNCHANGED <<CD_Trigger, recvThread, channel_busy, status, timeout_flag,
                     slave_busy, monitor, rtpPoll>>
      /\ Mulcast_Trigger'[Master] = Mulcast_Trigger[Master] /\ late'[Master] = late[Master]
  BY Gateways DEF CDAsk, SetChannelBusy, BeginRecorderVoice, EndRecorderVoice,
     SlaveReceives, StartReceiving, StopReceiving, nodeVars, masterVars, threadVars,
     TypeOK, NodeType
<1>2. \A t \in Slaves : SameTokens(t)
  <2>1. CASE SetChannelBusy(s) \/ BeginRecorderVoice(s) \/ EndRecorderVoice(s)
    <3>1. NetType  BY DEF TypeOK
    <3>2. PICK m \in {"busy", "begin", "end"} : SlaveReceives(s, m)
      BY <2>1 DEF SetChannelBusy, BeginRecorderVoice, EndRecorderVoice
    <3>3. m # "free"  OBVIOUS
    <3> QED  BY <1>1, <3>1, <3>2, <3>3, TakenBySlave
  <2>2. CASE CDAsk(s)
    <3>1. toSlave' = toSlave  BY <2>2 DEF CDAsk
    <3>2. ASSUME NEW t \in Slaves
          PROVE  SameTokens(t)
      <4>1. toMaster[t] \in Seq(ToMasterMsg) /\ "get" \in ToMasterMsg
        BY DEF TypeOK, NetType, ToMasterMsg
      <4>2. toMaster'[t] = Append(toMaster[t], "get") \/ toMaster'[t] = toMaster[t]
        BY <2>2 DEF CDAsk, GetStatus, TypeOK, NetType
      <4>3. /\ Has(toMaster'[t], "release") <=> Has(toMaster[t], "release")
            /\ Once(toMaster[t], "release") => Once(toMaster'[t], "release")
        <5>1. CASE toMaster'[t] = toMaster[t]  BY <5>1
        <5>2. CASE toMaster'[t] = Append(toMaster[t], "get")
          BY <4>1, <5>2, LinkAppend
        <5> QED  BY <4>2, <5>1, <5>2
      <4> QED
        BY <1>1, <3>1, <4>3 DEF SameTokens, FreeUnderWay, ReleaseUnderWay, Transmitting
    <3> QED  BY <3>2
  <2> QED  BY <2>1, <2>2
<1>3. SameMaster  BY <1>1 DEF SameMaster, ForSlave
<1> QED  BY <1>1, <1>2, <1>3, HeldStep DEF TalkInv

\* The steps of users and of threads that only look.
LEMMA OtherStepsTalk ==
  ASSUME TypeOK, TalkInv,
         UNCHANGED <<nodeVars, masterVars, slave_busy, toMaster, toSlave, rtpPoll>>,
         \A s \in Slaves : monitor'[s] = "take" => monitor[s] = "take"
  PROVE  TalkInv' /\ FloorMove
<1>1. \A s \in Slaves : SameTokens(s)  BY LinksKept DEF nodeVars, Transmitting
<1>2. SameMaster  BY DEF nodeVars, masterVars, SameMaster, ForSlave
<1> QED  BY <1>1, <1>2, HeldStep DEF nodeVars, TalkInv

LEMMA TalkStep == TypeOK /\ TalkInv /\ [Next]_vars /\ ~fault' => TalkInv' /\ FloorMove
<1> SUFFICES ASSUME TypeOK, TalkInv, [Next]_vars, ~fault' PROVE TalkInv' /\ FloorMove
  OBVIOUS
<1>1. ASSUME NEW n \in Node, Press(n) \/ LetGo(n) \/ CDRise(n) \/ CDFallSlave(n)
      PROVE  TalkInv' /\ FloorMove
  <2>1. UNCHANGED <<nodeVars, masterVars, slaveVars, netVars, rtpPoll>>
    BY <1>1 DEF Press, LetGo, CDRise, CDFallSlave, threadVars
  <2> QED  BY <2>1, OtherStepsTalk DEF slaveVars, netVars
<1>2. ASSUME NEW n \in Node, CDRelease(n) \/ TimeStop(n) PROVE TalkInv' /\ FloorMove
  BY <1>2, EndOwnVoiceTalk DEF CDRelease, TimeStop
<1>3. ASSUME CDFallMaster PROVE TalkInv' /\ FloorMove
  <2>1. CASE MasterMayTalk  BY <1>3, <2>1, MasterTakes
  <2>2. CASE ~MasterMayTalk
    <3>1. UNCHANGED <<nodeVars, toSlave, channel_busy, threadVars, status, timeout_flag,
                      recvThread, asker, slaveVars, toMaster>>
      BY <1>3, <2>2 DEF CDFallMaster
    <3> QED  BY <3>1, OtherStepsTalk DEF masterVars, slaveVars, threadVars
  <2> QED  BY <2>1, <2>2
<1>4. ASSUME NEW s \in Slaves, GetChannelStatus(s) \/ ReplyBusy(s) \/ ReplyFree(s)
      PROVE  TalkInv' /\ FloorMove
  BY <1>4, RequestTakenTalk, RefusalTalk, GrantTalk
<1>5. ASSUME NEW s \in Slaves, MonitorWake(s) PROVE TalkInv' /\ FloorMove
  <2>1. /\ UNCHANGED <<nodeVars, masterVars, slave_busy, netVars, threadVars>>
        /\ \A t \in Slaves : monitor'[t] = "take" => monitor[t] = "take"
    BY <1>5 DEF MonitorWake, TypeOK, SlaveType
  <2> QED  BY <2>1, OtherStepsTalk DEF netVars, threadVars
<1>6. ASSUME NEW s \in Slaves, Lose(s) PROVE FALSE
  BY <1>6 DEF Lose
<1>7. CASE UNCHANGED vars
  BY <1>7, OtherStepsTalk DEF vars, slaveVars, netVars, threadVars
<1> QED
  BY <1>1, <1>2, <1>3, <1>4, <1>5, <1>6, <1>7, ExpireTalk, TimersTalk, FreeArrives,
     ReleaseArrives, EndSlaveTalk, LocalTalk, OtherMessagesTalk
     DEF Next, User, CDPollThread, TimePollThread, MulcastPortPollThread,
         MasterRecvThread, SlaveRecvThread, MonitorStatusThread

\* A fault is not forgotten.
LEMMA FaultStays == TypeOK /\ fault /\ [Next]_vars => fault'
<1> SUFFICES ASSUME fault, [Next]_vars PROVE fault'
  OBVIOUS
<1>1. ASSUME NEW n \in Node
      PROVE  /\ User(n) \/ Expire(n) => fault'
             /\ CDPollThread(n) \/ TimePollThread(n) \/ MulcastPortPollThread(n) => fault'
  BY DEF User, Press, LetGo, Expire, CDPollThread, CDRise, CDRelease, CDFallMaster,
     CDFallSlave, CDAsk, TimePollThread, TimeDecide, TimeStop, EndOwnVoice,
     MulcastPortPollThread, RtpTimeout, RtpStop
<1>2. MasterRecvThread => fault'
  BY DEF MasterRecvThread, EndSlaveVoice, GetChannelStatus, ReplyBusy, ReplyFree,
     ReleaseChannel
<1>3. ASSUME NEW s \in Slaves
      PROVE  SlaveRecvThread(s) \/ MonitorStatusThread(s) \/ Lose(s) => fault'
  BY DEF SlaveRecvThread, SetChannelBusy, SetChannelFree, BeginRecorderVoice,
     EndRecorderVoice, SlaveReceives, MonitorStatusThread, MonitorWake, LocalSet,
     LocalTake, Lose
<1>4. UNCHANGED vars => fault'  BY DEF vars
<1> QED  BY <1>1, <1>2, <1>3, <1>4 DEF Next

\* Until the first fault the channel is held by one gateway, or by none.
THEOREM OneHolder == Spec => [](fault \/ TalkInv)
<1>1. Init => TalkInv
  <2> SUFFICES ASSUME Init PROVE TalkInv
    OBVIOUS
  <2>1. ~CD_Trigger[Master] /\ ~Mulcast_Trigger[Master] /\ rtpPoll[Master] # "stop"
    BY Gateways DEF Init
  <2>2. ASSUME NEW s \in Slaves
        PROVE  Idle(s) /\ monitor[s] # "take"
    <3>1. toSlave[s] = <<>> /\ toMaster[s] = <<>> /\ ~Transmitting(s) /\ monitor[s] # "take"
      BY Gateways DEF Init, Transmitting
    <3> QED  BY <3>1 DEF Idle, FreeUnderWay, ReleaseUnderWay, Has
  <2>3. Nobody  BY <2>1, <2>2 DEF Init, Nobody
  <2> QED  BY <2>1, <2>2, <2>3 DEF TalkInv, Holder, Lost
<1>2. TypeOK /\ (fault \/ TalkInv) /\ [Next]_vars => (fault \/ TalkInv)'
  BY TalkStep, FaultStays
<1> QED
  BY <1>1, <1>2, TypeCorrect, PTL DEF Spec

\* Until the first fault the channel is taken and given back as Floor says: from
\* one gateway to another only by way of being free, and never freed while a
\* slave holds it (KeepsFloor).
THEOREM FloorIsKept == Spec => KeepsFloor
<1>1. Init => TheFloor!Init
  <2> SUFFICES ASSUME Init PROVE TheFloor!Init
    OBVIOUS
  <2>1. ASSUME NEW s \in Slaves PROVE Idle(s)
    <3>1. toSlave[s] = <<>> /\ toMaster[s] = <<>> /\ ~Transmitting(s)
      BY Gateways DEF Init, Transmitting
    <3> QED  BY <3>1 DEF Idle, FreeUnderWay, ReleaseUnderWay, Has
  <2>2. ~CD_Trigger[Master] /\ ~channel_busy /\ ~fault  BY Gateways DEF Init
  <2> QED  BY <2>1, <2>2 DEF TheFloor!Init, Users
<1>2. TypeOK /\ TypeOK' /\ (fault \/ TalkInv) /\ [Next]_vars => [TheFloor!Next]_(TheFloor!vars)
  <2> SUFFICES ASSUME TypeOK, TypeOK', fault \/ TalkInv, [Next]_vars
               PROVE  TheFloor!Next \/ UNCHANGED TheFloor!vars
    OBVIOUS
  <2>1. CASE fault'
    <3>1. Users' \in SUBSET Node  BY DEF Users, Node
    <3> QED  BY <2>1, <3>1 DEF TheFloor!Next, TypeOK, MasterType
  <2>2. CASE ~fault'
    <3>1. ~fault /\ UNCHANGED fault  BY <2>2, FaultStays DEF TypeOK
    <3>2. FloorMove  BY <2>2, <3>1, TalkStep
    <3> QED  BY <3>1, <3>2 DEF FloorMove, TheFloor!Next, TheFloor!vars
  <2> QED  BY <2>1, <2>2
<1> QED
  BY <1>1, <1>2, OneHolder, TypeCorrect, PTL DEF Spec, KeepsFloor, TheFloor!Spec

\* Until the first fault no release is stray or ignored: when one arrives nobody
\* talks any more, not even its sender, and the master ends the voice it listens
\* to.  EndIsOfTheTalker, which channel_end refutes, fails after a fault only.
\* Among the faults is a grant decided before a limit ran out (ReplyFree): with
\* timeout_flag left set, the next request resets status and the release of the
\* talk that was granted is ignored.
THEOREM ReleaseEndsItsTalk ==
  Spec => [][~fault' => \A s \in Slaves : ReleaseChannel(s) =>
               recvThread' = "release" /\ \A n \in Node : ~Transmitting(n)]_vars
<1>1. ASSUME TypeOK, TalkInv, NEW s \in Slaves, ReleaseChannel(s)
      PROVE  recvThread' = "release" /\ \A n \in Node : ~Transmitting(n)
  <2>1. toMaster[s] # <<>> /\ toMaster[s][1] = "release" /\ Len(toMaster[s]) \in Nat
    BY <1>1 DEF ReleaseChannel, MasterReceives, TypeOK, NetType
  <2>2. ReleaseUnderWay(s)
    BY <1>1, <2>1 DEF ReleaseUnderWay, Has, TypeOK, NetType
  <2>3. SlaveTalks(s)
    BY <1>1, <2>2, HolderIs DEF TalkInv, Idle
  <2>4. \A t \in Slaves : ~Transmitting(t)
    BY <2>2, <2>3 DEF SlaveTalks, Holds, Idle
  <2>5. ~Transmitting(Master)
    BY <2>3 DEF SlaveTalks, ForSlave, Transmitting
  <2>6. recvThread' = "release"
    BY <1>1, <2>3 DEF ReleaseChannel, SlaveTalks, ForSlave
  <2> QED
    BY <2>4, <2>5, <2>6 DEF Node
<1>2. TypeOK /\ (fault \/ TalkInv) /\ [Next]_vars =>
        (~fault' => \A s \in Slaves : ReleaseChannel(s) =>
           recvThread' = "release" /\ \A n \in Node : ~Transmitting(n))
  BY <1>1, FaultStays
<1> QED
  BY <1>2, OneHolder, TypeCorrect, PTL DEF Spec

\* At most one gateway sends its voice to the others.
THEOREM OneTalkerAtATime == Spec => []OneTalker
<1>1. (fault \/ TalkInv) => OneTalker
  <2> SUFFICES ASSUME TalkInv, NEW m \in Node, NEW n \in Node,
                      Transmitting(m), Transmitting(n)
               PROVE  m = n
    BY DEF OneTalker
  <2>1. CASE Nobody
    BY <2>1 DEF Nobody, Idle, Transmitting, Node
  <2>2. CASE MasterTalks
    BY <2>2 DEF MasterTalks, Idle, Node
  <2>3. ASSUME NEW s \in Slaves, SlaveTalks(s) PROVE m = n
    BY <2>3 DEF SlaveTalks, ForSlave, Idle, Transmitting, Node
  <2> QED  BY <2>1, <2>2, <2>3 DEF TalkInv, Holder
<1> QED  BY <1>1, OneHolder, PTL

\* A slave that talks is the one the master holds the channel for.
THEOREM TalkerKnown == Spec => []TalkerIsKnown
<1>1. (fault \/ TalkInv) => TalkerIsKnown
  BY HolderIs DEF TalkInv, TalkerIsKnown, SlaveTalks, ForSlave
<1> QED  BY <1>1, OneHolder, PTL
-----------------------------------------------------------------------------
(***************************************************************************)
(* One role.  A slave listens from a "begin" to an "end".  The links keep  *)
(* their order, so that a slave that is granted the channel, or asks for   *)
(* it, has the end of what it hears before the answer or is hearing the    *)
(* talk for which the master holds the channel.                            *)
(***************************************************************************)
Ends(q, i) == \E j \in 1..Len(q) : j > i /\ q[j] = "end"

\* Every talk announced on a link ends there.
AllEnd(q) == \A i \in 1..Len(q) : q[i] = "begin" => Ends(q, i)

\* So do those announced before a grant, and none ends after it.
FreeLast(q) ==
  \A k \in 1..Len(q) : q[k] = "free" =>
    /\ ~Ends(q, k)
    /\ \A i \in 1..Len(q) : i < k /\ q[i] = "begin" => Ends(q, i)

Heard(s) == Mulcast_Trigger[s] => Has(toSlave[s], "end")
Proper == channel_busy /\ ~Lost

\* A slave asks from the moment its CD thread has decided to until the master
\* answers.
Asks(s) == cdThread[s] = "ask" \/ Has(toMaster[s], "get") \/ asker = s

Listens(s) ==
  /\ CD_Trigger[s] \/ monitor[s] = "take" => ~Mulcast_Trigger[s]
  /\ Mulcast_Trigger[s] => playback_start[s]
  /\ Transmitting(s) => channel_applied[s] /\ ~Has(toSlave[s], "end")
  /\ FreeLast(toSlave[s])
  /\ FreeUnderWay(s) => Heard(s)
  /\ Proper \/ AllEnd(toSlave[s])
  /\ Asks(s) => Proper \/ Heard(s)

RoleInv == \A s \in Slaves : Listens(s)

LEMMA OrderAppend ==
  ASSUME NEW S, NEW q \in Seq(S), NEW x \in S
  PROVE  /\ x = "end" => AllEnd(Append(q, x))
         /\ x # "begin" /\ AllEnd(q) => AllEnd(Append(q, x))
         /\ x \notin {"end", "free"} /\ FreeLast(q) => FreeLast(Append(q, x))
         /\ x = "free" /\ FreeLast(q) /\ AllEnd(q) => FreeLast(Append(q, x))
         /\ x = "end" /\ ~Has(q, "free") => FreeLast(Append(q, x))
<1> DEFINE r == Append(q, x)
<1>1. /\ Len(q) \in Nat /\ Len(r) = Len(q) + 1 /\ r[Len(q) + 1] = x
      /\ \A i \in 1..Len(q) : r[i] = q[i]
  OBVIOUS
<1> HIDE DEF r
<1>2. \A i \in 1..Len(r) : i \in 1..Len(q) \/ i = Len(q) + 1  BY <1>1
<1>3. \A i \in 1..Len(q) : i \in 1..Len(r) /\ i < Len(q) + 1  BY <1>1
<1>4. Len(q) + 1 \in 1..Len(r)  BY <1>1
<1>5. \A i \in 1..Len(q) : Ends(r, i) <=> Ends(q, i) \/ x = "end"
  <2>1. ASSUME NEW i \in 1..Len(q), Ends(r, i), x # "end"
        PROVE  Ends(q, i)
    <3>1. PICK j \in 1..Len(r) : j > i /\ r[j] = "end"  BY <2>1 DEF Ends
    <3>2. j \in 1..Len(q) /\ q[j] = "end"  BY <1>1, <1>2, <2>1, <3>1
    <3> QED  BY <3>1, <3>2 DEF Ends
  <2>2. ASSUME NEW i \in 1..Len(q), Ends(q, i)
        PROVE  Ends(r, i)
    <3>1. PICK j \in 1..Len(q) : j > i /\ q[j] = "end"  BY <2>2 DEF Ends
    <3> QED  BY <1>1, <1>3, <3>1 DEF Ends
  <2>3. ASSUME NEW i \in 1..Len(q), x = "end"
        PROVE  Ends(r, i)
    <3>1. Len(q) + 1 > i  BY <1>1
    <3> QED  BY <1>1, <1>4, <2>3, <3>1 DEF Ends
  <2> QED  BY <2>1, <2>2, <2>3
<1>6. ~Ends(r, Len(q) + 1)  BY <1>1 DEF Ends
<1>7. x = "end" => AllEnd(r)  BY <1>1, <1>2, <1>5 DEF AllEnd
<1>8. x # "begin" /\ AllEnd(q) => AllEnd(r)  BY <1>1, <1>2, <1>5 DEF AllEnd
<1>9. ASSUME x # "end", FreeLast(q), x = "free" => AllEnd(q)
      PROVE  FreeLast(r)
  <2>1. ASSUME NEW k \in 1..Len(r), r[k] = "free"
        PROVE  /\ ~Ends(r, k)
               /\ \A i \in 1..Len(r) : i < k /\ r[i] = "begin" => Ends(r, i)
    <3>1. CASE k \in 1..Len(q)
      <4>1. q[k] = "free" /\ ~Ends(q, k)  BY <1>1, <1>9, <2>1, <3>1 DEF FreeLast
      <4>2. ASSUME NEW i \in 1..Len(r), i < k, r[i] = "begin"
            PROVE  Ends(r, i)
        <5>1. i \in 1..Len(q)  BY <1>1, <3>1, <4>2
        <5>2. Ends(q, i)  BY <1>1, <1>9, <3>1, <4>1, <4>2, <5>1 DEF FreeLast
        <5> QED  BY <1>5, <5>1, <5>2
      <4> QED  BY <1>5, <1>9, <3>1, <4>1, <4>2
    <3>2. CASE k = Len(q) + 1
      <4>1. AllEnd(q)  BY <1>1, <1>9, <2>1, <3>2
      <4>2. ASSUME NEW i \in 1..Len(r), i < k, r[i] = "begin"
            PROVE  Ends(r, i)
        <5>1. i \in 1..Len(q)  BY <1>1, <3>2, <4>2
        <5>2. Ends(q, i)  BY <1>1, <4>1, <4>2, <5>1 DEF AllEnd
        <5> QED  BY <1>5, <5>1, <5>2
      <4> QED  BY <1>6, <3>2, <4>2
    <3> QED  BY <1>2, <2>1, <3>1, <3>2
  <2> QED  BY <2>1 DEF FreeLast
<1>10. x = "end" /\ ~Has(q, "free") => FreeLast(r)
  BY <1>1, <1>2 DEF Has, FreeLast
<1>11. "end" # "free"  OBVIOUS
<1> QED  BY <1>7, <1>8, <1>9, <1>10, <1>11 DEF r

LEMMA OrderTail ==
  ASSUME NEW S, NEW q \in Seq(S), q # <<>>
  PROVE  /\ AllEnd(q) => AllEnd(Tail(q))
         /\ FreeLast(q) => FreeLast(Tail(q))
         /\ Head(q) = "begin" /\ AllEnd(q) => Has(Tail(q), "end")
         /\ Head(q) = "begin" /\ FreeLast(q) /\ Has(Tail(q), "free") => Has(Tail(q), "end")
         /\ Head(q) = "free" /\ FreeLast(q) => ~Has(Tail(q), "end")
<1> DEFINE r == Tail(q)
<1>1. /\ Len(q) \in Nat \ {0} /\ Len(r) = Len(q) - 1 /\ Head(q) = q[1]
      /\ \A i \in 1..Len(r) : r[i] = q[i + 1]
  OBVIOUS
<1> HIDE DEF r
<1>2. \A i \in 1..Len(r) : i + 1 \in 1..Len(q) /\ 1 < i + 1  BY <1>1
<1>3. 1 \in 1..Len(q)  BY <1>1
<1>4. ASSUME NEW i \in 0..Len(r)
      PROVE  Ends(q, i + 1) <=> Ends(r, i)
  <2>1. ASSUME Ends(q, i + 1)
        PROVE  Ends(r, i)
    <3>1. PICK j \in 1..Len(q) : j > i + 1 /\ q[j] = "end"  BY <2>1 DEF Ends
    <3>2. j - 1 \in 1..Len(r) /\ j - 1 > i /\ (j - 1) + 1 = j  BY <1>1, <3>1
    <3>3. r[j - 1] = "end"  BY <1>1, <3>1, <3>2
    <3> QED  BY <3>2, <3>3 DEF Ends
  <2>2. ASSUME Ends(r, i)
        PROVE  Ends(q, i + 1)
    <3>1. PICK j \in 1..Len(r) : j > i /\ r[j] = "end"  BY <2>2 DEF Ends
    <3>2. j + 1 \in 1..Len(q) /\ j + 1 > i + 1 /\ q[j + 1] = "end"  BY <1>1, <1>2, <3>1
    <3> QED  BY <3>2 DEF Ends
  <2> QED  BY <2>1, <2>2
<1>5. Has(r, "end") <=> Ends(q, 1)
  <2>1. 0 \in 0..Len(r) /\ 0 + 1 = 1  BY <1>1
  <2>2. Ends(q, 1) <=> Ends(r, 0)  BY <1>4, <2>1
  <2>3. Ends(r, 0) <=> Has(r, "end")  BY <1>1 DEF Ends, Has
  <2> QED  BY <2>2, <2>3
<1>6. ASSUME AllEnd(q), NEW i \in 1..Len(r), r[i] = "begin"
      PROVE  Ends(r, i)
  <2>1. Ends(q, i + 1)  BY <1>1, <1>2, <1>6 DEF AllEnd
  <2> QED  BY <1>4, <2>1
<1>7. ASSUME FreeLast(q), NEW k \in 1..Len(r), r[k] = "free"
      PROVE  /\ ~Ends(r, k)
             /\ \A i \in 1..Len(r) : i < k /\ r[i] = "begin" => Ends(r, i)
  <2>1. q[k + 1] = "free" /\ k + 1 \in 1..Len(q)  BY <1>1, <1>2, <1>7
  <2>2. ~Ends(q, k + 1)  BY <1>7, <2>1 DEF FreeLast
  <2>3. ASSUME NEW i \in 1..Len(r), i < k, r[i] = "begin"
        PROVE  Ends(r, i)
    <3>1. i + 1 \in 1..Len(q) /\ i + 1 < k + 1 /\ q[i + 1] = "begin"  BY <1>1, <1>2, <2>3
    <3>2. Ends(q, i + 1)  BY <1>7, <2>1, <3>1 DEF FreeLast
    <3> QED  BY <1>4, <3>2
  <2> QED  BY <1>4, <2>2, <2>3
<1>8. Head(q) = "begin" /\ AllEnd(q) => Ends(q, 1)  BY <1>1, <1>3 DEF AllEnd
<1>9. ASSUME Head(q) = "begin", FreeLast(q), Has(r, "free")
      PROVE  Ends(q, 1)
  <2>1. PICK k \in 1..Len(r) : r[k] = "free"  BY <1>9 DEF Has
  <2>2. q[k + 1] = "free" /\ k + 1 \in 1..Len(q) /\ 1 < k + 1  BY <1>1, <1>2, <2>1
  <2> QED  BY <1>1, <1>3, <1>9, <2>2 DEF FreeLast
<1>10. Head(q) = "free" /\ FreeLast(q) => ~Ends(q, 1)  BY <1>1, <1>3 DEF FreeLast
<1>11. AllEnd(q) => AllEnd(r)  BY <1>6 DEF AllEnd
<1>12. FreeLast(q) => FreeLast(r)  BY <1>7 DEF FreeLast
<1> QED  BY <1>5, <1>8, <1>9, <1>10, <1>11, <1>12 DEF r

\* A step that leaves a slave, its link and the master's hold on the channel.
SameSlave(t) ==
  /\ CD_Trigger'[t] = CD_Trigger[t] /\ Mulcast_Trigger'[t] = Mulcast_Trigger[t]
  /\ playback_start'[t] = playback_start[t] /\ channel_applied'[t] = channel_applied[t]
  /\ slave_busy'[t] = slave_busy[t] /\ (monitor'[t] = "take" => monitor[t] = "take")

LEMMA ListensStays ==
  ASSUME NEW t \in Slaves, Listens(t), SameSlave(t), toSlave'[t] = toSlave[t],
         Asks(t)' => Asks(t), Proper => Proper'
  PROVE  Listens(t)'
BY DEF Listens, SameSlave, Transmitting, FreeUnderWay, Heard

\* An end, a begin and a refusal are sent to a slave.
LEMMA EndSent ==
  ASSUME NetType, NEW t \in Slaves, Listens(t), SameSlave(t), Idle(t),
         toSlave'[t] = Append(toSlave[t], "end")
  PROVE  Listens(t)'
<1>1. toSlave[t] \in Seq(ToSlaveMsg) /\ "end" \in ToSlaveMsg  BY DEF NetType, ToSlaveMsg
<1>2. Has(toSlave'[t], "end") /\ (Has(toSlave'[t], "free") <=> Has(toSlave[t], "free"))
  BY <1>1, LinkAppend
<1>3. AllEnd(toSlave'[t]) /\ FreeLast(toSlave'[t])
  BY <1>1, OrderAppend DEF Idle, FreeUnderWay
<1>4. ~Transmitting(t)'  BY DEF Idle, SameSlave, Transmitting
<1> QED  BY <1>2, <1>3, <1>4 DEF Listens, SameSlave, FreeUnderWay, Heard, Idle

LEMMA BeginSent ==
  ASSUME NetType, NEW t \in Slaves, Listens(t), SameSlave(t), Proper',
         toSlave'[t] = Append(toSlave[t], "begin")
  PROVE  Listens(t)'
<1>1. toSlave[t] \in Seq(ToSlaveMsg) /\ "begin" \in ToSlaveMsg  BY DEF NetType, ToSlaveMsg
<1>2. /\ Has(toSlave'[t], "end") <=> Has(toSlave[t], "end")
      /\ Has(toSlave'[t], "free") <=> Has(toSlave[t], "free")
  BY <1>1, LinkAppend
<1>3. FreeLast(toSlave'[t])  BY <1>1, OrderAppend DEF Listens
<1> QED  BY <1>2, <1>3 DEF Listens, SameSlave, FreeUnderWay, Heard, Transmitting

LEMMA BusySent ==
  ASSUME NetType, NEW t \in Slaves, Listens(t), SameSlave(t), Proper => Proper',
         toSlave'[t] = Append(toSlave[t], "busy"), Asks(t)' => Asks(t)
  PROVE  Listens(t)'
<1>1. toSlave[t] \in Seq(ToSlaveMsg) /\ "busy" \in ToSlaveMsg  BY DEF NetType, ToSlaveMsg
<1>2. /\ Has(toSlave'[t], "end") <=> Has(toSlave[t], "end")
      /\ Has(toSlave'[t], "free") <=> Has(toSlave[t], "free")
  BY <1>1, LinkAppend
<1>3. /\ FreeLast(toSlave'[t])
      /\ AllEnd(toSlave[t]) => AllEnd(toSlave'[t])
  BY <1>1, OrderAppend DEF Listens
<1> QED  BY <1>2, <1>3 DEF Listens, SameSlave, FreeUnderWay, Heard, Transmitting

LEMMA GetTaken ==
  ASSUME NetType, NEW s \in Slaves, NEW m, MasterReceives(s, m)
  PROVE  /\ Has(toMaster[s], m)
         /\ \A t \in Slaves : Has(toMaster'[t], "get") => Has(toMaster[t], "get")
         /\ \A t \in Slaves \ {s} : toMaster'[t] = toMaster[t]
<1>1. /\ toMaster[s] # <<>> /\ Head(toMaster[s]) = m /\ toMaster[s] \in Seq(ToMasterMsg)
      /\ toMaster'[s] = Tail(toMaster[s])
      /\ \A t \in Slaves \ {s} : toMaster'[t] = toMaster[t]
  BY DEF MasterReceives, NetType
<1>2. Has(toMaster[s], m)  BY <1>1, LinkTail
<1>3. Has(toMaster'[s], "get") => Has(toMaster[s], "get")  BY <1>1, LinkTail
<1> QED  BY <1>1, <1>2, <1>3

\* The end of a talk, at the master or at a slave.
LEMMA EndOwnVoiceRole ==
  ASSUME TypeOK, TalkInv, RoleInv, ~fault', NEW n \in Node, EndOwnVoice(n),
         \A t \in Slaves : cdThread'[t] = "ask" => cdThread[t] = "ask"
  PROVE  RoleInv'
<1>1. CD_Trigger[n] /\ Transmitting(n)
  BY DEF EndOwnVoice, Transmitting
<1>2. CASE n = Master
  <2>1. /\ CD_Trigger' = [CD_Trigger EXCEPT ![Master] = FALSE]
        /\ playback_start' = [playback_start EXCEPT ![Master] = FALSE]
        /\ toSlave' = [s \in Slaves |-> Append(toSlave[s], "end")]
        /\ UNCHANGED <<toMaster, Mulcast_Trigger, slave_busy, channel_applied, monitor>>
    BY <1>2 DEF EndOwnVoice, StopRecording, Broadcast
  <2>2. MasterTalks  BY <1>1, <1>2, HolderIs DEF TalkInv
  <2>3. ASSUME NEW t \in Slaves
        PROVE  Listens(t)'
    <3>1. SameSlave(t)  BY <2>1, Gateways DEF SameSlave, TypeOK, NodeType
    <3>2. NetType /\ Idle(t) /\ Listens(t)  BY <2>2 DEF TypeOK, MasterTalks, RoleInv
    <3> QED  BY <2>1, <3>1, <3>2, EndSent
  <2> QED  BY <2>3 DEF RoleInv
<1>3. CASE n # Master
  <2>0. n \in Slaves  BY <1>3 DEF Node
  <2>1. /\ CD_Trigger' = [CD_Trigger EXCEPT ![n] = FALSE]
        /\ playback_start' = [playback_start EXCEPT ![n] = FALSE]
        /\ toMaster' = [toMaster EXCEPT ![n] = Append(@, "release")]
        /\ slave_busy' = [slave_busy EXCEPT ![n] = FALSE]
        /\ channel_applied' = [channel_applied EXCEPT ![n] = FALSE]
        /\ UNCHANGED <<toSlave, Mulcast_Trigger, late, monitor, channel_busy, asker>>
    BY <1>3 DEF EndOwnVoice, StopRecording, ReleaseChannelStatus, ForgetGrant
  <2>2. Proper => Proper'  BY <2>1 DEF Proper, Lost
  <2>3. ASSUME NEW t \in Slaves
        PROVE  Asks(t)' => Asks(t)
    <3>1. toMaster[t] \in Seq(ToMasterMsg) /\ "release" \in ToMasterMsg
      BY DEF TypeOK, NetType, ToMasterMsg
    <3>2. toMaster'[t] = toMaster[t] \/ toMaster'[t] = Append(toMaster[t], "release")
      BY <2>1 DEF TypeOK, NetType
    <3>3. "release" # "get"  OBVIOUS
    <3>4. Has(Append(toMaster[t], "release"), "get") <=> Has(toMaster[t], "get")
      BY ONLY <3>1, <3>3, LinkAppend
    <3> QED  BY <2>1, <3>2, <3>4 DEF Asks
  <2>4. ASSUME NEW t \in Slaves, t # n
        PROVE  Listens(t)'
    <3>1. SameSlave(t)
      BY <2>0, <2>1, <2>4, Gateways DEF SameSlave, TypeOK, NodeType, SlaveType
    <3> QED  BY <2>1, <2>2, <2>3, <3>1, ListensStays DEF RoleInv
  <2>5. Listens(n)'
    <3>1. Listens(n) /\ ~Mulcast_Trigger[n]  BY <1>1, <2>0 DEF RoleInv, Listens
    <3>2. ~Transmitting(n)'  BY <2>0, <2>1, Gateways DEF Transmitting, TypeOK, NodeType
    <3>3. ~Mulcast_Trigger'[n]  BY <2>1, <3>1
    <3> QED  BY <2>1, <2>2, <3>1, <3>2, <3>3 DEF Listens, FreeUnderWay, Heard
  <2> QED  BY <2>4, <2>5 DEF RoleInv
<1> QED  BY <1>2, <1>3

\* The master takes the channel, or grants it.
LEMMA MasterTakesRole ==
  ASSUME TypeOK, TalkInv, RoleInv, CDFallMaster, MasterMayTalk
  PROVE  RoleInv'
<1>1. /\ CD_Trigger' = [CD_Trigger EXCEPT ![Master] = TRUE]
      /\ playback_start' = [playback_start EXCEPT ![Master] = TRUE]
      /\ toSlave' = [s \in Slaves |-> Append(toSlave[s], "begin")]
      /\ channel_busy' = TRUE
      /\ UNCHANGED <<toMaster, Mulcast_Trigger, slave_busy, channel_applied, monitor>>
  BY DEF CDFallMaster, StartRecording, Broadcast, slaveVars
<1>2. Proper'  BY <1>1 DEF TalkInv, MasterMayTalk, Proper, Lost
<1>3. ASSUME NEW t \in Slaves
      PROVE  Listens(t)'
  <2>1. SameSlave(t)  BY <1>1, Gateways DEF SameSlave, TypeOK, NodeType
  <2>2. NetType /\ Listens(t)  BY DEF TypeOK, RoleInv
  <2> QED  BY <1>1, <1>2, <2>1, <2>2, BeginSent
<1> QED  BY <1>3 DEF RoleInv

LEMMA GrantRole ==
  ASSUME TypeOK, TalkInv, RoleInv, NEW s \in Slaves, ReplyFree(s)
  PROVE  RoleInv'
<1>1. /\ toSlave' = [t \in Slaves |-> IF t = s THEN toSlave[t] \o <<"free", "begin">>
                                               ELSE Append(toSlave[t], "begin")]
      /\ Mulcast_Trigger' = [Mulcast_Trigger EXCEPT ![Master] = TRUE]
      /\ playback_start' = [playback_start EXCEPT ![Master] = TRUE]
      /\ late' = [late EXCEPT ![Master] = FALSE]
      /\ ~channel_busy /\ channel_busy' = TRUE
      /\ asker = s
      /\ UNCHANGED <<CD_Trigger, slave_busy, channel_applied, monitor>>
  BY DEF ReplyFree, Answers, StartReceiving, slaveVars
<1>2. Nobody  BY <1>1, HolderIs DEF TalkInv
<1>3. NetType /\ ~Proper  BY <1>1 DEF TypeOK, Proper
<1>4. Proper'  BY <1>1, Gateways DEF Proper, Lost, TypeOK, NodeType
<1>5. \A t \in Slaves : SameSlave(t)
  BY <1>1, Gateways DEF SameSlave, TypeOK, NodeType
<1>6. ASSUME NEW t \in Slaves, t # s
      PROVE  Listens(t)'
  <2>1. toSlave'[t] = Append(toSlave[t], "begin")  BY <1>1, <1>6
  <2> QED  BY <1>3, <1>4, <1>5, <2>1, BeginSent DEF RoleInv
<1>7. Listens(s)'
  <2>1. Listens(s) /\ Heard(s) /\ AllEnd(toSlave[s])
    BY <1>1, <1>3 DEF RoleInv, Listens, Asks
  <2>2. /\ toSlave[s] \in Seq(ToSlaveMsg) /\ "free" \in ToSlaveMsg /\ "begin" \in ToSlaveMsg
        /\ toSlave'[s] = toSlave[s] \o <<"free", "begin">>
    BY <1>1, <1>3 DEF NetType, ToSlaveMsg
  <2> DEFINE q == Append(toSlave[s], "free")
  <2>3. q \in Seq(ToSlaveMsg) /\ toSlave'[s] = Append(q, "begin")  BY <2>2, LinkGrant
  <2>4. FreeLast(q) /\ (Has(toSlave[s], "end") => Has(q, "end"))
    BY <2>1, <2>2, LinkAppend, OrderAppend DEF Listens
  <2> HIDE DEF q
  <2>5. FreeLast(Append(q, "begin")) /\ (Has(q, "end") => Has(Append(q, "begin"), "end"))
    BY <2>2, <2>3, <2>4, LinkAppend, OrderAppend
  <2>6. FreeLast(toSlave'[s]) /\ Heard(s)'
    BY <1>5, <2>1, <2>3, <2>4, <2>5 DEF SameSlave, Heard
  <2>7. ~Transmitting(s)'  BY <1>1, <1>2 DEF Nobody, Idle, Transmitting
  <2>8. /\ CD_Trigger'[s] \/ monitor'[s] = "take" => ~Mulcast_Trigger'[s]
        /\ Mulcast_Trigger'[s] => playback_start'[s]
    BY <1>5, <2>1 DEF Listens, SameSlave
  <2> QED  BY <1>4, <2>6, <2>7, <2>8 DEF Listens
<1> QED  BY <1>6, <1>7 DEF RoleInv

\* The steps of users and of threads that only look, and of what
\* the master receives.
LEMMA OtherStepsRole ==
  ASSUME RoleInv, UNCHANGED <<nodeVars, channel_busy, slave_busy, channel_applied, toSlave>>,
         \A t \in Slaves : Asks(t)' => Asks(t),
         \A t \in Slaves : monitor'[t] = "take" => monitor[t] = "take"
  PROVE  RoleInv'
<1>1. Proper => Proper'  BY DEF nodeVars, Proper, Lost
<1>2. \A t \in Slaves : SameSlave(t)  BY DEF nodeVars, SameSlave
<1> QED  BY <1>1, <1>2, ListensStays DEF RoleInv

\* The master takes a request, and answers one that it does not grant.
LEMMA RequestTakenRole ==
  ASSUME TypeOK, RoleInv, NEW s \in Slaves, GetChannelStatus(s)
  PROVE  RoleInv'
<1>1. /\ MasterReceives(s, "get") /\ asker' \in {s, asker}
      /\ UNCHANGED <<nodeVars, channel_busy, slave_busy, channel_applied, monitor, toSlave, cdThread>>
  BY DEF GetChannelStatus, slaveVars, threadVars
<1>2. NetType  BY DEF TypeOK
<1>3. \A t \in Slaves : Asks(t)' => Asks(t)  BY <1>1, <1>2, GetTaken DEF Asks
<1> QED  BY <1>1, <1>3, OtherStepsRole

LEMMA RefusalRole ==
  ASSUME TypeOK, RoleInv, NEW s \in Slaves, ReplyBusy(s)
  PROVE  RoleInv'
<1>1. /\ \A t \in Slaves : toSlave'[t] = Append(toSlave[t], "busy") \/ toSlave'[t] = toSlave[t]
      /\ asker' = Master
      /\ UNCHANGED <<nodeVars, channel_busy, slave_busy, channel_applied, monitor, toMaster, cdThread>>
  BY DEF ReplyBusy, Answers, slaveVars, threadVars, TypeOK, NetType
<1>2. Proper => Proper'  BY <1>1 DEF nodeVars, Proper, Lost
<1>3. \A t \in Slaves : SameSlave(t)  BY <1>1 DEF nodeVars, SameSlave
<1>4. NetType  BY DEF TypeOK
<1>5. \A t \in Slaves : Asks(t)' => Asks(t)  BY <1>1, Gateways DEF Asks
<1> QED  BY <1>1, <1>2, <1>3, <1>4, <1>5, ListensStays, BusySent DEF RoleInv

\* The master ends the voice of a slave.
LEMMA EndSlaveRole ==
  ASSUME TypeOK, TalkInv, RoleInv, EndSlaveVoice
  PROVE  RoleInv'
<1>1. /\ recvThread = "release"
      /\ toSlave' = [s \in Slaves |-> Append(toSlave[s], "end")]
      /\ Mulcast_Trigger' = [Mulcast_Trigger EXCEPT ![Master] = FALSE]
      /\ playback_start' = [playback_start EXCEPT ![Master] = FALSE]
      /\ UNCHANGED <<CD_Trigger, slave_busy, channel_applied, monitor, toMaster>>
  BY DEF EndSlaveVoice, Broadcast, StopReceiving, slaveVars
<1>2. PICK s \in Slaves : SlaveTalks(s)  BY <1>1, HolderIs DEF TalkInv
<1>3. ASSUME NEW t \in Slaves
      PROVE  Listens(t)'
  <2>1. SameSlave(t)  BY <1>1, Gateways DEF SameSlave, TypeOK, NodeType
  <2>2. NetType /\ Idle(t) /\ Listens(t)
    BY <1>1, <1>2 DEF SlaveTalks, Holds, TypeOK, RoleInv
  <2> QED  BY <1>1, <2>1, <2>2, EndSent
<1> QED  BY <1>3 DEF RoleInv

\* A slave receives: the order of its link decides what it may do.
LEMMA SlaveReceivesRole ==
  ASSUME ChannelInv, TalkInv, RoleInv, NEW s \in Slaves, SlaveRecvThread(s)
  PROVE  RoleInv'
<1>0. TypeOK /\ GrantIsRecording /\ Listens(s)  BY DEF ChannelInv, RoleInv
<1>1. PICK m \in ToSlaveMsg : SlaveReceives(s, m)
  BY DEF SlaveRecvThread, SetChannelBusy, SetChannelFree, BeginRecorderVoice,
     EndRecorderVoice, ToSlaveMsg
<1>2. /\ monitor[s] # "take" /\ toSlave[s] # <<>> /\ Head(toSlave[s]) = m
      /\ toSlave[s] \in Seq(ToSlaveMsg) /\ toSlave'[s] = Tail(toSlave[s])
      /\ \A t \in Slaves \ {s} : toSlave'[t] = toSlave[t]
      /\ UNCHANGED <<slave_busy, monitor, toMaster, channel_busy, asker, cdThread>>
  BY <1>0, <1>1 DEF SlaveReceives, masterVars, threadVars, TypeOK, NetType
<1>3. /\ Mulcast_Trigger'[Master] = Mulcast_Trigger[Master] /\ late'[Master] = late[Master]
      /\ \A t \in Slaves \ {s} :
           /\ CD_Trigger'[t] = CD_Trigger[t] /\ Mulcast_Trigger'[t] = Mulcast_Trigger[t]
           /\ playback_start'[t] = playback_start[t]
           /\ channel_applied'[t] = channel_applied[t]
  BY <1>0, Gateways DEF SlaveRecvThread, SetChannelBusy, SetChannelFree, BeginRecorderVoice,
     EndRecorderVoice, StartRecording, StartReceiving, StopReceiving, nodeVars,
     TypeOK, NodeType, SlaveType
<1>4. /\ Proper <=> Proper'
      /\ \A t \in Slaves : Asks(t)' <=> Asks(t)
  BY <1>2, <1>3 DEF Proper, Lost, Asks
<1>5. ASSUME NEW t \in Slaves, t # s
      PROVE  Listens(t)'
  <2>1. SameSlave(t)  BY <1>2, <1>3, <1>5 DEF SameSlave
  <2> QED  BY <1>2, <1>4, <1>5, <2>1, ListensStays DEF RoleInv
<1>6. /\ Has(toSlave[s], "end") <=> m = "end" \/ Has(toSlave'[s], "end")
      /\ Has(toSlave'[s], "free") => FreeUnderWay(s)
      /\ m = "free" => FreeUnderWay(s)
  <2>1. \A x : Has(toSlave[s], x) <=> m = x \/ Has(toSlave'[s], x)
    BY <1>2, LinkTail
  <2> QED  BY <2>1 DEF FreeUnderWay
<1>7. /\ AllEnd(toSlave[s]) => AllEnd(toSlave'[s])
      /\ FreeLast(toSlave'[s])
      /\ m = "begin" /\ AllEnd(toSlave[s]) => Has(toSlave'[s], "end")
      /\ m = "begin" /\ Has(toSlave'[s], "free") => Has(toSlave'[s], "end")
      /\ m = "free" => ~Has(toSlave'[s], "end")
  BY <1>0, <1>2, OrderTail DEF Listens
<1>8. Proper' \/ AllEnd(toSlave'[s])  BY <1>0, <1>4, <1>7 DEF Listens
\* What is left is what the slave does with its own flags.
<1>9. ASSUME /\ CD_Trigger'[s] => ~Mulcast_Trigger'[s]
             /\ Mulcast_Trigger'[s] => playback_start'[s]
             /\ Transmitting(s)' => channel_applied'[s] /\ ~Has(toSlave'[s], "end"),
             \/ Heard(s) => Heard(s)'
             \/ /\ Has(toSlave'[s], "free") => Heard(s)'
                /\ Proper \/ Heard(s)'
      PROVE  Listens(s)'
  <2>1. monitor'[s] # "take"  BY <1>2
  <2>2. Has(toSlave'[s], "free") => Heard(s)'  BY <1>0, <1>6, <1>9 DEF Listens
  <2>3. Asks(s)' => Proper' \/ Heard(s)'
    BY <1>0, <1>4, <1>9 DEF Listens
  <2> QED  BY <1>7, <1>8, <1>9, <2>1, <2>2, <2>3 DEF Listens, FreeUnderWay
<1>10. ASSUME UNCHANGED nodeVars /\ m # "end" /\ channel_applied'[s] = channel_applied[s]
       PROVE  Listens(s)'
  <2>1. UNCHANGED <<CD_Trigger, Mulcast_Trigger, playback_start>>  BY <1>10 DEF nodeVars
  <2>2. Transmitting(s)' <=> Transmitting(s)  BY <1>2, <2>1 DEF Transmitting
  <2>3. Heard(s) => Heard(s)'  BY <1>6, <1>10, <2>1 DEF Heard
  <2>4. Transmitting(s)' => channel_applied'[s] /\ ~Has(toSlave'[s], "end")
    BY <1>0, <1>6, <1>10, <2>2 DEF Listens
  <2>5. /\ CD_Trigger'[s] => ~Mulcast_Trigger'[s]
        /\ Mulcast_Trigger'[s] => playback_start'[s]
    BY <1>0, <2>1 DEF Listens
  <2> QED  BY <1>9, <2>3, <2>4, <2>5
<1>11. ASSUME SetChannelFree(s) /\ ~slave_busy[s]
       PROVE  Listens(s)'
  <2>1. m = "free"  BY <1>1, <1>11 DEF SetChannelFree, SlaveReceives
  <2>2. ~Mulcast_Trigger[s]  BY <1>0, <1>6, <1>7, <2>1 DEF Listens, Heard
  <2>3. /\ ~Mulcast_Trigger'[s] /\ channel_applied'[s]
    BY <1>0, <1>11, <2>2 DEF SetChannelFree, StartRecording, TypeOK, SlaveType
  <2>4. Heard(s)'  BY <2>3 DEF Heard
  <2> QED  BY <1>7, <1>9, <2>1, <2>3, <2>4
<1>12. ASSUME BeginRecorderVoice(s) /\ ~IgnoresBegin(s)
       PROVE  Listens(s)'
  <2>1. m = "begin"  BY <1>1, <1>12 DEF BeginRecorderVoice, SlaveReceives
  <2>2. ~channel_applied[s] /\ ~slave_busy[s]  BY <1>12 DEF IgnoresBegin
  <2>3. ~CD_Trigger[s]  BY <1>0, <2>2 DEF Listens, Transmitting
  <2>4. /\ ~CD_Trigger'[s] /\ playback_start'[s]
    BY <1>0, <1>12, <2>3, Gateways DEF BeginRecorderVoice, StartReceiving, TypeOK, NodeType
  <2>5. ~Transmitting(s)'  BY <2>4 DEF Transmitting
  <2>6. Has(toSlave'[s], "end") => Heard(s)'  BY DEF Heard
  <2>7. Proper \/ Has(toSlave'[s], "end")  BY <1>0, <1>7, <2>1 DEF Listens
  <2> QED  BY <1>7, <1>9, <2>1, <2>4, <2>5, <2>6, <2>7
<1>13. ASSUME EndRecorderVoice(s)
       PROVE  Listens(s)'
  <2>1. m = "end"  BY <1>1, <1>13 DEF EndRecorderVoice, SlaveReceives
  <2>2. ~Transmitting(s)  BY <1>0, <1>6, <2>1 DEF Listens
  <2>3. ~Transmitting(s)'
    BY <1>2, <1>13, <2>2 DEF Transmitting, EndRecorderVoice, StopReceiving, nodeVars
  <2>4. ~Mulcast_Trigger'[s]
    <3>1. CASE channel_applied[s] \/ slave_busy[s] \/ ~playback_start[s]
      <4>1. ~Mulcast_Trigger[s]
        BY <1>0, <1>2, <3>1 DEF Listens, GrantIsRecording
      <4> QED  BY <1>13, <3>1, <4>1 DEF EndRecorderVoice, nodeVars
    <3>2. CASE ~(channel_applied[s] \/ slave_busy[s] \/ ~playback_start[s])
      BY <1>0, <1>13, <3>2, Gateways DEF EndRecorderVoice, StopReceiving, TypeOK, NodeType
    <3> QED  BY <3>1, <3>2
  <2>5. Heard(s)'  BY <2>4 DEF Heard
  <2> QED  BY <1>9, <2>3, <2>4, <2>5
<1>14. Listens(s)'
  <2>1. CASE SetChannelBusy(s)
    <3>1. m # "end"  BY <1>1, <2>1 DEF SetChannelBusy, SlaveReceives
    <3> QED  BY <1>10, <2>1, <3>1 DEF SetChannelBusy
  <2>2. CASE SetChannelFree(s) /\ slave_busy[s]
    <3>1. m # "end"  BY <1>1, <2>2 DEF SetChannelFree, SlaveReceives
    <3> QED  BY <1>10, <2>2, <3>1 DEF SetChannelFree
  <2>3. CASE BeginRecorderVoice(s) /\ IgnoresBegin(s)
    <3>1. m # "end"  BY <1>1, <2>3 DEF BeginRecorderVoice, SlaveReceives
    <3> QED  BY <1>10, <2>3, <3>1 DEF BeginRecorderVoice
  <2> QED  BY <1>11, <1>12, <1>13, <2>1, <2>2, <2>3 DEF SlaveRecvThread
<1> QED  BY <1>5, <1>14 DEF RoleInv

\* A slave asks for the channel only when it does not listen.
LEMMA RequestRole ==
  ASSUME TypeOK, RoleInv, NEW s \in Slaves, CDFallSlave(s)
  PROVE  RoleInv'
<1>1. UNCHANGED <<nodeVars, channel_busy, slave_busy, channel_applied, monitor, toSlave,
                  toMaster, asker>>
  BY DEF CDFallSlave, masterVars, slaveVars, netVars
<1>2. Proper => Proper'  BY <1>1 DEF nodeVars, Proper, Lost
<1>3. \A t \in Slaves : SameSlave(t)  BY <1>1 DEF nodeVars, SameSlave
<1>4. ASSUME NEW t \in Slaves, t # s \/ playback_start[s]
      PROVE  Listens(t)'
  <2>1. Asks(t)' => Asks(t)
    BY <1>1, <1>4, Gateways DEF CDFallSlave, Asks, TypeOK, ThreadType
  <2> QED  BY <1>1, <1>2, <1>3, <2>1, ListensStays DEF RoleInv
<1>5. ASSUME ~playback_start[s]
      PROVE  Listens(s)'
  <2>1. Listens(s) /\ ~Mulcast_Trigger[s]  BY <1>5 DEF RoleInv, Listens
  <2>2. ~Mulcast_Trigger'[s] /\ Heard(s)'  BY <1>3, <2>1 DEF SameSlave, Heard
  <2>3. Transmitting(s)' <=> Transmitting(s)  BY <1>3 DEF SameSlave, Transmitting
  <2>4. channel_applied'[s] = channel_applied[s]  BY <1>3 DEF SameSlave
  <2> QED  BY <1>1, <1>2, <2>1, <2>2, <2>3, <2>4 DEF Listens, FreeUnderWay
<1> QED  BY <1>4, <1>5 DEF RoleInv

\* The request is sent.
LEMMA SentRole ==
  ASSUME TypeOK, RoleInv, NEW s \in Slaves, CDAsk(s)
  PROVE  RoleInv'
<1>1. /\ cdThread[s] = "ask" /\ cdThread' = [cdThread EXCEPT ![s] = "poll"]
      /\ toMaster' = [toMaster EXCEPT ![s] = Append(@, "get")]
      /\ UNCHANGED <<nodeVars, channel_busy, slave_busy, channel_applied, monitor, toSlave, asker>>
  BY DEF CDAsk, GetStatus, masterVars
<1>2. ASSUME NEW t \in Slaves
      PROVE  Asks(t)' => Asks(t)
  <2>1. CASE t = s  BY <1>1, <2>1 DEF Asks
  <2>2. CASE t # s
    <3>1. cdThread'[t] = cdThread[t] /\ toMaster'[t] = toMaster[t]
      BY <1>1, <2>2, Gateways DEF TypeOK, ThreadType, NetType
    <3> QED  BY <1>1, <3>1 DEF Asks
  <2> QED  BY <2>1, <2>2
<1> QED  BY <1>1, <1>2, OtherStepsRole

\* A slave talks on its own only when it does not listen.
LEMMA LocalRole ==
  ASSUME TypeOK, TalkInv, RoleInv, NEW s \in Slaves, LocalSet(s) \/ LocalTake(s)
  PROVE  RoleInv'
<1>1. UNCHANGED <<toSlave, toMaster, channel_busy, Mulcast_Trigger, asker, cdThread>>
  BY DEF LocalSet, LocalTake, StartRecording, nodeVars, masterVars, netVars, threadVars
<1>2. late'[Master] = late[Master]
  BY Gateways DEF LocalSet, LocalTake, StartRecording, nodeVars, TypeOK, NodeType
<1>3. (Proper => Proper') /\ \A t \in Slaves : Asks(t)' => Asks(t)
  BY <1>1, <1>2 DEF Proper, Lost, Asks
<1>4. ASSUME NEW t \in Slaves, t # s
      PROVE  Listens(t)'
  <2>1. SameSlave(t)
    BY <1>1, <1>4, Gateways DEF LocalSet, LocalTake, StartRecording, nodeVars, SameSlave,
       TypeOK, NodeType, SlaveType
  <2> QED  BY <1>1, <1>3, <2>1, ListensStays DEF RoleInv
<1>5. Listens(s)'
  <2>0. Listens(s)  BY DEF RoleInv
  <2>1. ~(CD_Trigger'[s] \/ monitor'[s] = "take") \/ ~Mulcast_Trigger[s]
    BY <2>0 DEF LocalSet, LocalTake, MayTalkLocally, nodeVars, TypeOK, SlaveType, Listens
  <2>2. Mulcast_Trigger'[s] => playback_start'[s]
    BY <1>1, <2>0, Gateways DEF LocalSet, LocalTake, StartRecording, nodeVars, TypeOK,
       NodeType, Listens
  <2>3. Transmitting(s)' => Transmitting(s) /\ channel_applied'[s] = channel_applied[s]
    <3>1. CASE LocalSet(s)
      BY <3>1 DEF LocalSet, nodeVars, TypeOK, SlaveType, Transmitting
    <3>2. CASE LocalTake(s)
      BY <3>2 DEF LocalTake, TalkInv, Transmitting
    <3> QED  BY <3>1, <3>2
  <2>4. Heard(s) => Heard(s)'  BY <1>1 DEF Heard
  <2> QED  BY <1>1, <1>3, <2>0, <2>1, <2>2, <2>3, <2>4 DEF Listens, FreeUnderWay
<1> QED  BY <1>4, <1>5 DEF RoleInv

\* A listener gives up.
LEMMA RtpStopRole ==
  ASSUME TypeOK, TalkInv, RoleInv, NEW n \in Node, RtpStop(n)
  PROVE  RoleInv'
<1>1. /\ Mulcast_Trigger' = [Mulcast_Trigger EXCEPT ![n] = FALSE]
      /\ playback_start' = [playback_start EXCEPT ![n] = FALSE]
      /\ UNCHANGED <<CD_Trigger, late, toSlave, toMaster, slave_busy, channel_applied, monitor>>
      /\ \A t \in Slaves : Asks(t)' <=> Asks(t)
  BY DEF RtpStop, StopReceiving, slaveVars, netVars, Asks
<1>2. Proper => Proper'
  <2>1. CASE n = Master  BY <2>1 DEF RtpStop, TalkInv, Proper
  <2>2. CASE n # Master
    BY <1>1, <2>2, Gateways DEF RtpStop, BusyAfterTimeout, Proper, Lost, TypeOK, NodeType, MasterType
  <2> QED  BY <2>1, <2>2
<1>3. ASSUME NEW t \in Slaves, t # n
      PROVE  Listens(t)'
  <2>1. SameSlave(t)  BY <1>1, <1>3, Gateways DEF SameSlave, TypeOK, NodeType
  <2> QED  BY <1>1, <1>2, <2>1, ListensStays DEF RoleInv
<1>4. ASSUME n \in Slaves
      PROVE  Listens(n)'
  <2>1. Listens(n) /\ ~Mulcast_Trigger'[n]  BY <1>1, <1>4 DEF RoleInv, TypeOK, NodeType
  <2>2. Heard(n)' /\ (Transmitting(n)' <=> Transmitting(n))
    BY <1>1, <2>1 DEF Heard, Transmitting
  <2> QED  BY <1>1, <1>2, <2>1, <2>2 DEF Listens, FreeUnderWay
<1> QED  BY <1>3, <1>4 DEF RoleInv

\* The master's time as a listener runs out when every link is empty.
LEMMA ExpireRole ==
  ASSUME TypeOK, RoleInv, NEW n \in Node, Expire(n)
  PROVE  RoleInv'
<1>1. UNCHANGED <<CD_Trigger, Mulcast_Trigger, playback_start, toSlave, toMaster,
                  channel_busy, slave_busy, channel_applied, monitor, asker, cdThread>>
  BY DEF Expire, masterVars, slaveVars, netVars, threadVars
<1>2. ASSUME NEW t \in Slaves
      PROVE  Listens(t)'
  <2>1. /\ Listens(t) /\ toSlave[t] = <<>> /\ toMaster[t] = <<>>
        /\ cdThread[t] # "ask" /\ asker # t
    BY Gateways DEF RoleInv, Expire, Settled, TypeOK, MasterType
  <2>2. /\ AllEnd(toSlave'[t]) /\ FreeLast(toSlave'[t]) /\ ~Has(toSlave'[t], "free")
        /\ ~Has(toSlave'[t], "end") /\ ~Asks(t)'
    BY <1>1, <2>1 DEF AllEnd, FreeLast, Has, Asks
  <2> QED  BY <1>1, <2>1, <2>2 DEF Listens, FreeUnderWay, Transmitting
<1> QED  BY <1>2 DEF RoleInv

LEMMA RoleStep ==
  ChannelInv /\ TalkInv /\ RoleInv /\ [Next]_vars /\ ~fault' => RoleInv'
<1> SUFFICES ASSUME ChannelInv, TalkInv, RoleInv, [Next]_vars, ~fault' PROVE RoleInv'
  OBVIOUS
<1>0. TypeOK  BY DEF ChannelInv
<1>1. ASSUME NEW n \in Node, Press(n) \/ LetGo(n) \/ CDRise(n) \/ TimeDecide(n) \/ RtpTimeout(n)
      PROVE  RoleInv'
  <2>1. UNCHANGED <<nodeVars, channel_busy, slaveVars, netVars, asker>>
    BY <1>1 DEF Press, LetGo, CDRise, TimeDecide, RtpTimeout, masterVars
  <2>2. \A t \in Slaves : cdThread'[t] = "ask" => cdThread[t] = "ask"
    BY <1>0, <1>1, Gateways DEF Press, LetGo, CDRise, TimeDecide, RtpTimeout, threadVars,
       TypeOK, ThreadType
  <2> QED  BY <2>1, <2>2, OtherStepsRole DEF slaveVars, netVars, Asks
<1>2. ASSUME NEW n \in Node, CDRelease(n) \/ TimeStop(n) PROVE RoleInv'
  <2>1. \A t \in Slaves : cdThread'[t] = "ask" => cdThread[t] = "ask"
    BY <1>0, <1>2, Gateways DEF CDRelease, TimeStop, TypeOK, ThreadType
  <2> QED  BY <1>0, <1>2, <2>1, EndOwnVoiceRole DEF CDRelease, TimeStop
<1>3. ASSUME CDFallMaster PROVE RoleInv'
  <2>1. CASE MasterMayTalk  BY <1>0, <1>3, <2>1, MasterTakesRole
  <2>2. CASE ~MasterMayTalk
    <3>1. UNCHANGED <<nodeVars, toSlave, channel_busy, slaveVars, toMaster, asker, cdThread>>
      BY <1>3, <2>2 DEF CDFallMaster, threadVars
    <3> QED  BY <3>1, OtherStepsRole DEF slaveVars, Asks
  <2> QED  BY <2>1, <2>2
<1>4. ASSUME NEW s \in Slaves, GetChannelStatus(s) \/ ReplyBusy(s) \/ ReplyFree(s)
      PROVE  RoleInv'
  BY <1>0, <1>4, RequestTakenRole, RefusalRole, GrantRole
<1>5. ASSUME NEW s \in Slaves, ReleaseChannel(s) PROVE RoleInv'
  <2>1. /\ UNCHANGED <<nodeVars, channel_busy, slaveVars, toSlave, asker, cdThread>>
        /\ MasterReceives(s, "release")
    BY <1>5 DEF ReleaseChannel, threadVars
  <2>2. NetType  BY <1>0 DEF TypeOK
  <2> QED  BY <2>1, <2>2, GetTaken, OtherStepsRole DEF slaveVars, Asks
<1>6. ASSUME NEW s \in Slaves, MonitorWake(s) PROVE RoleInv'
  <2>1. /\ UNCHANGED <<nodeVars, masterVars, slave_busy, channel_applied, netVars, cdThread>>
        /\ \A t \in Slaves : monitor'[t] = "take" => monitor[t] = "take"
    BY <1>0, <1>6 DEF MonitorWake, TypeOK, SlaveType, threadVars
  <2> QED  BY <2>1, OtherStepsRole DEF netVars, masterVars, Asks
<1>7. ASSUME NEW s \in Slaves, Lose(s) PROVE FALSE
  BY <1>7 DEF Lose
<1>8. CASE UNCHANGED vars
  BY <1>8, OtherStepsRole DEF vars, masterVars, slaveVars, netVars, threadVars, Asks
<1> QED
  BY <1>0, <1>1, <1>2, <1>3, <1>4, <1>5, <1>6, <1>7, <1>8, ExpireRole, RtpStopRole,
     EndSlaveRole, SlaveReceivesRole, RequestRole, SentRole, LocalRole
     DEF Next, User, CDPollThread, TimePollThread, MulcastPortPollThread,
         MasterRecvThread, MonitorStatusThread

\* No gateway records and receives at once.
THEOREM RolesExclude == Spec => []OneRole
<1>1. Init => RoleInv
  <2> SUFFICES ASSUME Init, NEW s \in Slaves PROVE Listens(s)
    BY DEF RoleInv
  <2>1. /\ ~CD_Trigger[s] /\ ~Mulcast_Trigger[s] /\ monitor[s] # "take"
        /\ toSlave[s] = <<>> /\ toMaster[s] = <<>> /\ cdThread[s] = "poll" /\ asker # s
    BY Gateways DEF Init
  <2>2. AllEnd(<<>>) /\ FreeLast(<<>>) /\ \A m : ~Has(<<>>, m)
    BY DEF AllEnd, FreeLast, Has
  <2> QED  BY <2>1, <2>2 DEF Listens, Transmitting, FreeUnderWay, Heard, Asks
<1>2. TypeOK /\ ChannelInv /\ (fault \/ TalkInv) /\ (fault \/ RoleInv) /\ [Next]_vars
        => (fault \/ RoleInv)'
  BY RoleStep, FaultStays
<1>3. (fault \/ TalkInv) /\ (fault \/ RoleInv) => OneRole
  BY DEF OneRole, RoleInv, Listens, TalkInv, Node
<1> QED
  BY <1>1, <1>2, <1>3, TypeCorrect, ChannelSafe, OneHolder, PTL DEF Spec
=============================================================================
