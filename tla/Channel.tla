------------------------------- MODULE Channel -------------------------------
(***************************************************************************)
(* Who may talk: the push-to-talk arbitration of one master and its        *)
(* registered slaves (MyRepeater.cpp, with the channel messages of         *)
(* CMaster.cpp and CSlave.cpp).                                            *)
(*                                                                         *)
(* Every gateway runs several threads over the same flags.  One action is  *)
(* one thread's step between two points at which another thread can run: a *)
(* body executed under flag_mutex is one step, and a condition that the    *)
(* code tests before it takes flag_mutex is a step of its own, so that the *)
(* body may run on a stale decision.                                       *)
(*                                                                         *)
(* playback_start stands for playback_start_flag and for the PTT output:   *)
(* the code always drives the two together.  slave_busy stands for         *)
(* slave_busy_flag and stop_send_rtp_flag, set and cleared together.       *)
(*                                                                         *)
(* An operator named X_Y is the operator X with a plausible mistake Y: the *)
(* properties are shown to fail when it takes the place of X.              *)
(***************************************************************************)
EXTENDS Naturals, Sequences, FiniteSets

CONSTANTS
  Master,     \* the gateway started with basedevice_ID = true
  Slaves,     \* the gateways registered in its slavemap
  MaxPress,   \* bound: how many times users key a radio, in all
  MaxLoss,    \* bound: how many datagrams the network loses, in all
  MaxExpire   \* bound: how many times a talk limit runs out, in all

ASSUME ChannelAssumption ==
  /\ Master \notin Slaves
  /\ IsFiniteSet(Slaves)
  /\ MaxPress \in Nat
  /\ MaxLoss \in Nat
  /\ MaxExpire \in Nat

Node == Slaves \cup {Master}

VARIABLES
  cd,               \* level of the carrier-detect pin: "LOW" while keyed
  edge,             \* an edge of the pin that CDPollThread has not read yet
  CD_Trigger,       \* CD_Trigger_flag: recording, RecordThread runs
  Mulcast_Trigger,  \* Mulcast_Trigger_flag: receiving, the RTP thread runs
  playback_start,   \* playback_start_flag and the PTT output
  late,             \* the time since `start' has passed the talk limit
  cdThread,         \* CDPollThread: polling, or committed to ask or release
  timePoll,         \* TimePollThread: polling, or committed to end the talk
  rtpPoll,          \* MulcastPortPollThread: polling, or timed out
  channel_busy,     \* master: channel_busy_flag
  status,           \* master: the static state of MasterOnDataFunc
  timeout_flag,     \* master: timeout_flag
  recvThread,       \* master: receiving, committed to answer a request, or to
                    \* end a slave's voice
  asker,            \* master: the slave whose request is being answered
  channel_applied,  \* slave: channel_applied_flag
  slave_busy,       \* slave: slave_busy_flag, it talks without the network
  isGetStatus,      \* slave: a request for the channel is unanswered
  sem,              \* slave: the semaphore GetStatus posts
  monitor,          \* slave: MonitorStatusThread
  toMaster,         \* datagrams from each slave to the master
  toSlave,          \* datagrams from the master to each slave
  presses,          \* counter of MaxPress
  expiries,         \* counter of MaxExpire
  losses,           \* counter of MaxLoss
  fault             \* history: a loss, a late answer, a stale decision, or the
                    \* release of a local talk

radioVars  == <<cd, edge, presses, expiries>>
nodeVars   == <<CD_Trigger, Mulcast_Trigger, playback_start, late>>
threadVars == <<cdThread, timePoll, rtpPoll>>
masterVars == <<channel_busy, status, timeout_flag, recvThread, asker>>
slaveVars  == <<channel_applied, slave_busy, isGetStatus, sem, monitor>>
netVars    == <<toMaster, toSlave, losses>>
vars == <<radioVars, nodeVars, threadVars, masterVars, slaveVars, netVars, fault>>

ToMasterMsg == {"get", "release"}
ToSlaveMsg  == {"free", "busy", "begin", "end"}

RadioType ==
  /\ cd \in [Node -> {"LOW", "HIGH"}]
  /\ edge \in [Node -> BOOLEAN]
  /\ presses \in Nat
  /\ expiries \in Nat

NodeType ==
  /\ CD_Trigger \in [Node -> BOOLEAN]
  /\ Mulcast_Trigger \in [Node -> BOOLEAN]
  /\ playback_start \in [Node -> BOOLEAN]
  /\ late \in [Node -> BOOLEAN]

ThreadType ==
  /\ cdThread \in [Node -> {"poll", "ask", "release"}]
  /\ timePoll \in [Node -> {"poll", "stop"}]
  /\ rtpPoll \in [Node -> {"poll", "stop"}]

MasterType ==
  /\ channel_busy \in BOOLEAN
  /\ status \in {"WAIT_SLAVE_GET_CHANNEL", "WAIT_SLAVE_RELEASE_CHANNEL"}
  /\ timeout_flag \in BOOLEAN
  /\ recvThread \in {"recv", "answer", "release"}
  /\ asker \in Node
  /\ recvThread = "answer" <=> asker \in Slaves
  /\ recvThread = "answer" => status = "WAIT_SLAVE_GET_CHANNEL"

SlaveType ==
  /\ channel_applied \in [Slaves -> BOOLEAN]
  /\ slave_busy \in [Slaves -> BOOLEAN]
  /\ isGetStatus \in [Slaves -> BOOLEAN]
  /\ sem \in [Slaves -> Nat]
  /\ monitor \in [Slaves -> {"wait", "call", "take"}]

NetType ==
  /\ toMaster \in [Slaves -> Seq(ToMasterMsg)]
  /\ toSlave \in [Slaves -> Seq(ToSlaveMsg)]
  /\ losses \in Nat

\* The type invariant, by groups of variables.
TypeOK ==
  /\ RadioType
  /\ NodeType
  /\ ThreadType
  /\ MasterType
  /\ SlaveType
  /\ NetType
  /\ fault \in BOOLEAN

Init ==
  /\ cd = [n \in Node |-> "HIGH"]
  /\ edge = [n \in Node |-> FALSE]
  /\ CD_Trigger = [n \in Node |-> FALSE]
  /\ Mulcast_Trigger = [n \in Node |-> FALSE]
  /\ playback_start = [n \in Node |-> FALSE]
  /\ late = [n \in Node |-> FALSE]
  /\ cdThread = [n \in Node |-> "poll"]
  /\ timePoll = [n \in Node |-> "poll"]
  /\ rtpPoll = [n \in Node |-> "poll"]
  /\ channel_busy = FALSE
  /\ status = "WAIT_SLAVE_GET_CHANNEL"
  /\ timeout_flag = FALSE
  /\ recvThread = "recv"
  /\ asker = Master
  /\ channel_applied = [s \in Slaves |-> FALSE]
  /\ slave_busy = [s \in Slaves |-> FALSE]
  /\ isGetStatus = [s \in Slaves |-> FALSE]
  /\ sem = [s \in Slaves |-> 0]
  /\ monitor = [s \in Slaves |-> "wait"]
  /\ toMaster = [s \in Slaves |-> <<>>]
  /\ toSlave = [s \in Slaves |-> <<>>]
  /\ presses = 0
  /\ expiries = 0
  /\ losses = 0
  /\ fault = FALSE
-----------------------------------------------------------------------------
(***************************************************************************)
(* The environment: users and time.                                        *)
(***************************************************************************)

\* A user keys the radio of gateway n: the pin falls.
Press(n) ==
  /\ cd[n] = "HIGH"
  /\ presses < MaxPress
  /\ presses' = presses + 1
  /\ cd' = [cd EXCEPT ![n] = "LOW"]
  /\ edge' = [edge EXCEPT ![n] = TRUE]
  /\ UNCHANGED <<expiries, nodeVars, threadVars, masterVars, slaveVars, netVars, fault>>

\* The user of gateway n lets go: the pin rises.
LetGo(n) ==
  /\ cd[n] = "LOW"
  /\ cd' = [cd EXCEPT ![n] = "HIGH"]
  /\ edge' = [edge EXCEPT ![n] = TRUE]
  /\ UNCHANGED <<presses, expiries, nodeVars, threadVars, masterVars, slaveVars, netVars, fault>>

\* A gateway that records into the network, not only to its own radio.
Transmitting(n) == CD_Trigger[n] /\ (n \in Slaves => ~slave_busy[n])

\* TimePollThread ends a talk whose user is gone (seen on the pin, for an edge
\* can pass before the channel is granted) or whose time is up.
TalkOver_TimeOnly(n) == CD_Trigger[n] /\ cd[n] = "LOW" /\ late[n]
TalkOver_PinOnly(n) == CD_Trigger[n] /\ cd[n] = "HIGH"
TalkOver(n) == CD_Trigger[n] /\ (cd[n] = "HIGH" \/ late[n])

\* MulcastPortPollThread stops listening when the time is up.
ListenOver_Always(n) == Mulcast_Trigger[n]
ListenOver_MasterOnly(n) == n = Master /\ Mulcast_Trigger[n] /\ late[n]
ListenOver(n) == Mulcast_Trigger[n] /\ late[n]

\* Nothing is under way that takes milliseconds: an edge to read, a flag to
\* act on, a datagram to deliver, the 400 ms a slave waits for an answer.
Settled ==
  /\ recvThread = "recv"
  /\ \A n \in Node :
       /\ ~edge[n] /\ cdThread[n] = "poll" /\ timePoll[n] = "poll" /\ rtpPoll[n] = "poll"
       /\ ~TalkOver(n) /\ ~ListenOver(n)
  /\ \A s \in Slaves :
       toMaster[s] = <<>> /\ toSlave[s] = <<>> /\ sem[s] = 0 /\ monitor[s] = "wait"

\* Gateway n has talked for 55 s or listened for 60 s.  Either is long against
\* everything in Settled.  Once late is set the threads notice it at any later
\* time, whatever else is then under way.  The five seconds between the limits
\* are there for a listener to outlast the talker; that it does is not assumed
\* here but recorded in `fault' when it fails.
Expire(n) ==
  /\ Settled
  /\ CD_Trigger[n] \/ Mulcast_Trigger[n]
  /\ late' = [late EXCEPT ![n] = TRUE]
  /\ expiries < MaxExpire
  /\ expiries' = expiries + 1
  /\ fault' = (fault \/ (Mulcast_Trigger[n] /\ \E m \in Node : Transmitting(m)))
  /\ UNCHANGED <<CD_Trigger, Mulcast_Trigger, playback_start, cd, edge,
                 presses, threadVars, masterVars, slaveVars, netVars>>

\* The network loses the oldest datagram of a link.
Lose(s) ==
  /\ losses < MaxLoss
  /\ losses' = losses + 1
  /\ \/ /\ toMaster[s] # <<>>
        /\ toMaster' = [toMaster EXCEPT ![s] = Tail(@)]
        /\ UNCHANGED toSlave
     \/ /\ toSlave[s] # <<>>
        /\ toSlave' = [toSlave EXCEPT ![s] = Tail(@)]
        /\ UNCHANGED toMaster
  /\ fault' = TRUE
  /\ UNCHANGED <<radioVars, nodeVars, threadVars, masterVars, slaveVars>>
-----------------------------------------------------------------------------
(***************************************************************************)
(* Helpers shared by the threads.                                          *)
(***************************************************************************)

\* The request of a slave, which wakes its monitor as well.
GetStatus(s) ==
  /\ isGetStatus' = [isGetStatus EXCEPT ![s] = TRUE]
  /\ toMaster' = [toMaster EXCEPT ![s] = Append(@, "get")]
  /\ sem' = [sem EXCEPT ![s] = @ + 1]

\* A slave gives the channel back.
ReleaseChannelStatus(s) == toMaster' = [toMaster EXCEPT ![s] = Append(@, "release")]

\* CMaster::MasterBeginRecordVoice, MasterEndRecorderVoice: to the whole map.
Broadcast(m) == toSlave' = [s \in Slaves |-> Append(toSlave[s], m)]

\* Set_RecordAndTimePoll_Event, Set_Playback_Event, ptt_onoff(ON) and start.
StartRecording(n) ==
  /\ CD_Trigger' = [CD_Trigger EXCEPT ![n] = TRUE]
  /\ playback_start' = [playback_start EXCEPT ![n] = TRUE]
  /\ late' = [late EXCEPT ![n] = FALSE]
  /\ UNCHANGED Mulcast_Trigger

\* Reset_RecordAndTimePoll_Event, Reset_Playback_Event and ptt_onoff(OFF).
StopRecording_PttOn(n) ==
  /\ CD_Trigger' = [CD_Trigger EXCEPT ![n] = FALSE]
  /\ UNCHANGED <<Mulcast_Trigger, playback_start, late>>
StopRecording_RelayOnly(n) ==
  /\ playback_start' = [playback_start EXCEPT ![n] = FALSE]
  /\ UNCHANGED <<CD_Trigger, Mulcast_Trigger, late>>
StopRecording(n) ==
  /\ CD_Trigger' = [CD_Trigger EXCEPT ![n] = FALSE]
  /\ playback_start' = [playback_start EXCEPT ![n] = FALSE]
  /\ UNCHANGED <<Mulcast_Trigger, late>>

\* Set_RTPRecv_Event (which restarts the clock), Set_Playback_Event, PTT on.
StartReceiving(n) ==
  /\ Mulcast_Trigger' = [Mulcast_Trigger EXCEPT ![n] = TRUE]
  /\ playback_start' = [playback_start EXCEPT ![n] = TRUE]
  /\ late' = [late EXCEPT ![n] = FALSE]
  /\ UNCHANGED CD_Trigger

\* Reset_RTPRecv_Event, Reset_Playback_Event and ptt_onoff(OFF).
StopReceiving(n) ==
  /\ Mulcast_Trigger' = [Mulcast_Trigger EXCEPT ![n] = FALSE]
  /\ playback_start' = [playback_start EXCEPT ![n] = FALSE]
  /\ UNCHANGED <<CD_Trigger, late>>

\* A slave returns to free: slave_busy_flag, channel_applied_flag.
ForgetGrant_Applied(s) ==
  /\ slave_busy' = [slave_busy EXCEPT ![s] = FALSE]
  /\ UNCHANGED channel_applied
ForgetGrant(s) ==
  /\ slave_busy' = [slave_busy EXCEPT ![s] = FALSE]
  /\ channel_applied' = [channel_applied EXCEPT ![s] = FALSE]

\* What a talker does when its voice is over, under flag_mutex: the master
\* tells every slave and frees the channel, a slave gives the channel back,
\* and so it does after a local talk, with a channel it was not given.
EndOwnVoice(n) ==
  /\ StopRecording(n)
  /\ IF n = Master
     THEN /\ Broadcast("end")
          /\ channel_busy' = FALSE
          /\ UNCHANGED <<toMaster, channel_applied, slave_busy>>
     ELSE /\ ReleaseChannelStatus(n)
          /\ ForgetGrant(n)
          /\ UNCHANGED <<toSlave, channel_busy>>
  /\ fault' = (fault \/ ~CD_Trigger[n] \/ (n \in Slaves /\ slave_busy[n]))
  /\ UNCHANGED <<status, timeout_flag, recvThread, asker, isGetStatus, sem, monitor, losses>>
-----------------------------------------------------------------------------
(***************************************************************************)
(* CDPollThread: it reads the pin after an edge and again after 15 ms, and *)
(* acts when the two agree.                                                *)
(***************************************************************************)

ReadEdge(n, level) ==
  /\ cdThread[n] = "poll"
  /\ edge[n]
  /\ cd[n] = level
  /\ edge' = [edge EXCEPT ![n] = FALSE]
  /\ UNCHANGED <<cd, presses, expiries>>

\* A rising edge: only a gateway that records has something to release.  The
\* flag is tested before flag_mutex is taken.
CDRise(n) ==
  /\ ReadEdge(n, "HIGH")
  /\ cdThread' = [cdThread EXCEPT ![n] = IF CD_Trigger[n] THEN "release" ELSE "poll"]
  /\ UNCHANGED <<nodeVars, timePoll, rtpPoll, masterVars, slaveVars, netVars, fault>>

CDRelease(n) ==
  /\ cdThread[n] = "release"
  /\ cdThread' = [cdThread EXCEPT ![n] = "poll"]
  /\ EndOwnVoice(n)
  /\ UNCHANGED <<radioVars, timePoll, rtpPoll>>

\* A falling edge at the master: it takes the channel when it is free.  Only
\* this thread sets CD_Trigger there, so that the test of it before flag_mutex
\* still holds in the section.
MasterMayTalk_Unchecked == ~CD_Trigger[Master]
MasterMayTalk == ~CD_Trigger[Master] /\ ~channel_busy

CDFallMaster ==
  /\ ReadEdge(Master, "LOW")
  /\ IF MasterMayTalk
     THEN /\ StartRecording(Master)
          /\ Broadcast("begin")
          /\ channel_busy' = TRUE
     ELSE UNCHANGED <<nodeVars, toSlave, channel_busy>>
  /\ UNCHANGED <<threadVars, status, timeout_flag, recvThread, asker, slaveVars,
                 toMaster, losses, fault>>

\* A falling edge at a slave, unless it records or plays already ...
CDFallSlave(s) ==
  /\ ReadEdge(s, "LOW")
  /\ cdThread' = [cdThread EXCEPT ![s] =
                     IF ~CD_Trigger[s] /\ ~playback_start[s] THEN "ask" ELSE "poll"]
  /\ UNCHANGED <<nodeVars, timePoll, rtpPoll, masterVars, slaveVars, netVars, fault>>

\* ... lets CSlave::GetStatus ask the master.  No lock is held since the test.
CDAsk(s) ==
  /\ cdThread[s] = "ask"
  /\ cdThread' = [cdThread EXCEPT ![s] = "poll"]
  /\ GetStatus(s)
  /\ UNCHANGED <<radioVars, nodeVars, timePoll, rtpPoll, masterVars, channel_applied,
                 slave_busy, monitor, toSlave, losses, fault>>
-----------------------------------------------------------------------------
(***************************************************************************)
(* TimePollThread: every 13 ms while recording it looks at the pin and the *)
(* clock, and ends the talk if the user is gone or the time is up.         *)
(***************************************************************************)

\* The decision, before flag_mutex is taken.  timeout_flag has no reader at a
\* slave.
TimeDecide(n) ==
  /\ timePoll[n] = "poll"
  /\ TalkOver(n)
  /\ timeout_flag' = (timeout_flag \/ (n = Master /\ cd[n] = "LOW"))
  /\ timePoll' = [timePoll EXCEPT ![n] = "stop"]
  /\ UNCHANGED <<radioVars, nodeVars, cdThread, rtpPoll, channel_busy, status,
                 recvThread, asker, slaveVars, netVars, fault>>

TimeStop(n) ==
  /\ timePoll[n] = "stop"
  /\ timePoll' = [timePoll EXCEPT ![n] = "poll"]
  /\ EndOwnVoice(n)
  /\ UNCHANGED <<radioVars, cdThread, rtpPoll>>
-----------------------------------------------------------------------------
(***************************************************************************)
(* MulcastPortPollThread: a listener gives up when no end was announced.   *)
(***************************************************************************)

RtpTimeout(n) ==
  /\ rtpPoll[n] = "poll"
  /\ ListenOver(n)
  /\ rtpPoll' = [rtpPoll EXCEPT ![n] = "stop"]
  /\ timeout_flag' = (timeout_flag \/ n = Master)
  /\ UNCHANGED <<radioVars, nodeVars, cdThread, timePoll, channel_busy, status,
                 recvThread, asker, slaveVars, netVars, fault>>

\* Only the master keeps a channel to free.
BusyAfterTimeout_Kept(n) == channel_busy
BusyAfterTimeout(n) == channel_busy /\ n # Master

RtpStop(n) ==
  /\ rtpPoll[n] = "stop"
  /\ rtpPoll' = [rtpPoll EXCEPT ![n] = "poll"]
  /\ StopReceiving(n)
  /\ channel_busy' = BusyAfterTimeout(n)
  /\ fault' = (fault \/ ~Mulcast_Trigger[n])
  /\ UNCHANGED <<radioVars, cdThread, timePoll, status, timeout_flag, recvThread,
                 asker, slaveVars, netVars>>
-----------------------------------------------------------------------------
(***************************************************************************)
(* The master's receive thread: MasterOnDataFunc.                          *)
(***************************************************************************)

MasterReceives(s, m) ==
  /\ recvThread = "recv"
  /\ toMaster[s] # <<>>
  /\ Head(toMaster[s]) = m
  /\ toMaster' = [toMaster EXCEPT ![s] = Tail(@)]

\* A talk that timed out puts the master back in WAIT_SLAVE_GET_CHANNEL.
StatusNow == IF timeout_flag THEN "WAIT_SLAVE_GET_CHANNEL" ELSE status

\* GETCHANNELSTATUS, up to the lock: in WAIT_SLAVE_RELEASE_CHANNEL there is no
\* answer.
GetChannelStatus(s) ==
  /\ MasterReceives(s, "get")
  /\ timeout_flag' = FALSE
  /\ status' = StatusNow
  /\ IF StatusNow = "WAIT_SLAVE_GET_CHANNEL"
     THEN recvThread' = "answer" /\ asker' = s
     ELSE UNCHANGED <<recvThread, asker>>
  /\ UNCHANGED <<radioVars, nodeVars, threadVars, channel_busy, slaveVars, toSlave,
                 losses, fault>>

Answers(s) ==
  /\ recvThread = "answer" /\ asker = s
  /\ recvThread' = "recv" /\ asker' = Master
  /\ UNCHANGED <<radioVars, threadVars, timeout_flag, slaveVars, toMaster, losses>>

\* GETCHANNELSTATUS, under flag_mutex: the asker is told that the channel is
\* busy ...
ReplyBusy(s) ==
  /\ Answers(s)
  /\ channel_busy
  /\ toSlave' = [toSlave EXCEPT ![s] = Append(@, "busy")]
  /\ UNCHANGED <<nodeVars, channel_busy, status, fault>>

\* ... or that it is free, and everyone is told to listen.  A limit that ran
\* out since timeout_flag was tested leaves it set for the new talk: the next
\* request then resets status, and the release of the talk is not heeded.
ReplyFree(s) ==
  /\ Answers(s)
  /\ ~channel_busy
  /\ toSlave' = [t \in Slaves |-> IF t = s THEN toSlave[t] \o <<"free", "begin">>
                                           ELSE Append(toSlave[t], "begin")]
  /\ StartReceiving(Master)
  /\ channel_busy' = TRUE
  /\ status' = "WAIT_SLAVE_RELEASE_CHANNEL"
  /\ fault' = (fault \/ timeout_flag)

\* RELEASECHANNELSTATUS, up to the lock: the sender is not looked at.
ReleaseChannel(s) ==
  /\ MasterReceives(s, "release")
  /\ IF status = "WAIT_SLAVE_RELEASE_CHANNEL" /\ channel_busy
     THEN recvThread' = "release" /\ UNCHANGED status
     ELSE status' = "WAIT_SLAVE_GET_CHANNEL" /\ UNCHANGED recvThread
  /\ UNCHANGED <<radioVars, nodeVars, threadVars, channel_busy, timeout_flag, asker,
                 slaveVars, toSlave, losses, fault>>

\* RELEASECHANNELSTATUS, under flag_mutex: everyone is told to stop listening.
EndSlaveVoice ==
  /\ recvThread = "release"
  /\ recvThread' = "recv"
  /\ Broadcast("end")
  /\ StopReceiving(Master)
  /\ channel_busy' = FALSE
  /\ status' = "WAIT_SLAVE_GET_CHANNEL"
  /\ fault' = (fault \/ ~Mulcast_Trigger[Master])
  /\ UNCHANGED <<radioVars, threadVars, timeout_flag, asker, slaveVars, toMaster, losses>>
-----------------------------------------------------------------------------
(***************************************************************************)
(* A slave's receive thread (SlaveOnDataFunc) and its MonitorStatusThread, *)
(* which exclude each other by m_onDataLocker.                             *)
(***************************************************************************)

SlaveReceives(s, m) ==
  /\ monitor[s] # "take"
  /\ toSlave[s] # <<>>
  /\ Head(toSlave[s]) = m
  /\ toSlave' = [toSlave EXCEPT ![s] = Tail(@)]
  /\ UNCHANGED <<radioVars, threadVars, masterVars, slave_busy, sem, monitor,
                 toMaster, losses, fault>>

\* SETCHANNELSTATUS, busy: the request is answered and nothing else happens.
SetChannelBusy(s) ==
  /\ SlaveReceives(s, "busy")
  /\ isGetStatus' = [isGetStatus EXCEPT ![s] = FALSE]
  /\ UNCHANGED <<nodeVars, channel_applied>>

\* SETCHANNELSTATUS, free: the slave talks, unless it already does on its own.
SetChannelFree(s) ==
  /\ SlaveReceives(s, "free")
  /\ isGetStatus' = [isGetStatus EXCEPT ![s] = FALSE]
  /\ IF slave_busy[s]
     THEN UNCHANGED <<nodeVars, channel_applied>>
     ELSE /\ StartRecording(s)
          /\ channel_applied' = [channel_applied EXCEPT ![s] = TRUE]

\* A slave that talks itself does not listen.
IgnoresBegin_LocalOnly(s) == slave_busy[s]
IgnoresBegin(s) == channel_applied[s] \/ slave_busy[s]

BeginRecorderVoice(s) ==
  /\ SlaveReceives(s, "begin")
  /\ IF IgnoresBegin(s) THEN UNCHANGED nodeVars
                        ELSE StartReceiving(s)
  /\ UNCHANGED <<isGetStatus, channel_applied>>

EndRecorderVoice(s) ==
  /\ SlaveReceives(s, "end")
  /\ channel_applied' = [channel_applied EXCEPT ![s] = FALSE]
  /\ IF channel_applied[s] \/ slave_busy[s] \/ ~playback_start[s]
     THEN UNCHANGED nodeVars
     ELSE StopReceiving(s)
  /\ UNCHANGED isGetStatus

\* SemWait lets the monitor through once per post.
SemWait_Interrupted(s) == monitor[s] = "wait"
SemWait(s) == monitor[s] = "wait" /\ sem[s] > 0

\* Is the request still unanswered 400 ms later?  isGetStatus is read before
\* the callback lock is taken, and is not cleared.
WantsLocal_Inverted(s) == ~isGetStatus[s]
WantsLocal(s) == isGetStatus[s]

AnswerUnderWay(s) == toMaster[s] # <<>> \/ toSlave[s] # <<>> \/ asker = s

MonitorWake(s) ==
  /\ SemWait(s)
  /\ sem' = [sem EXCEPT ![s] = @ - 1]
  /\ monitor' = [monitor EXCEPT ![s] = IF WantsLocal(s) THEN "call" ELSE "wait"]
  /\ fault' = (fault \/ (isGetStatus[s] /\ AnswerUnderWay(s)))
  /\ UNCHANGED <<radioVars, nodeVars, threadVars, masterVars, channel_applied,
                 slave_busy, isGetStatus, netVars>>

\* The slave keeps quiet when it talks already, when its user is gone, and
\* when it hears somebody else.
MayTalkLocally(s) == ~slave_busy[s] /\ cd[s] = "LOW" /\ ~Mulcast_Trigger[s]

\* LOCALSETCHANNELSTATUS, up to the lock: the master is taken for dead.
LocalSet(s) ==
  /\ monitor[s] = "call"
  /\ IF MayTalkLocally(s)
     THEN /\ monitor' = [monitor EXCEPT ![s] = "take"]
          /\ slave_busy' = [slave_busy EXCEPT ![s] = TRUE]
     ELSE /\ monitor' = [monitor EXCEPT ![s] = "wait"]
          /\ UNCHANGED slave_busy
  /\ UNCHANGED <<radioVars, nodeVars, threadVars, masterVars, channel_applied,
                 isGetStatus, sem, netVars, fault>>

\* LOCALSETCHANNELSTATUS, under flag_mutex: the slave talks to its own radio.
LocalTake(s) ==
  /\ monitor[s] = "take"
  /\ monitor' = [monitor EXCEPT ![s] = "wait"]
  /\ StartRecording(s)
  /\ channel_applied' = [channel_applied EXCEPT ![s] = TRUE]
  /\ UNCHANGED <<radioVars, threadVars, masterVars, slave_busy, isGetStatus, sem,
                 netVars, fault>>
-----------------------------------------------------------------------------
User(n) == Press(n) \/ LetGo(n)

\* The threads, one operator each.
CDPollThread(n) ==
  \/ CDRise(n)
  \/ CDRelease(n)
  \/ n = Master /\ CDFallMaster
  \/ n \in Slaves /\ (CDFallSlave(n) \/ CDAsk(n))

TimePollThread(n) == TimeDecide(n) \/ TimeStop(n)

MulcastPortPollThread(n) == RtpTimeout(n) \/ RtpStop(n)

MasterRecvThread ==
  \/ EndSlaveVoice
  \/ \E s \in Slaves :
       GetChannelStatus(s) \/ ReplyBusy(s) \/ ReplyFree(s) \/ ReleaseChannel(s)

SlaveRecvThread(s) ==
  \/ SetChannelBusy(s) \/ SetChannelFree(s)
  \/ BeginRecorderVoice(s) \/ EndRecorderVoice(s)

MonitorStatusThread(s) == MonitorWake(s) \/ LocalSet(s) \/ LocalTake(s)

Next ==
  \/ \E n \in Node :
       \/ User(n) \/ Expire(n)
       \/ CDPollThread(n) \/ TimePollThread(n) \/ MulcastPortPollThread(n)
  \/ MasterRecvThread
  \/ \E s \in Slaves : SlaveRecvThread(s) \/ MonitorStatusThread(s) \/ Lose(s)

Spec == Init /\ [][Next]_vars

\* Every thread keeps being scheduled.  Users and the network owe nothing.
ThreadsRun ==
  /\ \A n \in Node : /\ WF_vars(CDPollThread(n))
                     /\ WF_vars(TimePollThread(n))
                     /\ WF_vars(MulcastPortPollThread(n))
  /\ WF_vars(MasterRecvThread)
  /\ \A s \in Slaves : WF_vars(SlaveRecvThread(s)) /\ WF_vars(MonitorStatusThread(s))

FairSpec == Spec /\ ThreadsRun

\* Moreover time passes: a limit that goes on being exceeded is noticed.
TimedSpec == FairSpec /\ \A n \in Node : WF_vars(Expire(n))
-----------------------------------------------------------------------------
(***************************************************************************)
(* Safety, whatever the network and the scheduler do.                      *)
(***************************************************************************)

\* The channel is never marked busy without somebody the master watches: it
\* records itself, or its receive thread runs and times the slave out.  Four
\* paths clear the flags (a release by the user, by the timer, by a slave, by
\* the listening timeout) and each must clear both sides.
BusyHasOwner == channel_busy => CD_Trigger[Master] \/ Mulcast_Trigger[Master]

\* The relay of the transmitter is never keyed without a reason that ends: the
\* gateway records (TimePollThread watches) or receives (the RTP thread does).
KeyedHasReason ==
  \A n \in Node : playback_start[n] => CD_Trigger[n] \/ Mulcast_Trigger[n]

\* A slave that was granted the channel, or took it locally, is recording: a
\* flag that outlived the talk would make it ignore every later begin and end.
GrantIsRecording ==
  \A s \in Slaves : /\ channel_applied[s] => CD_Trigger[s]
                    /\ slave_busy[s] => CD_Trigger[s] \/ monitor[s] = "take"
-----------------------------------------------------------------------------
(***************************************************************************)
(* Safety, as long as no datagram is lost, no answer is later than the     *)
(* 400 ms a slave waits, no listener times out before the talker, no       *)
(* thread grants or ends a talk on a flag that another one has changed     *)
(* since it looked, and no local talk has ended with the release of a      *)
(* channel that may be another's (`fault' records each of these).          *)
(***************************************************************************)

\* At most one gateway sends its voice to the others.
OneTalker ==
  ~fault => \A m, n \in Node : Transmitting(m) /\ Transmitting(n) => m = n

\* A slave sends its voice only while the master holds the channel for it.
TalkerIsKnown ==
  ~fault => \A s \in Slaves : Transmitting(s) => channel_busy /\ Mulcast_Trigger[Master]

\* No gateway records and receives at once, and so feeds its own radio twice.
OneRole == ~fault => \A n \in Node : ~(CD_Trigger[n] /\ Mulcast_Trigger[n])

\* A slave uses the channel from the answer that grants it, while that is under
\* way, to the arrival of the release.
Has(q, m) == \E i \in 1..Len(q) : q[i] = m
FreeUnderWay(s) == Has(toSlave[s], "free")
ReleaseUnderWay(s) == Has(toMaster[s], "release")
Idle(s) == ~FreeUnderWay(s) /\ ~ReleaseUnderWay(s) /\ ~Transmitting(s)
Users == { s \in Slaves : ~Idle(s) } \cup { m \in {Master} : CD_Trigger[m] }

TheFloor == INSTANCE Floor WITH users <- Users, busy <- channel_busy

\* The channel is handed from one gateway to another only by way of the master
\* marking it free, which it does while no slave holds it: no grant crosses a
\* release, a talk or another grant that is still under way.
KeepsFloor == TheFloor!Spec
-----------------------------------------------------------------------------
(***************************************************************************)
(* A claim of the source that the code does not keep.                      *)
(***************************************************************************)

\* MyRepeater.cpp:704: on a release the master tells everyone that the `slave
\* voice data ends': no slave but the sender is talking then.
EndIsOfTheTalker ==
  [][\A s \in Slaves : ReleaseChannel(s) /\ recvThread' = "release" =>
       \A t \in Slaves \ {s} : ~(Transmitting(t) /\ cd[t] = "LOW")]_vars
-----------------------------------------------------------------------------
(***************************************************************************)
(* Liveness.                                                               *)
(***************************************************************************)

\* A gateway whose user has let go stops recording, even when the channel was
\* granted only after the user let go, so that no edge of the pin was noticed.
UserGoneStops ==
  \A n \in Node : CD_Trigger[n] /\ cd[n] = "HIGH" ~> ~CD_Trigger[n] \/ cd[n] = "LOW"

\* A slave's request leads somewhere while the user holds the key: it talks,
\* it listens, or it was told that the channel is busy.
RequestSettles ==
  \A s \in Slaves :
    sem[s] > 0 /\ cd[s] = "LOW" ~>
      ~isGetStatus[s] \/ cd[s] = "HIGH" \/ CD_Trigger[s] \/ Mulcast_Trigger[s]

\* The channel does not stay busy: not after a lost release, not under a user
\* who never lets go.
ChannelIsFreed == channel_busy ~> ~channel_busy

\* No relay stays keyed.
RelayDrops == \A n \in Node : playback_start[n] ~> ~playback_start[n]
=============================================================================
