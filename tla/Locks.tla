------------------------------- MODULE Locks --------------------------------
(***************************************************************************)
(* The mutexes of one gateway.  A thread does one job after the other; a   *)
(* job is the sequence of locks it takes and releases and of accesses to   *)
(* the two containers the locks are for, in the order of the code.  What   *)
(* makes a thread choose one job or another is left to the other modules.  *)
(* When Stop sets m_PleaseStopRepeater the threads of the radio finish the *)
(* job they do and end; those of the protocol go on until DisConnect, the  *)
(* next call of Stop, ends them (module Shutdown): here they just go on.   *)
(* The mutexes are not recursive: who locks one twice waits for itself.    *)
(* MySynCond's own mutex is held for one statement and is left out.        *)
(*                                                                         *)
(* An operator named X_Y is the operator X with a plausible mistake Y.     *)
(***************************************************************************)
EXTENDS Sequences, FiniteSets

CONSTANT Silence  \* whether 60 s may pass without a heartbeat to the master

ASSUME LocksAssumption == Silence \in BOOLEAN

VARIABLES
  basedevice_ID,  \* whether this gateway is the master
  m_PleaseStopRepeater,
  running,        \* the threads whose loop has not ended
  job,            \* what each thread has still to do
  holder          \* who holds each mutex

vars == <<basedevice_ID, m_PleaseStopRepeater, running, job, holder>>

Mutexes ==
  {"m_aliveLocker", "m_mapLocker", "m_onDataLocker", "m_statusLocker", "flag_mutex", "map_mutex"}

Containers == {"slavemap", "sessionmap"}

Op(kind, x) == <<kind, x>>
Reads(x) == << Op("read", x) >>
Writes(x) == << Op("write", x) >>
Under(mutex, ops) == << Op("lock", mutex) >> \o ops \o << Op("unlock", mutex) >>

-----------------------------------------------------------------------------
(***************************************************************************)
(* Sections that several jobs contain.                                     *)
(***************************************************************************)
OnData(ops) == Under("m_onDataLocker", ops)
FlagSection(ops) == Under("flag_mutex", ops)
Sendmap2Slave == Under("m_mapLocker", Reads("slavemap"))

\* Plausible mistake: the map is walked without its lock.
TellSlaves_Unlocked == Reads("slavemap")

\* MasterBeginRecordVoice, MasterEndRecorderVoice.
TellSlaves == Under("m_mapLocker", Reads("slavemap"))

\* Plausible mistake: the sessions are changed without their lock.
RtpSessionCreate_Unlocked == Writes("sessionmap")

RtpSessionCreate == Under("map_mutex", Writes("sessionmap"))

(***************************************************************************)
(* The master's jobs.                                                      *)
(***************************************************************************)
Register ==
  Under("m_mapLocker", Writes("slavemap") \o OnData(RtpSessionCreate)) \o Sendmap2Slave

AliveSeen == Under("m_aliveLocker", <<>>)

Updatemap_Known == AliveSeen \o Under("m_mapLocker", Writes("slavemap"))

\* The scan erases an entry that is too old.  One such entry a scan is modelled:
\* a further one repeats the same locks, from the same state.
Updatemap_Old ==
  AliveSeen \o Under("m_mapLocker", Writes("slavemap")) \o Sendmap2Slave
            \o Under("m_mapLocker", OnData(RtpSessionCreate))

Updatemap_New ==
  AliveSeen \o Under("m_mapLocker", Writes("slavemap") \o OnData(RtpSessionCreate))
            \o Sendmap2Slave \o Under("m_mapLocker", <<>>)

\* The callback's argument holds a copy of the map, which is made first.
ApplyWhileBusy == Reads("slavemap") \o OnData(FlagSection(<<>>))
ApplyWhileFree == Reads("slavemap") \o OnData(FlagSection(TellSlaves))
Release == Reads("slavemap") \o OnData(FlagSection(TellSlaves))
ReleaseIgnored == Reads("slavemap") \o OnData(<<>>)

MonitorAlive ==
  Under("m_aliveLocker",
        Under("m_mapLocker", Writes("slavemap") \o OnData(RtpSessionCreate)))

(***************************************************************************)
(* The slave's jobs.                                                       *)
(***************************************************************************)
Sendmap2Repeater ==
  Under("m_mapLocker", Writes("slavemap")) \o Reads("slavemap") \o OnData(RtpSessionCreate)

Answered == Under("m_statusLocker", <<>>) \o Reads("slavemap") \o OnData(FlagSection(<<>>))

AnswerIgnored == Under("m_statusLocker", <<>>) \o Reads("slavemap") \o OnData(<<>>)

VoiceBeginsOrEnds == Reads("slavemap") \o OnData(FlagSection(<<>>))

\* Plausible mistake: flag_mutex is taken before the callback's lock.
NoAnswer_FlagFirst == Reads("slavemap") \o FlagSection(OnData(<<>>))

NoAnswer == Reads("slavemap") \o OnData(FlagSection(<<>>))

SendAlive2Master == Under("m_mapLocker", Reads("slavemap"))

GetStatus == Under("m_statusLocker", <<>>)

(***************************************************************************)
(* The jobs of the radio's threads on either gateway.                      *)
(***************************************************************************)
EndTalk == FlagSection(IF basedevice_ID THEN TellSlaves ELSE <<>>)
ListenTimeout == FlagSection(<<>>)
SendVoice == Under("map_mutex", Reads("sessionmap"))

\* After its loop the RTP-send thread says goodbye on every session and
\* destroys it, without the lock.
DestroySessions == Writes("sessionmap")

RecvJobs ==
  IF basedevice_ID
  THEN {Register, Updatemap_Known, Updatemap_Old, Updatemap_New,
        ApplyWhileBusy, ApplyWhileFree, Release, ReleaseIgnored}
  ELSE {Sendmap2Repeater, Answered, AnswerIgnored, VoiceBeginsOrEnds}

AliveJobs ==
  IF ~basedevice_ID THEN {SendAlive2Master}
  ELSE IF Silence THEN {AliveSeen, MonitorAlive} ELSE {AliveSeen}

MonitorJobs == IF basedevice_ID THEN {} ELSE {NoAnswer}

\* A master begins the talk itself, while the channel is free.
CDJobs == IF basedevice_ID THEN {FlagSection(TellSlaves), FlagSection(<<>>)} ELSE {GetStatus, EndTalk}

Jobs ==
  [udp_recv |-> RecvJobs, alive |-> AliveJobs, monitor |-> MonitorJobs,
   cd_poll |-> CDJobs, timer |-> {EndTalk}, rtp_poll |-> {ListenTimeout},
   rtp_send |-> {SendVoice}]

Threads == {"udp_recv", "alive", "monitor", "cd_poll", "timer", "rtp_poll", "rtp_send"}

\* The threads that look at m_PleaseStopRepeater.
RadioThreads == {"cd_poll", "timer", "rtp_poll", "rtp_send"}

LastJob(t) == IF t = "rtp_send" THEN DestroySessions ELSE <<>>

-----------------------------------------------------------------------------
Init ==
  /\ basedevice_ID \in BOOLEAN
  /\ m_PleaseStopRepeater = FALSE
  /\ running = Threads
  /\ job = [t \in Threads |-> <<>>]
  /\ holder = [m \in Mutexes |-> "nobody"]

Start(t) ==
  /\ job[t] = <<>> /\ t \in running
  /\ t \in RadioThreads => ~m_PleaseStopRepeater
  /\ \E j \in Jobs[t] : job' = [job EXCEPT ![t] = j]
  /\ UNCHANGED <<basedevice_ID, m_PleaseStopRepeater, running, holder>>

End(t) ==
  /\ job[t] = <<>> /\ t \in running \cap RadioThreads
  /\ m_PleaseStopRepeater
  /\ running' = running \ {t}
  /\ job' = [job EXCEPT ![t] = LastJob(t)]
  /\ UNCHANGED <<basedevice_ID, m_PleaseStopRepeater, holder>>

SetThreadExitFlag ==
  /\ ~m_PleaseStopRepeater
  /\ m_PleaseStopRepeater' = TRUE
  /\ UNCHANGED <<basedevice_ID, running, job, holder>>

Next1(t) == Head(job[t])

Lock(t) ==
  /\ job[t] # <<>> /\ Next1(t)[1] = "lock"
  /\ holder[Next1(t)[2]] = "nobody"
  /\ holder' = [holder EXCEPT ![Next1(t)[2]] = t]
  /\ job' = [job EXCEPT ![t] = Tail(@)]
  /\ UNCHANGED <<basedevice_ID, m_PleaseStopRepeater, running>>

Unlock(t) ==
  /\ job[t] # <<>> /\ Next1(t)[1] = "unlock"
  /\ holder' = [holder EXCEPT ![Next1(t)[2]] = "nobody"]
  /\ job' = [job EXCEPT ![t] = Tail(@)]
  /\ UNCHANGED <<basedevice_ID, m_PleaseStopRepeater, running>>

Access(t) ==
  /\ job[t] # <<>> /\ Next1(t)[1] \in {"read", "write"}
  /\ job' = [job EXCEPT ![t] = Tail(@)]
  /\ UNCHANGED <<basedevice_ID, m_PleaseStopRepeater, running, holder>>

Next ==
  \/ SetThreadExitFlag
  \/ \E t \in Threads : Start(t) \/ Lock(t) \/ Unlock(t) \/ Access(t) \/ End(t)

Spec == Init /\ [][Next]_vars

-----------------------------------------------------------------------------
\* t cannot go on before u releases a mutex.
WaitsFor(t, u) ==
  job[t] # <<>> /\ Next1(t)[1] = "lock" /\ holder[Next1(t)[2]] = u

(***************************************************************************)
(* No threads wait for each other in a circle, so every job ends.          *)
(***************************************************************************)
NoDeadlock ==
  \A S \in (SUBSET Threads) \ {{}} : \E t \in S : \A u \in S : ~WaitsFor(t, u)

Touches(t, kind, x) == job[t] # <<>> /\ Next1(t) = Op(kind, x)

\* t changes x while u reads or changes it.
Race(t, u, x) ==
  t # u /\ Touches(t, "write", x) /\ (Touches(u, "write", x) \/ Touches(u, "read", x))

(***************************************************************************)
(* No thread walks the RTP sessions, or closes one, while another changes  *)
(* them, but for one: the RTP-send thread, which destroys them without the *)
(* lock when Stop has ended its loop, while the receive thread (or the     *)
(* silence monitor) may still create and delete some.                      *)
(***************************************************************************)
OneSessionRace ==
  \A t, u \in Threads :
    Race(t, u, "sessionmap") =>
      "rtp_send" \in {t, u} \ running /\ {t, u} \subseteq {"rtp_send", "udp_recv", "alive"}

(***************************************************************************)
(* No thread reads slavemap while another changes it, but for one: on a    *)
(* slave the monitor thread copies the map without the lock (NoAnswer) and *)
(* the receive thread may replace it meanwhile.                            *)
(***************************************************************************)
OneSlavemapRace ==
  \A t, u \in Threads :
    Race(t, u, "slavemap") => ~basedevice_ID /\ t = "udp_recv" /\ u = "monitor"
=============================================================================
