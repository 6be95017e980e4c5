------------------------------ MODULE Shutdown ------------------------------
(***************************************************************************)
(* The threads of one gateway, the three events (MySynCond) that put four  *)
(* of them to sleep, and MyRepeater::Stop, which main runs after a signal  *)
(* while they all still run: it disconnects, wakes one sleeper after the   *)
(* other and joins each thread in a fixed order.                           *)
(*                                                                         *)
(* Which talk is allowed is the matter of module Channel.  Here the radio, *)
(* the clock and the network are free: any reading and any message may     *)
(* come at any time, and the handlers keep the tests that decide whether   *)
(* they set or reset an event.  Set and Reset of one event are one step,   *)
(* and so is the body of a handler under flag_mutex.                       *)
(*                                                                         *)
(* An operator named X_Y is the operator X with a plausible mistake Y.     *)
(***************************************************************************)
EXTENDS Integers, Sequences

CONSTANT MaxTokens   \* bound: the tokens GetStatus may leave in the semaphore

ASSUME TokensAssumption == MaxTokens \in Nat

VARIABLES
  basedevice_ID,  \* whether this gateway is the master
  stop,           \* m_PleaseStopRepeater
  isRecvStatus,   \* whether the receive and the monitor thread go on
  step,           \* the next step of Stop
  connected,      \* whether socket and semaphore still exist
  crashed,        \* whether the process died before Stop returned
  at,             \* where each thread is
  trigger_flag,   \* the events, with CD_Trigger_flag and its like
  sem,            \* tokens for the monitor thread
  isGetStatus,    \* a slave waits for the master's answer
  busy,           \* channel_busy_flag of a master, slave_busy_flag of a slave
  channel_applied_flag

mainVars == <<stop, isRecvStatus, step, connected, crashed>>
talkVars == <<sem, isGetStatus, busy, channel_applied_flag>>
vars == <<basedevice_ID, mainVars, at, trigger_flag, talkVars>>

(***************************************************************************)
(* The threads that sleep on an event, and that event; and the threads     *)
(* that poll something else.                                               *)
(***************************************************************************)
Events == {"cd", "mulcast", "playback"}

EventOf == [record |-> "cd", timer |-> "cd",
            rtp_poll |-> "mulcast", playback |-> "playback"]

Sleepers == DOMAIN EventOf
Pollers == {"cd_poll", "udp_recv", "monitor"}
Threads == Sleepers \cup Pollers

(***************************************************************************)
(* Stop, in the order of its statements: the threads it joins first, then  *)
(* what it does.  A join changes nothing here, so joins are the guard of   *)
(* the statement after them.  A statement with an event's name sets it.    *)
(***************************************************************************)
Plan ==
  << <<{}, "exit">>, <<{}, "disconnect">>,
     <<{"udp_recv"}, "post">>, <<{"monitor"}, "close">>,
     <<{"cd_poll"}, "cd">>,
     <<{"record", "timer"}, "playback">>,
     <<{"playback"}, "mulcast">>,
     <<{"rtp_poll"}, "delete">> >>

Stopped == step > Len(Plan)

TypeOK ==
  /\ basedevice_ID \in BOOLEAN /\ stop \in BOOLEAN /\ isRecvStatus \in BOOLEAN
  /\ step \in Nat
  /\ connected \in BOOLEAN /\ crashed \in BOOLEAN
  /\ at \in [Threads -> {"test", "asleep", "awake", "body", "ended"}]
  /\ trigger_flag \in [Events -> BOOLEAN]
  /\ sem \in Nat
  /\ isGetStatus \in BOOLEAN /\ busy \in BOOLEAN /\ channel_applied_flag \in BOOLEAN

\* A master has no monitor thread.
Init ==
  /\ basedevice_ID \in BOOLEAN
  /\ stop = FALSE /\ isRecvStatus = TRUE /\ step = 1
  /\ connected = TRUE /\ crashed = FALSE
  /\ at = [t \in Threads |->
             IF t = "monitor" /\ basedevice_ID THEN "ended" ELSE "test"]
  /\ trigger_flag = [e \in Events |-> FALSE]
  /\ sem = 0
  /\ isGetStatus = FALSE /\ busy = FALSE /\ channel_applied_flag = FALSE

Goes(t, from, to) == at[t] = from /\ at' = [at EXCEPT ![t] = to]

(***************************************************************************)
(* MySynCond.  CondTrigger broadcasts the talk's event, which two threads  *)
(* wait for, and signals the others.  CondWait tests the flag under the    *)
(* lock, before it sleeps and again whenever it wakes.                     *)
(***************************************************************************)
\* Plausible mistake: the talk's event wakes one thread only.
WokenBy_Signal(set, pcs) ==
  [t \in Threads |->
     IF /\ t \in Sleepers /\ pcs[t] = "asleep" /\ EventOf[t] \in set
        /\ t = "timer" => pcs["record"] # "asleep"
     THEN "test" ELSE pcs[t]]

WokenBy(set, pcs) ==
  [t \in Threads |->
     IF t \in Sleepers /\ pcs[t] = "asleep" /\ EventOf[t] \in set THEN "test" ELSE pcs[t]]

SetEvents(set, pcs) ==
  /\ trigger_flag' = [e \in Events |-> trigger_flag[e] \/ e \in set]
  /\ at' = WokenBy(set, pcs)

\* Thread t ends its round after it set, or reset, the events of a set.
BodySets(t, set) ==
  /\ at[t] = "body"
  /\ SetEvents(set, [at EXCEPT ![t] = "test"])

BodyResets(t, set) ==
  /\ trigger_flag' = [e \in Events |-> trigger_flag[e] /\ e \notin set]
  /\ Goes(t, "body", "test")

CondWait(t) ==
  /\ IF trigger_flag[EventOf[t]] THEN Goes(t, "test", "awake") ELSE Goes(t, "test", "asleep")
  /\ UNCHANGED <<basedevice_ID, mainVars, trigger_flag, talkVars>>

\* pthread_cond_wait may return for no reason.
Spurious(t) ==
  /\ Goes(t, "asleep", "test")
  /\ UNCHANGED <<basedevice_ID, mainVars, trigger_flag, talkVars>>

\* The flag a thread looks at before each round: after CondWait, or as the
\* condition of its loop.  The rounds of the record and the playback thread
\* touch none of the state here, so these two are at their next CondWait.
Continues(t) == IF t \in {"udp_recv", "monitor"} THEN isRecvStatus ELSE ~stop

Round(t) == IF t \in {"record", "playback"} THEN "test" ELSE "body"

Check(t, from) ==
  /\ IF Continues(t) THEN Goes(t, from, Round(t)) ELSE Goes(t, from, "ended")
  /\ UNCHANGED <<basedevice_ID, mainVars, trigger_flag, talkVars>>

\* MonitorStatusThreadFunc sleeps on the semaphore inside its loop.
MonitorCheck ==
  /\ IF isRecvStatus THEN Goes("monitor", "test", "asleep") ELSE Goes("monitor", "test", "ended")
  /\ UNCHANGED <<basedevice_ID, mainVars, trigger_flag, talkVars>>

\* Plausible mistake: a call the signal interrupted counts as a token.
SemWait_Interrupted == sem' = sem - 1

SemWait == sem > 0 /\ sem' = sem - 1

\* The token and the round that follows it are one step: no other thread takes
\* tokens, and the round looks at isGetStatus at its end, after 400 ms.
MonitorWait ==
  /\ SemWait
  /\ Goes("monitor", "asleep", "test")
  /\ UNCHANGED <<basedevice_ID, mainVars, trigger_flag,
                 isGetStatus, busy, channel_applied_flag>>

\* A round of a thread's body that touches none of the state here.
Idle(t) ==
  /\ Goes(t, "body", "test")
  /\ UNCHANGED <<basedevice_ID, mainVars, trigger_flag, talkVars>>

(***************************************************************************)
(* The two ways a talk at this gateway ends: the user lets go of the key   *)
(* (CD thread), or the timer thread sees the key released or the talk 55 s *)
(* old.  The timer looks at the key and the clock, the CD thread only acts *)
(* while the talk's event is set.                                          *)
(***************************************************************************)
EndTalk(t) ==
  /\ busy' = FALSE
  /\ channel_applied_flag' = FALSE
  /\ BodyResets(t, {"cd", "playback"})
  /\ UNCHANGED <<basedevice_ID, mainVars, sem, isGetStatus>>

KeyReleased == trigger_flag["cd"] /\ EndTalk("cd_poll")

TalkOver == EndTalk("timer")

(***************************************************************************)
(* The user presses the key: a master with a free channel begins the talk  *)
(* at once, a slave that plays nothing asks the master.                    *)
(***************************************************************************)
MayPress == IF basedevice_ID THEN ~busy ELSE ~trigger_flag["playback"]

MasterPressed ==
  /\ basedevice_ID /\ MayPress
  /\ busy' = TRUE
  /\ BodySets("cd_poll", {"cd", "playback"})
  /\ UNCHANGED <<basedevice_ID, mainVars, sem, isGetStatus, channel_applied_flag>>

SlavePressed ==
  /\ ~basedevice_ID /\ MayPress
  /\ connected /\ sem < MaxTokens
  /\ isGetStatus' = TRUE
  /\ sem' = sem + 1
  /\ Goes("cd_poll", "body", "test")
  /\ UNCHANGED <<basedevice_ID, mainVars, trigger_flag, busy, channel_applied_flag>>

(***************************************************************************)
(* A talk that begins or ends once socket and semaphore are gone.  A slave *)
(* that is pressed posts on the semaphore, which is a call through NULL    *)
(* then and ends the process.  Every other case sends, which puts socket   *)
(* -1 into an fd_set: undefined, so that the process may die of it or not. *)
(* With the process its threads end.                                       *)
(***************************************************************************)
ProcessDies ==
  /\ ~connected
  /\ \/ at["cd_poll"] = "body" /\ (trigger_flag["cd"] \/ MayPress)
     \/ at["timer"] = "body"
  /\ crashed' = TRUE
  /\ at' = [t \in Threads |-> "ended"]
  /\ UNCHANGED <<basedevice_ID, stop, isRecvStatus, step, connected, trigger_flag, talkVars>>

(***************************************************************************)
(* What the network brings.  Master: a slave applies while the channel is  *)
(* free, or releases it.                                                   *)
(***************************************************************************)
SlaveApplies ==
  /\ basedevice_ID /\ ~busy
  /\ busy' = TRUE
  /\ BodySets("udp_recv", {"mulcast", "playback"})
  /\ UNCHANGED <<basedevice_ID, mainVars, sem, isGetStatus, channel_applied_flag>>

SlaveReleases ==
  /\ basedevice_ID /\ busy
  /\ busy' = FALSE
  /\ BodyResets("udp_recv", {"mulcast", "playback"})
  /\ UNCHANGED <<basedevice_ID, mainVars, sem, isGetStatus, channel_applied_flag>>

(***************************************************************************)
(* Slave: the master's answer, or the local one when the monitor thread    *)
(* found none after 400 ms; a talk of another gateway begins or ends.      *)
(***************************************************************************)
Refused ==
  /\ ~basedevice_ID
  /\ isGetStatus' = FALSE
  /\ Goes("udp_recv", "body", "test")
  /\ UNCHANGED <<basedevice_ID, mainVars, trigger_flag, sem, busy, channel_applied_flag>>

Granted ==
  /\ ~basedevice_ID /\ ~busy
  /\ isGetStatus' = FALSE
  /\ channel_applied_flag' = TRUE
  /\ BodySets("udp_recv", {"cd", "playback"})
  /\ UNCHANGED <<basedevice_ID, mainVars, sem, busy>>

GrantedLocally ==
  /\ isGetStatus /\ ~busy /\ ~trigger_flag["mulcast"]
  /\ busy' = TRUE
  /\ channel_applied_flag' = TRUE
  /\ at["monitor"] = "asleep" /\ SemWait
  /\ SetEvents({"cd", "playback"}, [at EXCEPT !["monitor"] = "test"])
  /\ UNCHANGED <<basedevice_ID, mainVars, isGetStatus>>

RemoteBegins ==
  /\ ~basedevice_ID /\ ~busy /\ ~channel_applied_flag
  /\ BodySets("udp_recv", {"mulcast", "playback"})
  /\ UNCHANGED <<basedevice_ID, mainVars, talkVars>>

RemoteEnds ==
  /\ ~basedevice_ID
  /\ channel_applied_flag' = FALSE
  /\ \/ channel_applied_flag /\ Goes("udp_recv", "body", "test") /\ UNCHANGED trigger_flag
     \/ /\ ~channel_applied_flag /\ ~busy /\ trigger_flag["playback"]
        /\ BodyResets("udp_recv", {"mulcast", "playback"})
  /\ UNCHANGED <<basedevice_ID, mainVars, sem, isGetStatus, busy>>

\* MulcastPortPollThreadFunc after 60 s without a new talk.
RemoteTimeout ==
  /\ busy' = (busy /\ ~basedevice_ID)
  /\ BodyResets("rtp_poll", {"mulcast", "playback"})
  /\ UNCHANGED <<basedevice_ID, mainVars, sem, isGetStatus, channel_applied_flag>>

(***************************************************************************)
(* One step of Stop.  The tokens are posted by CSlave::DisConnect only.    *)
(***************************************************************************)
\* Plausible mistake: a detached thread is not waited for.
Joined_Detached(t) == t \in Threads

Joined(t) == at[t] = "ended"

\* Plausible mistake: the monitor thread is not woken.
PostMonitor_Forgotten == UNCHANGED sem

PostMonitor == sem' = IF basedevice_ID THEN sem ELSE sem + 1

Does(what) ==
  CASE what = "exit" -> stop' = TRUE /\ UNCHANGED <<isRecvStatus, connected, at, trigger_flag, sem>>
    [] what = "disconnect" ->
         isRecvStatus' = FALSE /\ UNCHANGED <<stop, connected, at, trigger_flag, sem>>
    [] what = "post" -> PostMonitor /\ UNCHANGED <<stop, isRecvStatus, connected, at, trigger_flag>>
    [] what = "close" ->
         connected' = FALSE /\ UNCHANGED <<stop, isRecvStatus, at, trigger_flag, sem>>
    [] what \in Events ->
         SetEvents({what}, at) /\ UNCHANGED <<stop, isRecvStatus, connected, sem>>
    [] OTHER -> UNCHANGED <<stop, isRecvStatus, connected, at, trigger_flag, sem>>

StopStep ==
  /\ ~Stopped /\ ~crashed
  /\ \A t \in Plan[step][1] : Joined(t)
  /\ Does(Plan[step][2])
  /\ step' = step + 1
  /\ UNCHANGED <<basedevice_ID, crashed, isGetStatus, busy, channel_applied_flag>>

RecordThread == CondWait("record") \/ Check("record", "awake")
PlaybackThread == CondWait("playback") \/ Check("playback", "awake")
TimePollThread == CondWait("timer") \/ Check("timer", "awake") \/ Idle("timer") \/ TalkOver
MulcastPortPollThread ==
  CondWait("rtp_poll") \/ Check("rtp_poll", "awake") \/ Idle("rtp_poll") \/ RemoteTimeout
CDPollThread ==
  Check("cd_poll", "test") \/ Idle("cd_poll") \/ MasterPressed \/ SlavePressed \/ KeyReleased
MasterRecvThread == SlaveApplies \/ SlaveReleases
SlaveRecvThread == Refused \/ Granted \/ RemoteBegins \/ RemoteEnds
RecvThread ==
  Check("udp_recv", "test") \/ Idle("udp_recv") \/ MasterRecvThread \/ SlaveRecvThread
MonitorStatusThread == MonitorCheck \/ MonitorWait \/ GrantedLocally

Next ==
  \/ StopStep
  \/ RecordThread \/ PlaybackThread \/ TimePollThread \/ MulcastPortPollThread
  \/ CDPollThread \/ RecvThread \/ MonitorStatusThread
  \/ ProcessDies
  \/ \E t \in Sleepers : Spurious(t)

Spec == Init /\ [][Next]_vars

(***************************************************************************)
(* Every thread runs; so does main once the signal came.  Nobody needs to  *)
(* press a key, send a message, wake a thread for no reason or die.        *)
(***************************************************************************)
FairSpec ==
  /\ Spec
  /\ WF_vars(step > 1 /\ StopStep)
  /\ WF_vars(RecordThread) /\ WF_vars(PlaybackThread)
  /\ WF_vars(TimePollThread) /\ WF_vars(MulcastPortPollThread)
  /\ WF_vars(CDPollThread) /\ WF_vars(RecvThread) /\ WF_vars(MonitorStatusThread)

-----------------------------------------------------------------------------
(***************************************************************************)
(* While an event is set none of its threads sleeps: nobody wakes the      *)
(* record thread a second time in a talk, and Stop wakes each thread once. *)
(***************************************************************************)
SetWakesAll == \A t \in Sleepers : trigger_flag[EventOf[t]] => at[t] # "asleep"

(***************************************************************************)
(* What the threads wait on goes after them: the socket and the semaphore  *)
(* after the receive and the monitor thread have ended, the events and     *)
(* mutexes after all threads have, none of which starts again meanwhile.   *)
(* (The CD and the timer thread send, and the CD thread posts, until they  *)
(* are joined, which is after the socket and the semaphore went: the       *)
(* process may die of it, see ProcessDies.)                                *)
(***************************************************************************)
FreedAfterWaiters ==
  /\ ~connected => at["udp_recv"] = "ended" /\ at["monitor"] = "ended"
  /\ Stopped => \A t \in Threads : at[t] = "ended"

(***************************************************************************)
(* Stop returns, whatever the gateway does when the signal comes, unless   *)
(* the process dies first.                                                 *)
(***************************************************************************)
StopReturns == step > 1 ~> Stopped \/ crashed

(***************************************************************************)
(* Stop returns when its first statement finds neither the timer nor the   *)
(* listening thread in the middle of a round, the only two that may reset  *)
(* an event which Stop has set: whatever is received meanwhile.  A press   *)
(* of the key, or the end of a talk, after DisConnect may end the process  *)
(* instead (ProcessDies).                                                  *)
(***************************************************************************)
NoLateReset == step = 2 /\ at["timer"] # "body" /\ at["rtp_poll"] # "body"

QuietStopReturns == NoLateReset ~> Stopped \/ crashed
=============================================================================
