--------------------------- MODULE ShutdownProofs ---------------------------
(***************************************************************************)
(* Proofs about module Shutdown: its types, and that the events are safe   *)
(* to wait for.  A thread changes its place in three ways only: it moves   *)
(* from one place to the next (Goes), it ends a round in which it set      *)
(* events, or somebody who set an event woke it.  The lemmas say what each *)
(* of them keeps; the theorems run over the actions.                       *)
(***************************************************************************)
EXTENDS Shutdown, TLAPS

Places == {"test", "asleep", "awake", "body", "ended"}

(***************************************************************************)
(* Every thread that a step of Stop behind the current one joined ended.   *)
(***************************************************************************)
JoinedEnded ==
  /\ step \in 1..(Len(Plan) + 1)
  /\ \A k \in 1..(step - 1) : \A t \in Plan[k][1] : at[t] = "ended"

\* What a step may do to the threads: none of those that ended goes on, and
\* a thread whose event is set afterwards does not fall asleep or stay so.
EndedStay == \A t \in Threads : at[t] = "ended" => at'[t] = "ended"

\* Only the fourth step of Stop closes the connection.
ClosedAt4 == ~connected => step > 4

Inv == TypeOK /\ SetWakesAll /\ JoinedEnded /\ ClosedAt4

-----------------------------------------------------------------------------
(***************************************************************************)
(* The threads of the sleepers' table.                                     *)
(***************************************************************************)
LEMMA Tables ==
  /\ Sleepers = {"record", "timer", "rtp_poll", "playback"}
  /\ \A t \in Sleepers : EventOf[t] \in Events /\ t \in Threads
  /\ Threads = {"record", "timer", "rtp_poll", "playback", "cd_poll", "udp_recv", "monitor"}
  BY DEF Sleepers, EventOf, Events, Threads, Pollers

(***************************************************************************)
(* A thread that moves, with the events as they were or some of them       *)
(* reset, keeps the invariants on places unless it falls asleep beside an  *)
(* event that is set.                                                      *)
(***************************************************************************)
LEMMA Moves ==
  ASSUME TypeOK, SetWakesAll, NEW t \in Threads,
         NEW from \in Places \ {"ended"}, NEW to \in Places, Goes(t, from, to),
         trigger_flag' \in [Events -> BOOLEAN],
         \A e \in Events : trigger_flag'[e] => trigger_flag[e],
         t \in Sleepers /\ to = "asleep" => ~trigger_flag'[EventOf[t]]
  PROVE  at' \in [Threads -> Places] /\ SetWakesAll' /\ EndedStay
<1>1. at \in [Threads -> Places]  BY DEF TypeOK, Places
<1>2. at' = [at EXCEPT ![t] = to] /\ at[t] = from  BY DEF Goes
<1>3. at' \in [Threads -> Places]  BY <1>1, <1>2
<1>4. EndedStay  BY <1>1, <1>2 DEF EndedStay, Places
<1>5. ASSUME NEW s \in Sleepers, trigger_flag'[EventOf[s]]
      PROVE  at'[s] # "asleep"
  BY <1>1, <1>2, <1>5, Tables DEF SetWakesAll
<1> QED  BY <1>3, <1>4, <1>5 DEF SetWakesAll

(***************************************************************************)
(* Who sets events keeps them too: the sleepers of those events wake up.   *)
(***************************************************************************)
LEMMA Sets ==
  ASSUME TypeOK, SetWakesAll, NEW set \in SUBSET Events,
         NEW pcs \in [Threads -> Places], SetEvents(set, pcs),
         \A t \in Threads : pcs[t] = at[t] \/ (at[t] # "ended" /\ pcs[t] = "test")
  PROVE  /\ at' \in [Threads -> Places]
         /\ trigger_flag' \in [Events -> BOOLEAN]
         /\ SetWakesAll' /\ EndedStay
<1>1. at \in [Threads -> Places] /\ trigger_flag \in [Events -> BOOLEAN]
  BY DEF TypeOK, Places
<1>2. at' = [t \in Threads |->
                IF t \in Sleepers /\ pcs[t] = "asleep" /\ EventOf[t] \in set THEN "test" ELSE pcs[t]]
  BY DEF SetEvents, WokenBy
<1>3. trigger_flag' = [e \in Events |-> trigger_flag[e] \/ e \in set]
  BY DEF SetEvents
<1>4. at' \in [Threads -> Places]  BY <1>2 DEF Places
<1>5. trigger_flag' \in [Events -> BOOLEAN]  BY <1>3
<1>6. EndedStay  BY <1>1, <1>2 DEF EndedStay
<1>7. ASSUME NEW s \in Sleepers, trigger_flag'[EventOf[s]]
      PROVE  at'[s] # "asleep"
  <2>1. EventOf[s] \in Events /\ s \in Threads  BY Tables
  <2>2. trigger_flag[EventOf[s]] \/ EventOf[s] \in set  BY <1>3, <1>7, <2>1
  <2>3. CASE EventOf[s] \in set  BY <1>2, <2>1, <2>3
  <2>4. CASE trigger_flag[EventOf[s]]  BY <1>2, <2>1, <2>4 DEF SetWakesAll
  <2> QED  BY <2>2, <2>3, <2>4
<1> QED  BY <1>4, <1>5, <1>6, <1>7 DEF SetWakesAll

LEMMA RoundSets ==
  ASSUME TypeOK, SetWakesAll, NEW t \in Threads, NEW set \in SUBSET Events, BodySets(t, set)
  PROVE  /\ at' \in [Threads -> Places]
         /\ trigger_flag' \in [Events -> BOOLEAN]
         /\ SetWakesAll' /\ EndedStay
<1> DEFINE pcs == [at EXCEPT ![t] = "test"]
<1>1. at \in [Threads -> Places] /\ at[t] = "body"  BY DEF TypeOK, Places, BodySets
<1>2. pcs \in [Threads -> Places]  BY <1>1 DEF Places
<1>3. \A s \in Threads : pcs[s] = at[s] \/ (at[s] # "ended" /\ pcs[s] = "test")  BY <1>1
<1>4. SetEvents(set, pcs)  BY DEF BodySets
<1> QED  BY <1>2, <1>3, <1>4, Sets

LEMMA RoundResets ==
  ASSUME TypeOK, SetWakesAll, NEW t \in Threads, NEW set \in SUBSET Events, BodyResets(t, set)
  PROVE  /\ at' \in [Threads -> Places]
         /\ trigger_flag' \in [Events -> BOOLEAN]
         /\ SetWakesAll' /\ EndedStay
<1>1. trigger_flag' = [e \in Events |-> trigger_flag[e] /\ e \notin set]  BY DEF BodyResets
<1>2. trigger_flag' \in [Events -> BOOLEAN]  BY <1>1
<1>3. \A e \in Events : trigger_flag'[e] => trigger_flag[e]  BY <1>1
<1>4. Goes(t, "body", "test")  BY DEF BodyResets
<1> QED  BY <1>2, <1>3, <1>4, Moves DEF Places

-----------------------------------------------------------------------------
(***************************************************************************)
(* One round, or part of a round, of any thread but main.                  *)
(***************************************************************************)
ThreadStep ==
  \/ RecordThread \/ PlaybackThread \/ TimePollThread \/ MulcastPortPollThread
  \/ CDPollThread \/ RecvThread \/ MonitorStatusThread
  \/ \E t \in Sleepers : Spurious(t)

Kept == TypeOK' /\ SetWakesAll' /\ EndedStay /\ step' = step

\* CondWait falls asleep only while its event is not set.
LEMMA CondWaitKeeps ==
  ASSUME TypeOK, SetWakesAll, NEW t \in Sleepers, CondWait(t)
  PROVE  Kept
<1>1. t \in Threads /\ EventOf[t] \in Events  BY Tables
<1>2. trigger_flag' = trigger_flag /\ trigger_flag' \in [Events -> BOOLEAN]
  BY DEF CondWait, TypeOK
<1>3. CASE trigger_flag[EventOf[t]]
  <2>1. Goes(t, "test", "awake")  BY <1>3 DEF CondWait
  <2>2. at' \in [Threads -> Places] /\ SetWakesAll' /\ EndedStay
    BY <1>1, <1>2, <2>1, Moves DEF Places
  <2> QED  BY <2>2 DEF Kept, TypeOK, CondWait, mainVars, talkVars, Places
<1>4. CASE ~trigger_flag[EventOf[t]]
  <2>1. Goes(t, "test", "asleep")  BY <1>4 DEF CondWait
  <2>2. at' \in [Threads -> Places] /\ SetWakesAll' /\ EndedStay
    BY <1>1, <1>2, <1>4, <2>1, Moves DEF Places
  <2> QED  BY <2>2 DEF Kept, TypeOK, CondWait, mainVars, talkVars, Places
<1> QED  BY <1>3, <1>4

\* The steps that leave the events and the variables of the talk alone.
LEMMA PlainKeeps ==
  ASSUME TypeOK, SetWakesAll, NEW t \in Threads,
         NEW from \in Places \ {"ended"}, NEW to \in Places, Goes(t, from, to),
         t \in Sleepers => to # "asleep",
         UNCHANGED <<basedevice_ID, mainVars, trigger_flag, talkVars>>
  PROVE  Kept
<1>1. trigger_flag' \in [Events -> BOOLEAN]  BY DEF TypeOK
<1>2. at' \in [Threads -> Places] /\ SetWakesAll' /\ EndedStay  BY <1>1, Moves
<1> QED  BY <1>2 DEF Kept, TypeOK, mainVars, talkVars, Places

LEMMA CheckKeeps ==
  ASSUME TypeOK, SetWakesAll, NEW t \in Threads, NEW from \in {"test", "awake"}, Check(t, from)
  PROVE  Kept
<1>1. Round(t) \in Places \ {"asleep"}  BY DEF Round, Places
<1>2. UNCHANGED <<basedevice_ID, mainVars, trigger_flag, talkVars>>  BY DEF Check
<1>3. PICK to \in Places \ {"asleep"} : Goes(t, from, to)
  <2>1. CASE Continues(t)  BY <1>1, <2>1 DEF Check
  <2>2. CASE ~Continues(t)  BY <2>2 DEF Check, Places
  <2> QED  BY <2>1, <2>2
<1> QED  BY <1>2, <1>3, PlainKeeps DEF Places

LEMMA IdleKeeps ==
  ASSUME TypeOK, SetWakesAll, NEW t \in Threads, Idle(t)
  PROVE  Kept
<1>1. Goes(t, "body", "test") /\ UNCHANGED <<basedevice_ID, mainVars, trigger_flag, talkVars>>
  BY DEF Idle
<1> QED  BY <1>1, PlainKeeps DEF Places

LEMMA TalkEnds ==
  ASSUME TypeOK, SetWakesAll, NEW t \in Threads, EndTalk(t)
  PROVE  Kept
<1>1. BodyResets(t, {"cd", "playback"})  BY DEF EndTalk
<1>2. {"cd", "playback"} \in SUBSET Events  BY DEF Events
<1>3. at' \in [Threads -> Places] /\ trigger_flag' \in [Events -> BOOLEAN] /\ SetWakesAll' /\ EndedStay
  BY <1>1, <1>2, RoundResets
<1> QED  BY <1>3 DEF Kept, TypeOK, EndTalk, mainVars, Places

LEMMA CDKeeps ==
  ASSUME TypeOK, SetWakesAll, CDPollThread
  PROVE  Kept
<1> USE Tables
<1>1. CASE Check("cd_poll", "test")  BY <1>1, CheckKeeps
<1>2. CASE Idle("cd_poll")  BY <1>2, IdleKeeps
<1>3. CASE MasterPressed
  <2>1. BodySets("cd_poll", {"cd", "playback"})  BY <1>3 DEF MasterPressed
  <2>2. {"cd", "playback"} \in SUBSET Events  BY DEF Events
  <2>3. at' \in [Threads -> Places] /\ trigger_flag' \in [Events -> BOOLEAN] /\ SetWakesAll' /\ EndedStay
    BY <2>1, <2>2, RoundSets
  <2> QED  BY <1>3, <2>3 DEF Kept, TypeOK, MasterPressed, mainVars, Places
<1>4. CASE SlavePressed
  <2>1. Goes("cd_poll", "body", "test") /\ UNCHANGED trigger_flag  BY <1>4 DEF SlavePressed
  <2>2. trigger_flag' \in [Events -> BOOLEAN]  BY <2>1 DEF TypeOK
  <2>3. at' \in [Threads -> Places] /\ SetWakesAll' /\ EndedStay
    BY <2>1, <2>2, Moves DEF Places
  <2>4. sem' \in Nat  BY <1>4 DEF SlavePressed, TypeOK
  <2> QED  BY <1>4, <2>2, <2>3, <2>4 DEF Kept, TypeOK, SlavePressed, mainVars, Places
<1>5. CASE KeyReleased  BY <1>5, TalkEnds DEF KeyReleased
<1> QED  BY <1>1, <1>2, <1>3, <1>4, <1>5 DEF CDPollThread

LEMMA RecvKeeps ==
  ASSUME TypeOK, SetWakesAll, RecvThread
  PROVE  Kept
<1> USE Tables
<1>0. {"mulcast", "playback"} \in SUBSET Events /\ {"cd", "playback"} \in SUBSET Events
  BY DEF Events
<1>1. CASE Check("udp_recv", "test")  BY <1>1, CheckKeeps
<1>2. CASE Idle("udp_recv")  BY <1>2, IdleKeeps
<1>3. CASE SlaveApplies
  <2>1. at' \in [Threads -> Places] /\ trigger_flag' \in [Events -> BOOLEAN] /\ SetWakesAll' /\ EndedStay
    BY <1>0, <1>3, RoundSets DEF SlaveApplies
  <2> QED  BY <1>3, <2>1 DEF Kept, TypeOK, SlaveApplies, mainVars, Places
<1>4. CASE SlaveReleases
  <2>1. at' \in [Threads -> Places] /\ trigger_flag' \in [Events -> BOOLEAN] /\ SetWakesAll' /\ EndedStay
    BY <1>0, <1>4, RoundResets DEF SlaveReleases
  <2> QED  BY <1>4, <2>1 DEF Kept, TypeOK, SlaveReleases, mainVars, Places
<1>5. CASE Refused
  <2>1. Goes("udp_recv", "body", "test") /\ UNCHANGED trigger_flag  BY <1>5 DEF Refused
  <2>2. trigger_flag' \in [Events -> BOOLEAN]  BY <2>1 DEF TypeOK
  <2>3. at' \in [Threads -> Places] /\ SetWakesAll' /\ EndedStay
    BY <2>1, <2>2, Moves DEF Places
  <2> QED  BY <1>5, <2>2, <2>3 DEF Kept, TypeOK, Refused, mainVars, Places
<1>6. CASE Granted
  <2>1. at' \in [Threads -> Places] /\ trigger_flag' \in [Events -> BOOLEAN] /\ SetWakesAll' /\ EndedStay
    BY <1>0, <1>6, RoundSets DEF Granted
  <2> QED  BY <1>6, <2>1 DEF Kept, TypeOK, Granted, mainVars, Places
<1>7. CASE RemoteBegins
  <2>1. at' \in [Threads -> Places] /\ trigger_flag' \in [Events -> BOOLEAN] /\ SetWakesAll' /\ EndedStay
    BY <1>0, <1>7, RoundSets DEF RemoteBegins
  <2> QED  BY <1>7, <2>1 DEF Kept, TypeOK, RemoteBegins, mainVars, talkVars, Places
<1>8. CASE RemoteEnds
  <2>1. CASE Goes("udp_recv", "body", "test") /\ UNCHANGED trigger_flag
    <3>1. trigger_flag' \in [Events -> BOOLEAN]  BY <2>1 DEF TypeOK
    <3>2. at' \in [Threads -> Places] /\ SetWakesAll' /\ EndedStay
      BY <2>1, <3>1, Moves DEF Places
    <3> QED  BY <1>8, <3>1, <3>2 DEF Kept, TypeOK, RemoteEnds, mainVars, Places
  <2>2. CASE BodyResets("udp_recv", {"mulcast", "playback"})
    <3>1. at' \in [Threads -> Places] /\ trigger_flag' \in [Events -> BOOLEAN] /\ SetWakesAll' /\ EndedStay
      BY <1>0, <2>2, RoundResets
    <3> QED  BY <1>8, <3>1 DEF Kept, TypeOK, RemoteEnds, mainVars, Places
  <2> QED  BY <1>8, <2>1, <2>2 DEF RemoteEnds
<1> QED
  BY <1>1, <1>2, <1>3, <1>4, <1>5, <1>6, <1>7, <1>8 DEF RecvThread, MasterRecvThread, SlaveRecvThread

LEMMA MonitorKeeps ==
  ASSUME TypeOK, SetWakesAll, MonitorStatusThread
  PROVE  Kept
<1> USE Tables
<1>1. CASE MonitorCheck
  <2>1. UNCHANGED <<basedevice_ID, mainVars, trigger_flag, talkVars>>  BY <1>1 DEF MonitorCheck
  <2>2. Goes("monitor", "test", "asleep") \/ Goes("monitor", "test", "ended")
    BY <1>1 DEF MonitorCheck
  <2>3. "monitor" \notin Sleepers  OBVIOUS
  <2> QED  BY <2>1, <2>2, <2>3, PlainKeeps DEF Places
<1>2. CASE MonitorWait
  <2>1. Goes("monitor", "asleep", "test") /\ UNCHANGED trigger_flag  BY <1>2 DEF MonitorWait
  <2>2. trigger_flag' \in [Events -> BOOLEAN]  BY <2>1 DEF TypeOK
  <2>3. at' \in [Threads -> Places] /\ SetWakesAll' /\ EndedStay
    BY <2>1, <2>2, Moves DEF Places
  <2>4. sem' \in Nat  BY <1>2 DEF MonitorWait, SemWait, TypeOK
  <2> QED  BY <1>2, <2>2, <2>3, <2>4 DEF Kept, TypeOK, MonitorWait, mainVars, Places
<1>3. CASE GrantedLocally
  <2> DEFINE pcs == [at EXCEPT !["monitor"] = "test"]
  <2>1. {"cd", "playback"} \in SUBSET Events  BY DEF Events
  <2>2. at \in [Threads -> Places] /\ at["monitor"] = "asleep"  BY <1>3 DEF TypeOK, Places, GrantedLocally
  <2>3. pcs \in [Threads -> Places]  BY <2>2 DEF Places
  <2>4. \A s \in Threads : pcs[s] = at[s] \/ (at[s] # "ended" /\ pcs[s] = "test")  BY <2>2
  <2>5. SetEvents({"cd", "playback"}, pcs)  BY <1>3 DEF GrantedLocally
  <2>6. at' \in [Threads -> Places] /\ trigger_flag' \in [Events -> BOOLEAN] /\ SetWakesAll' /\ EndedStay
    BY <2>1, <2>3, <2>4, <2>5, Sets
  <2>7. sem' \in Nat  BY <1>3 DEF GrantedLocally, SemWait, TypeOK
  <2> QED  BY <1>3, <2>6, <2>7 DEF Kept, TypeOK, GrantedLocally, mainVars, Places
<1> QED  BY <1>1, <1>2, <1>3 DEF MonitorStatusThread

LEMMA ThreadKeeps ==
  ASSUME TypeOK, SetWakesAll, ThreadStep
  PROVE  Kept
<1> USE Tables
<1>1. CASE RecordThread  BY <1>1, CondWaitKeeps, CheckKeeps DEF RecordThread
<1>2. CASE PlaybackThread  BY <1>2, CondWaitKeeps, CheckKeeps DEF PlaybackThread
<1>3. CASE TimePollThread
  BY <1>3, CondWaitKeeps, CheckKeeps, IdleKeeps, TalkEnds DEF TimePollThread, TalkOver
<1>4. CASE MulcastPortPollThread
  <2>1. CASE RemoteTimeout
    <3>1. {"mulcast", "playback"} \in SUBSET Events  BY DEF Events
    <3>2. at' \in [Threads -> Places] /\ trigger_flag' \in [Events -> BOOLEAN] /\ SetWakesAll' /\ EndedStay
      BY <2>1, <3>1, RoundResets DEF RemoteTimeout
    <3> QED  BY <2>1, <3>2 DEF Kept, TypeOK, RemoteTimeout, mainVars, Places
  <2> QED  BY <1>4, <2>1, CondWaitKeeps, CheckKeeps, IdleKeeps DEF MulcastPortPollThread
<1>5. CASE CDPollThread  BY <1>5, CDKeeps
<1>6. CASE RecvThread  BY <1>6, RecvKeeps
<1>7. CASE MonitorStatusThread  BY <1>7, MonitorKeeps
<1>8. ASSUME NEW t \in Sleepers, Spurious(t)
      PROVE  Kept
  <2>1. t \in Threads  OBVIOUS
  <2>2. Goes(t, "asleep", "test") /\ UNCHANGED <<basedevice_ID, mainVars, trigger_flag, talkVars>>
    BY <1>8 DEF Spurious
  <2> QED  BY <2>1, <2>2, PlainKeeps DEF Places
<1> QED  BY <1>1, <1>2, <1>3, <1>4, <1>5, <1>6, <1>7, <1>8 DEF ThreadStep

-----------------------------------------------------------------------------
(***************************************************************************)
(* With the process all its threads end.                                   *)
(***************************************************************************)
LEMMA DeathKeeps ==
  ASSUME TypeOK, SetWakesAll, ProcessDies
  PROVE  /\ Kept /\ \A t \in Threads : at'[t] = "ended"
         /\ UNCHANGED <<basedevice_ID, stop, isRecvStatus, connected, trigger_flag, sem>>
<1>1. at' \in [Threads -> Places] /\ \A t \in Threads : at'[t] = "ended"
  BY DEF ProcessDies, Places
<1>2. SetWakesAll' /\ EndedStay  BY <1>1, Tables DEF SetWakesAll, EndedStay
<1>3. TypeOK' /\ step' = step  BY <1>1 DEF ProcessDies, TypeOK, talkVars, Places
<1> QED  BY <1>1, <1>2, <1>3 DEF Kept, ProcessDies, talkVars

-----------------------------------------------------------------------------
(***************************************************************************)
(* The steps of Stop.                                                      *)
(***************************************************************************)
Kinds == {"exit", "disconnect", "post", "close", "delete"} \cup Events

\* A step of Stop joins threads and does one of these things.
Sound(what) == what[1] \subseteq Threads /\ what[2] \in Kinds

LEMMA PlanTable ==
  /\ Len(Plan) = 8
  /\ \A k \in 1..8 : Sound(Plan[k])
  /\ \A t \in Threads : \E k \in 1..8 : t \in Plan[k][1]
  /\ Plan[3][1] = {"udp_recv"} /\ Plan[4][1] = {"monitor"}
  /\ \A k \in 1..8 : Plan[k][2] = "close" => k = 4
<1>1. Len(Plan) = 8  BY DEF Plan
<1>2. ASSUME NEW k \in 1..8
      PROVE  Sound(Plan[k])
  <2>1. k = 1 \/ k = 2 \/ k = 3 \/ k = 4 \/ k = 5 \/ k = 6 \/ k = 7 \/ k = 8
    OBVIOUS
  <2> QED  BY <2>1, Tables DEF Plan, Sound, Kinds, Events
<1>3. ASSUME NEW t \in Threads
      PROVE  \E k \in 1..8 : t \in Plan[k][1]
  <2>1. /\ Plan[3][1] = {"udp_recv"}  /\ Plan[4][1] = {"monitor"}
        /\ Plan[5][1] = {"cd_poll"}   /\ Plan[6][1] = {"record", "timer"}
        /\ Plan[7][1] = {"playback"}  /\ Plan[8][1] = {"rtp_poll"}
    BY DEF Plan
  <2>2. 3 \in 1..8 /\ 4 \in 1..8 /\ 5 \in 1..8 /\ 6 \in 1..8 /\ 7 \in 1..8 /\ 8 \in 1..8
    OBVIOUS
  <2> QED  BY <2>1, <2>2, Tables
<1>4. Plan[3][1] = {"udp_recv"} /\ Plan[4][1] = {"monitor"}
  BY DEF Plan
<1>5. ASSUME NEW k \in 1..8, Plan[k][2] = "close"
      PROVE  k = 4
  <2>1. k = 1 \/ k = 2 \/ k = 3 \/ k = 4 \/ k = 5 \/ k = 6 \/ k = 7 \/ k = 8
    OBVIOUS
  <2> QED  BY <1>5, <2>1 DEF Plan
<1> QED  BY <1>1, <1>2, <1>3, <1>4, <1>5

LEMMA StopKeeps ==
  ASSUME Inv, StopStep
  PROVE  TypeOK' /\ SetWakesAll' /\ EndedStay /\ JoinedEnded' /\ ClosedAt4'
<1> DEFINE what == Plan[step][2]
<1>1. step \in 1..8 /\ step' = step + 1  BY PlanTable DEF Inv, JoinedEnded, StopStep, Stopped
<1>2. what \in Kinds /\ Does(what)  BY <1>1, PlanTable DEF StopStep, Sound
<1>3. UNCHANGED <<basedevice_ID, isGetStatus, busy, channel_applied_flag>>  BY DEF StopStep
<1> HIDE DEF what
<1>4. /\ at' \in [Threads -> Places] /\ trigger_flag' \in [Events -> BOOLEAN]
      /\ SetWakesAll' /\ EndedStay
  <2>1. CASE what \in Events
    <3>1. SetEvents({what}, at)  BY <1>2, <2>1 DEF Does, Events
    <3>2. {what} \in SUBSET Events  BY <2>1
    <3>3. at \in [Threads -> Places]  BY DEF Inv, TypeOK, Places
    <3> QED  BY <3>1, <3>2, <3>3, Sets DEF Inv
  <2>2. CASE what \notin Events
    <3>1. at' = at /\ trigger_flag' = trigger_flag  BY <1>2, <2>2 DEF Does, Kinds
    <3> QED  BY <3>1 DEF Inv, TypeOK, SetWakesAll, EndedStay, Places
  <2> QED  BY <2>1, <2>2
<1>5. sem' \in Nat
  <2>1. sem \in Nat  BY DEF Inv, TypeOK
  <2>2. sem' = sem \/ sem' = sem + 1  BY <1>2 DEF Does, PostMonitor, Kinds
  <2> QED  BY <2>1, <2>2
<1>6. /\ stop' \in BOOLEAN /\ isRecvStatus' \in BOOLEAN /\ connected' \in BOOLEAN
      /\ crashed' \in BOOLEAN
  <2>1. stop \in BOOLEAN /\ isRecvStatus \in BOOLEAN /\ connected \in BOOLEAN
    BY DEF Inv, TypeOK
  <2>2. crashed' = crashed /\ crashed \in BOOLEAN  BY DEF StopStep, Inv, TypeOK
  <2> QED  BY <1>2, <2>1, <2>2 DEF Does, Kinds, Events
<1>7. TypeOK'  BY <1>1, <1>3, <1>4, <1>5, <1>6 DEF Inv, TypeOK, Places
<1>8. JoinedEnded'
  <2>1. step' \in 1..(Len(Plan) + 1)  BY <1>1, PlanTable
  <2>2. ASSUME NEW k \in 1..step, NEW t \in Plan[k][1]
        PROVE  at'[t] = "ended"
    <3>1. k \in 1..8 /\ t \in Threads  BY <1>1, PlanTable DEF Sound
    <3>2. CASE k = step  BY <1>4, <3>1, <3>2 DEF StopStep, Joined, EndedStay
    <3>3. CASE k \in 1..(step - 1)  BY <1>4, <3>1, <3>3 DEF Inv, JoinedEnded, EndedStay
    <3> QED  BY <1>1, <3>2, <3>3
  <2>3. step' - 1 = step  BY <1>1
  <2> QED  BY <2>1, <2>2, <2>3 DEF JoinedEnded
<1>9. ClosedAt4'
  <2>1. connected' = connected \/ what = "close"  BY <1>2 DEF Does, Kinds, Events
  <2>2. what = "close" => step = 4  BY <1>1, PlanTable DEF what
  <2> QED  BY <1>1, <2>1, <2>2 DEF Inv, ClosedAt4
<1> QED  BY <1>4, <1>7, <1>8, <1>9

-----------------------------------------------------------------------------
LEMMA InvInit ==
  ASSUME Init
  PROVE  Inv
<1>1. TypeOK  BY Tables DEF Init, TypeOK
<1>2. SetWakesAll  BY Tables DEF Init, SetWakesAll
<1>3. JoinedEnded  BY PlanTable DEF Init, JoinedEnded
<1>4. ClosedAt4  BY DEF Init, ClosedAt4
<1> QED  BY <1>1, <1>2, <1>3, <1>4 DEF Inv

LEMMA InvNext ==
  ASSUME Inv, [Next]_vars
  PROVE  Inv'
<1>1. CASE StopStep  BY <1>1, StopKeeps DEF Inv
<1>2. CASE ThreadStep
  <2>1. Kept  BY <1>2, ThreadKeeps DEF Inv
  <2>2. ASSUME NEW k \in 1..(step - 1), NEW t \in Plan[k][1]
        PROVE  at'[t] = "ended"
    <3>1. k \in 1..8  BY PlanTable DEF Inv, JoinedEnded
    <3>2. t \in Threads  BY <3>1, PlanTable DEF Sound
    <3> QED  BY <2>1, <3>2 DEF Inv, JoinedEnded, Kept, EndedStay
  <2>3. JoinedEnded'  BY <2>1, <2>2 DEF Kept, Inv, JoinedEnded
  <2>4. UNCHANGED mainVars
    BY <1>2 DEF ThreadStep, RecordThread, PlaybackThread, TimePollThread, MulcastPortPollThread,
                CDPollThread, RecvThread, MasterRecvThread, SlaveRecvThread, MonitorStatusThread,
                CondWait, Check, Idle, Spurious, EndTalk, KeyReleased, TalkOver, RemoteTimeout,
                MasterPressed, SlavePressed, SlaveApplies, SlaveReleases, Refused, Granted,
                RemoteBegins, RemoteEnds, MonitorCheck, MonitorWait, GrantedLocally
  <2>5. ClosedAt4'  BY <2>4 DEF Inv, ClosedAt4, mainVars
  <2> QED  BY <2>1, <2>3, <2>5 DEF Kept, Inv
<1>3. CASE ProcessDies
  <2>1. Kept /\ UNCHANGED connected /\ \A t \in Threads : at'[t] = "ended"
    BY <1>3, DeathKeeps DEF Inv
  <2>2. ASSUME NEW k \in 1..(step - 1), NEW t \in Plan[k][1]
        PROVE  at'[t] = "ended"
    <3>1. k \in 1..8  BY PlanTable DEF Inv, JoinedEnded
    <3> QED  BY <2>1, <3>1, PlanTable DEF Sound
  <2> QED  BY <2>1, <2>2 DEF Kept, Inv, JoinedEnded, ClosedAt4
<1>4. CASE UNCHANGED vars
  BY <1>4 DEF Inv, vars, mainVars, talkVars, TypeOK, SetWakesAll, JoinedEnded, ClosedAt4
<1> QED  BY <1>1, <1>2, <1>3, <1>4 DEF Next, ThreadStep

LEMMA InvHolds == Spec => []Inv
BY InvInit, InvNext, PTL DEF Spec

(***************************************************************************)
(* Type correctness of the gateway's threads, events and flags.            *)
(***************************************************************************)
THEOREM ShutdownTypes == Spec => []TypeOK
<1>1. Inv => TypeOK  BY DEF Inv
<1> QED  BY <1>1, InvHolds, PTL

(***************************************************************************)
(* No thread sleeps on an event that is set (CondTrigger's broadcast, and  *)
(* CondWait's test under the lock).                                        *)
(***************************************************************************)
THEOREM EventWakes == Spec => []SetWakesAll
<1>1. Inv => SetWakesAll  BY DEF Inv
<1> QED  BY <1>1, InvHolds, PTL

(***************************************************************************)
(* CSlave::DisConnect frees socket and semaphore when the two threads that *)
(* wait on them have ended, and MyRepeater::Stop the events when all have: *)
(* each is joined before, and none that ended starts again.                *)
(***************************************************************************)
THEOREM DeletedLast == Spec => []FreedAfterWaiters
<1>1. ASSUME Inv, ~connected PROVE at["udp_recv"] = "ended" /\ at["monitor"] = "ended"
  <2>1. 3 \in 1..(step - 1) /\ 4 \in 1..(step - 1)
    BY <1>1 DEF Inv, ClosedAt4, JoinedEnded
  <2> QED  BY <1>1, <2>1, PlanTable DEF Inv, JoinedEnded
<1>2. ASSUME Inv, Stopped, NEW t \in Threads PROVE at[t] = "ended"
  <2>1. PICK k \in 1..8 : t \in Plan[k][1]  BY PlanTable
  <2>2. step = 9  BY <1>2, PlanTable DEF Stopped, Inv, JoinedEnded
  <2>3. k \in 1..(step - 1)  BY <2>1, <2>2
  <2> QED  BY <1>2, <2>1, <2>3 DEF Inv, JoinedEnded
<1>3. Inv => FreedAfterWaiters  BY <1>1, <1>2 DEF FreedAfterWaiters
<1> QED  BY <1>3, InvHolds, PTL

-----------------------------------------------------------------------------
(***************************************************************************)
(* Whom Stop waits for.  A thread it joins may sleep only if something is  *)
(* left to wake it: the token of the monitor thread, which nobody else     *)
(* takes.  An event is set once, before the join, and is no help to a      *)
(* thread that sleeps when it has been reset since.                        *)
(***************************************************************************)
JoinedAwake ==
  ~Stopped => \A t \in Plan[step][1] : at[t] = "asleep" => t = "monitor" /\ sem > 0

\* The signal has been seen, and the threads without an event end by themselves.
Leaving ==
  /\ step > 1 => stop
  /\ step > 2 => ~isRecvStatus
  /\ basedevice_ID => at["monitor"] = "ended"
  /\ step > 3 /\ at["monitor"] = "asleep" => sem > 0
  /\ at["cd_poll"] # "asleep" /\ at["udp_recv"] # "asleep"

\* No thread is left that would reset an event after Stop has set it.
Quiet ==
  /\ stop /\ at["timer"] # "body" /\ at["rtp_poll"] # "body"
  /\ step > 5 => trigger_flag["cd"]
  /\ step > 6 => trigger_flag["playback"]
  /\ step > 7 => trigger_flag["mulcast"]

LEMMA PlanInOrder ==
  /\ Plan[1] = <<{}, "exit">> /\ Plan[2] = <<{}, "disconnect">>
  /\ Plan[3] = <<{"udp_recv"}, "post">> /\ Plan[4] = <<{"monitor"}, "close">>
  /\ Plan[5] = <<{"cd_poll"}, "cd">> /\ Plan[6] = <<{"record", "timer"}, "playback">>
  /\ Plan[7] = <<{"playback"}, "mulcast">> /\ Plan[8] = <<{"rtp_poll"}, "delete">>
BY DEF Plan

\* A step of Stop, by its number.
LEMMA StopIs ==
  ASSUME Inv, StopStep
  PROVE  /\ step \in 1..8 /\ step' = step + 1
         /\ step = 1 => stop' /\ UNCHANGED <<isRecvStatus, at, trigger_flag, sem>>
         /\ step = 2 => ~isRecvStatus' /\ UNCHANGED <<stop, at, trigger_flag, sem>>
         /\ step = 3 => PostMonitor /\ UNCHANGED <<stop, isRecvStatus, at, trigger_flag>>
         /\ step \in {4, 8} => UNCHANGED <<stop, isRecvStatus, at, trigger_flag, sem>>
         /\ step = 5 => SetEvents({"cd"}, at) /\ UNCHANGED <<stop, isRecvStatus, sem>>
         /\ step = 6 => SetEvents({"playback"}, at) /\ UNCHANGED <<stop, isRecvStatus, sem>>
         /\ step = 7 => SetEvents({"mulcast"}, at) /\ UNCHANGED <<stop, isRecvStatus, sem>>
<1>1. step \in 1..8 /\ step' = step + 1 /\ Does(Plan[step][2])
  BY PlanTable DEF Inv, JoinedEnded, StopStep, Stopped
<1>2. step = 1 => stop' /\ UNCHANGED <<isRecvStatus, at, trigger_flag, sem>>
  BY <1>1, PlanInOrder DEF Does, Events
<1>3. step = 2 => ~isRecvStatus' /\ UNCHANGED <<stop, at, trigger_flag, sem>>
  BY <1>1, PlanInOrder DEF Does, Events
<1>4. step = 3 => PostMonitor /\ UNCHANGED <<stop, isRecvStatus, at, trigger_flag>>
  BY <1>1, PlanInOrder DEF Does, Events
<1>5. step \in {4, 8} => UNCHANGED <<stop, isRecvStatus, at, trigger_flag, sem>>
  BY <1>1, PlanInOrder DEF Does, Events
<1>6. step = 5 => SetEvents({"cd"}, at) /\ UNCHANGED <<stop, isRecvStatus, sem>>
  BY <1>1, PlanInOrder DEF Does, Events
<1>7. step = 6 => SetEvents({"playback"}, at) /\ UNCHANGED <<stop, isRecvStatus, sem>>
  BY <1>1, PlanInOrder DEF Does, Events
<1>8. step = 7 => SetEvents({"mulcast"}, at) /\ UNCHANGED <<stop, isRecvStatus, sem>>
  BY <1>1, PlanInOrder DEF Does, Events
<1> QED
  BY <1>1, <1>2, <1>3, <1>4, <1>5, <1>6, <1>7, <1>8

\* Setting events puts nobody to sleep and nobody into a round.
LEMMA SetsMove ==
  ASSUME NEW set, NEW pcs, SetEvents(set, pcs), NEW t \in Threads
  PROVE  at'[t] = pcs[t] \/ at'[t] = "test"
BY DEF SetEvents, WokenBy

\* The events Stop sets, by its step, and that it resets none.
LEMMA StopSets ==
  ASSUME Inv, StopStep
  PROVE  /\ \A t \in Threads : at'[t] = at[t] \/ at'[t] = "test"
         /\ \A e \in Events : trigger_flag[e] => trigger_flag'[e]
         /\ step = 5 => trigger_flag'["cd"]
         /\ step = 6 => trigger_flag'["playback"]
         /\ step = 7 => trigger_flag'["mulcast"]
<1>1. CASE step \in 5..7
  <2>1. PICK e \in Events : /\ SetEvents({e}, at)
                            /\ step = 5 => e = "cd"
                            /\ step = 6 => e = "playback"
                            /\ step = 7 => e = "mulcast"
    BY <1>1, StopIs DEF Events
  <2>2. trigger_flag' = [d \in Events |-> trigger_flag[d] \/ d \in {e}]
    BY <2>1 DEF SetEvents
  <2>3. trigger_flag'[e] /\ \A d \in Events : trigger_flag[d] => trigger_flag'[d]
    BY <2>2
  <2> QED
    BY <1>1, <2>1, <2>3, SetsMove
<1>2. CASE step \notin 5..7
  <2>1. UNCHANGED <<at, trigger_flag>>
    BY <1>2, StopIs
  <2> QED
    BY <1>2, <2>1
<1> QED
  BY <1>1, <1>2

LEMMA LeavingInit == Init => Leaving
BY Tables DEF Init, Leaving

LEMMA LeavingStops ==
  ASSUME Inv, Leaving, StopStep
  PROVE  Leaving'
<1> USE Tables
<1>1. /\ \A t \in Threads : at'[t] = at[t] \/ at'[t] = "test"
      /\ UNCHANGED basedevice_ID /\ EndedStay
  BY StopSets, StopKeeps DEF StopStep
<1>2. step > 3 => sem' = sem
  BY StopIs
<1>3. step = 3 /\ ~basedevice_ID => sem' > 0
  BY StopIs DEF PostMonitor, Inv, TypeOK
<1> QED
  BY <1>1, <1>2, <1>3, StopIs DEF Leaving, EndedStay

(***************************************************************************)
(* What the step of a thread may do to any thread t, to the events and to  *)
(* the tokens.                                                             *)
(***************************************************************************)
Lands(t) ==
  \/ at'[t] = at[t]
  \/ at'[t] \in {"test", "awake", "ended"}
  \/ at'[t] = "asleep" /\ (t \in Sleepers \/ (t = "monitor" /\ isRecvStatus))
  \/ at'[t] = "body" /\ Continues(t)

Resetters == {"cd_poll", "udp_recv", "timer", "rtp_poll"}

Mild ==
  /\ \A t \in Threads : Lands(t)
  /\ \/ \E t \in Resetters : at[t] = "body"
     \/ \A e \in Events : trigger_flag[e] => trigger_flag'[e]
  /\ sem' >= sem \/ at'["monitor"] # "asleep"

LEMMA MildGoes ==
  ASSUME TypeOK, NEW u \in Threads, NEW from, NEW to, Goes(u, from, to),
         \/ to \in {"test", "awake", "ended"}
         \/ to = "asleep" /\ (u \in Sleepers \/ (u = "monitor" /\ isRecvStatus))
         \/ to = "body" /\ Continues(u)
  PROVE  \A t \in Threads : Lands(t)
BY DEF TypeOK, Goes, Lands

LEMMA MildSets ==
  ASSUME TypeOK, NEW u \in Threads, NEW set, SetEvents(set, [at EXCEPT ![u] = "test"])
  PROVE  /\ \A t \in Threads : Lands(t)
         /\ \A e \in Events : trigger_flag[e] => trigger_flag'[e]
<1>1. \A t \in Threads : at'[t] = at[t] \/ at'[t] = "test"
  BY DEF TypeOK, SetEvents, WokenBy
<1>2. \A e \in Events : trigger_flag[e] => trigger_flag'[e]
  BY DEF SetEvents
<1> QED
  BY <1>1, <1>2 DEF Lands

LEMMA MildPlain ==
  ASSUME TypeOK, UNCHANGED <<trigger_flag, sem>>, \A t \in Threads : Lands(t)
  PROVE  Mild
BY DEF Mild, TypeOK

LEMMA MildCheck ==
  ASSUME TypeOK, NEW t \in Threads, NEW from, Check(t, from)
  PROVE  Mild
<1>1. UNCHANGED <<trigger_flag, sem>>
  BY DEF Check, talkVars
<1>2. (Continues(t) /\ Goes(t, from, Round(t))) \/ Goes(t, from, "ended")
  <2>1. CASE Continues(t)
    BY <2>1 DEF Check
  <2>2. CASE ~Continues(t)
    BY <2>2 DEF Check
  <2> QED
    BY <2>1, <2>2
<1>3. Round(t) = "test" \/ Round(t) = "body"
  BY DEF Round
<1> QED
  BY <1>1, <1>2, <1>3, MildGoes, MildPlain

LEMMA MildWait ==
  ASSUME TypeOK, NEW t \in Sleepers, CondWait(t) \/ Spurious(t)
  PROVE  Mild
<1>1. UNCHANGED <<trigger_flag, sem>> /\ t \in Threads
  BY DEF CondWait, Spurious, talkVars, Threads
<1>2. Goes(t, "test", "awake") \/ Goes(t, "test", "asleep") \/ Goes(t, "asleep", "test")
  BY DEF CondWait, Spurious
<1> QED
  BY <1>1, <1>2, MildGoes, MildPlain

LEMMA MildIdle ==
  ASSUME TypeOK, NEW t \in Threads, Idle(t)
  PROVE  Mild
<1>1. UNCHANGED <<trigger_flag, sem>> /\ Goes(t, "body", "test")
  BY DEF Idle, talkVars
<1> QED
  BY <1>1, MildGoes, MildPlain

LEMMA MildResets ==
  ASSUME TypeOK, NEW t \in Resetters, NEW set, BodyResets(t, set), UNCHANGED sem
  PROVE  Mild
<1>1. Goes(t, "body", "test") /\ t \in Threads
  BY Tables DEF BodyResets, Resetters
<1>2. at[t] = "body" /\ \A u \in Threads : Lands(u)
  BY <1>1, MildGoes DEF Goes
<1> QED
  BY <1>2 DEF Mild, TypeOK

LEMMA MildBodySets ==
  ASSUME TypeOK, NEW t \in Threads, NEW set, BodySets(t, set), UNCHANGED sem
  PROVE  Mild
<1>1. SetEvents(set, [at EXCEPT ![t] = "test"])
  BY DEF BodySets
<1>2. (\A u \in Threads : Lands(u)) /\ (\A e \in Events : trigger_flag[e] => trigger_flag'[e])
  BY <1>1, MildSets
<1> QED
  BY <1>2 DEF Mild, TypeOK

LEMMA MildThread == TypeOK /\ ThreadStep => Mild
<1> SUFFICES ASSUME TypeOK, ThreadStep PROVE Mild
  OBVIOUS
<1> USE Tables
<1>1. CASE RecordThread \/ PlaybackThread
  BY <1>1, MildWait, MildCheck DEF RecordThread, PlaybackThread
<1>2. CASE TimePollThread
  <2>1. TalkOver => BodyResets("timer", {"cd", "playback"}) /\ UNCHANGED sem
    BY DEF TalkOver, EndTalk
  <2> QED
    BY <1>2, <2>1, MildWait, MildCheck, MildIdle, MildResets DEF TimePollThread, Resetters
<1>3. CASE MulcastPortPollThread
  <2>1. RemoteTimeout => BodyResets("rtp_poll", {"mulcast", "playback"}) /\ UNCHANGED sem
    BY DEF RemoteTimeout
  <2> QED
    BY <1>3, <2>1, MildWait, MildCheck, MildIdle, MildResets DEF MulcastPortPollThread, Resetters
<1>4. CASE CDPollThread
  <2>1. KeyReleased => BodyResets("cd_poll", {"cd", "playback"}) /\ UNCHANGED sem
    BY DEF KeyReleased, EndTalk
  <2>2. MasterPressed => BodySets("cd_poll", {"cd", "playback"}) /\ UNCHANGED sem
    BY DEF MasterPressed
  <2>3. CASE SlavePressed
    <3>1. Goes("cd_poll", "body", "test") /\ UNCHANGED trigger_flag /\ sem' >= sem
      BY <2>3 DEF SlavePressed, TypeOK
    <3> QED
      BY <3>1, MildGoes DEF Mild
  <2> QED
    BY <1>4, <2>1, <2>2, <2>3, MildCheck, MildIdle, MildResets, MildBodySets
       DEF CDPollThread, Resetters
<1>5. CASE RecvThread
  <2>1. \/ Check("udp_recv", "test") \/ Idle("udp_recv")
        \/ UNCHANGED sem /\ BodySets("udp_recv", {"mulcast", "playback"})
        \/ UNCHANGED sem /\ BodySets("udp_recv", {"cd", "playback"})
        \/ UNCHANGED sem /\ BodyResets("udp_recv", {"mulcast", "playback"})
        \/ UNCHANGED <<sem, trigger_flag>> /\ Goes("udp_recv", "body", "test")
    BY <1>5 DEF RecvThread, MasterRecvThread, SlaveRecvThread, SlaveApplies, SlaveReleases,
                Refused, Granted, RemoteBegins, RemoteEnds, talkVars
  <2> QED
    BY <2>1, MildCheck, MildIdle, MildResets, MildBodySets, MildGoes, MildPlain DEF Resetters
<1>6. CASE MonitorStatusThread
  <2>1. CASE MonitorCheck
    <3>1. \/ isRecvStatus /\ Goes("monitor", "test", "asleep")
          \/ Goes("monitor", "test", "ended")
      BY <2>1 DEF MonitorCheck
    <3>2. UNCHANGED <<trigger_flag, sem>>
      BY <2>1 DEF MonitorCheck, talkVars
    <3> QED
      BY <3>1, <3>2, MildGoes, MildPlain
  <2>2. CASE MonitorWait
    <3>1. Goes("monitor", "asleep", "test") /\ UNCHANGED trigger_flag
      BY <2>2 DEF MonitorWait
    <3>2. at'["monitor"] # "asleep"
      BY <3>1 DEF Goes, TypeOK
    <3> QED
      BY <3>1, <3>2, MildGoes DEF Mild
  <2>3. CASE GrantedLocally
    <3>1. SetEvents({"cd", "playback"}, [at EXCEPT !["monitor"] = "test"])
      BY <2>3 DEF GrantedLocally
    <3>2. at'["monitor"] # "asleep"
      BY <3>1 DEF SetEvents, WokenBy, TypeOK
    <3> QED
      BY <3>1, <3>2, MildSets DEF Mild
  <2> QED
    BY <1>6, <2>1, <2>2, <2>3 DEF MonitorStatusThread
<1>7. ASSUME NEW t \in Sleepers, Spurious(t) PROVE Mild
  BY <1>7, MildWait
<1> QED
  BY <1>1, <1>2, <1>3, <1>4, <1>5, <1>6, <1>7 DEF ThreadStep

LEMMA ThreadMain == ThreadStep => UNCHANGED <<basedevice_ID, stop, isRecvStatus, step>>
BY DEF ThreadStep, RecordThread, PlaybackThread, TimePollThread, MulcastPortPollThread,
       CDPollThread, RecvThread, MasterRecvThread, SlaveRecvThread, MonitorStatusThread,
       CondWait, Check, Idle, Spurious, EndTalk, KeyReleased, TalkOver, RemoteTimeout,
       MasterPressed, SlavePressed, SlaveApplies, SlaveReleases, Refused, Granted,
       RemoteBegins, RemoteEnds, MonitorCheck, MonitorWait, GrantedLocally, mainVars

\* Threads take the monitor's tokens for themselves only, and it is the only one
\* of those without an event that ever sleeps.
LEMMA LeavingMoves ==
  ASSUME Inv, Leaving, ThreadStep
  PROVE  Leaving'
<1> USE Tables
<1>1. UNCHANGED <<basedevice_ID, stop, isRecvStatus, step>> /\ EndedStay
  BY ThreadMain, ThreadKeeps DEF Inv, Kept
<1>2. at'["cd_poll"] # "asleep" /\ at'["udp_recv"] # "asleep"
  BY MildThread DEF Mild, Lands, Leaving, Inv
<1>3. step > 3 /\ at'["monitor"] = "asleep" => sem' > 0
  <2>1. ASSUME step > 3, at'["monitor"] = "asleep" PROVE sem' > 0
    <3>1. ~isRecvStatus
      BY <2>1 DEF Leaving, Inv, JoinedEnded
    <3>2. at["monitor"] = "asleep" /\ sem' >= sem
      BY <2>1, <3>1, MildThread DEF Mild, Lands, Inv
    <3>3. sem \in Nat /\ sem' \in Nat /\ sem > 0
      BY <2>1, <3>2, ThreadKeeps DEF Leaving, Inv, Kept, TypeOK
    <3> QED
      BY <3>2, <3>3
  <2> QED
    BY <2>1
<1> QED
  BY <1>1, <1>2, <1>3 DEF Leaving, EndedStay

LEMMA LeavingHolds == Spec => [](Inv /\ Leaving)
<1>1. Inv /\ Leaving /\ [Next]_vars => Leaving'
  <2> SUFFICES ASSUME Inv, Leaving, [Next]_vars PROVE Leaving'
    OBVIOUS
  <2>1. CASE UNCHANGED vars
    BY <2>1 DEF Leaving, vars, mainVars, talkVars
  <2>2. CASE ProcessDies
    BY <2>2, DeathKeeps, Tables DEF Inv, Leaving, Kept
  <2> QED
    BY <2>1, <2>2, LeavingStops, LeavingMoves DEF Next, ThreadStep
<1> QED
  BY <1>1, InvHolds, LeavingInit, PTL DEF Spec

\* Stop does not hang before it sets its first event, whatever the gateway did:
\* the receive, the monitor and the CD thread never sleep with nothing to come.
THEOREM HangsAtEvents == Spec => [](step <= 5 => JoinedAwake)
<1>1. Inv /\ Leaving => (step <= 5 => JoinedAwake)
  <2> SUFFICES ASSUME Inv, Leaving, step <= 5, NEW t \in Plan[step][1], at[t] = "asleep"
               PROVE  t = "monitor" /\ sem > 0
    BY DEF JoinedAwake
  <2>1. step \in 1..5
    BY DEF Inv, JoinedEnded
  <2>2. t \in {"udp_recv", "monitor", "cd_poll"} /\ (t = "monitor" => step = 4)
    BY <2>1, PlanInOrder
  <2> QED
    BY <2>2 DEF Leaving
<1> QED
  BY <1>1, LeavingHolds, PTL

LEMMA QuietStays == Inv /\ Leaving /\ Quiet /\ [Next]_vars => Quiet'
<1> SUFFICES ASSUME Inv, Leaving, Quiet, [Next]_vars PROVE Quiet'
  OBVIOUS
<1> USE Tables
<1>1. CASE UNCHANGED vars
  BY <1>1 DEF Quiet, vars, mainVars
<1>2. CASE StopStep
  <2>1. step \in 1..8 /\ step' = step + 1
    BY <1>2, StopIs
  <2>2. step = 1 => stop'
    BY <1>2, StopIs
  <2>3. step # 1 => stop'
    <3>1. step # 1 => UNCHANGED stop
      <4>1. step = 2 => UNCHANGED stop
        BY <1>2, StopIs
      <4>2. step = 3 => UNCHANGED stop
        BY <1>2, StopIs
      <4>3. step \in {4, 8} => UNCHANGED stop
        BY <1>2, StopIs
      <4>4. step \in 5..7 => UNCHANGED stop
        BY <1>2, StopIs
      <4> QED
        BY <2>1, <4>1, <4>2, <4>3, <4>4
    <3> QED
      BY <3>1 DEF Quiet
  <2>4. at'["timer"] # "body" /\ at'["rtp_poll"] # "body"
    BY <1>2, StopSets DEF Quiet
  <2>5. \A e \in Events : trigger_flag[e] => trigger_flag'[e]
    BY <1>2, StopSets
  <2>6. step' > 5 => trigger_flag'["cd"]
    BY <1>2, <2>1, <2>5, StopSets DEF Quiet, Events
  <2>7. step' > 6 => trigger_flag'["playback"]
    BY <1>2, <2>1, <2>5, StopSets DEF Quiet, Events
  <2>8. step' > 7 => trigger_flag'["mulcast"]
    BY <1>2, <2>1, <2>5, StopSets DEF Quiet, Events
  <2> QED
    BY <2>2, <2>3, <2>4, <2>6, <2>7, <2>8 DEF Quiet
<1>3. CASE ThreadStep
  <2>1. Mild /\ UNCHANGED <<stop, step>>
    BY <1>3, MildThread, ThreadMain DEF Inv
  <2>2. at'["timer"] # "body" /\ at'["rtp_poll"] # "body"
    BY <2>1 DEF Mild, Lands, Quiet, Continues
  <2>3. step > 5 => at["cd_poll"] = "ended" /\ at["udp_recv"] = "ended"
    <3>1. step > 5 => 3 \in 1..(step - 1) /\ 5 \in 1..(step - 1)
      BY DEF Inv, JoinedEnded
    <3> QED
      BY <3>1, PlanInOrder DEF Inv, JoinedEnded
  <2>4. step > 5 => \A e \in Events : trigger_flag[e] => trigger_flag'[e]
    BY <2>1, <2>3 DEF Mild, Resetters, Quiet
  <2>5. step \in Nat
    BY DEF Inv, TypeOK
  <2> QED
    BY <2>1, <2>2, <2>4, <2>5 DEF Quiet, Events
<1>4. CASE ProcessDies
  BY <1>4, DeathKeeps DEF Inv, Quiet, Kept
<1> QED
  BY <1>1, <1>2, <1>3, <1>4 DEF Next, ThreadStep

\* When Stop begins while neither the timer nor the listening thread is inside a
\* round, no thread that it joins ever sleeps without something left to wake it,
\* whatever is pressed, received or timed out meanwhile: the safety part of
\* QuietStopReturns.  (A process that died has no thread left.)
THEOREM QuietStopMeetsNoSleeper == Spec => [](NoLateReset => []JoinedAwake)
<1>1. Inv /\ Leaving /\ NoLateReset => Quiet
  BY DEF Leaving, NoLateReset, Quiet
<1>2. Inv /\ Leaving /\ Quiet => JoinedAwake
  <2> SUFFICES ASSUME Inv, Leaving, Quiet, ~Stopped, NEW t \in Plan[step][1], at[t] = "asleep"
               PROVE  t = "monitor" /\ sem > 0
    BY DEF JoinedAwake
  <2>1. step \in 1..8
    BY PlanTable DEF Stopped, Inv, JoinedEnded
  <2>2. CASE step <= 5
    <3>1. t \in {"udp_recv", "monitor", "cd_poll"} /\ (t = "monitor" => step = 4)
      BY <2>1, <2>2, PlanInOrder
    <3> QED
      BY <3>1 DEF Leaving
  <2>3. CASE step > 5
    <3>1. \/ step = 6 /\ t \in {"record", "timer"}
          \/ step = 7 /\ t = "playback"
          \/ step = 8 /\ t = "rtp_poll"
      BY <2>1, <2>3, PlanInOrder
    <3>2. t \in Sleepers /\ trigger_flag[EventOf[t]]
      BY <3>1, Tables DEF Quiet, EventOf
    <3> QED
      BY <3>2 DEF Inv, SetWakesAll
  <2> QED
    BY <2>1, <2>2, <2>3
<1> QED
  BY <1>1, <1>2, QuietStays, LeavingHolds, PTL DEF Spec
=============================================================================
