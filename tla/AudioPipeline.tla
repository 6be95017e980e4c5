--------------------------- MODULE AudioPipeline ----------------------------
(***************************************************************************)
(* The voice's way through one gateway (MyRepeater.cpp).                   *)
(*                                                                         *)
(*   sound card -> record thread -> PlayBack -> playback thread -> radio   *)
(*                              \-> Encode -> encode thread                *)
(*                                   -> RtpSend -> RTP-send thread -> RTP  *)
(*   RTP -> RTP-recv thread -> Decode -> decode thread -> PlayBack         *)
(*                                                                         *)
(* The threads talk only through four RingQueues and five flags, which     *)
(* they read without a lock and act on afterwards; the channel's threads   *)
(* set and reset the flags under flag_mutex.  A read of a flag, a call of  *)
(* a queue and a write of a flag are steps of their own.                   *)
(*                                                                         *)
(* Left out: the coding itself, sleeps, the sound card's errors, the       *)
(* sessions a packet is sent to (module Membership) and map_mutex around   *)
(* them (module Locks).  When talks begin and end is free here (module     *)
(* Channel says when they do).                                             *)
(*                                                                         *)
(* An operator named X_Y is the operator X with a plausible mistake Y.     *)
(***************************************************************************)
EXTENDS Naturals, Sequences, Functions

CONSTANTS
  Depth,       \* how many packets a ring takes
  MaxTalks,    \* bound: talks of the user at this gateway
  MaxRecorded, \* bound: packets recorded
  MaxReceived  \* bound: packets received

ASSUME PipelineAssumption ==
  /\ Depth \in Nat \ {0}
  /\ MaxTalks \in Nat \ {0}
  /\ MaxRecorded \in Nat
  /\ MaxReceived \in Nat

VARIABLES
  CD_Trigger_flag,       \* the user talks
  cd_cond,               \* the trigger flag of CD_trigger_cond
  Mulcast_Trigger_flag,  \* a remote user is listened to
  playback_cond,         \* the trigger flag of playback_cond
  stop_send_rtp_flag,    \* a talk that stays at this gateway
  section,               \* how far the section that ends a talk has come
  talk,                  \* history: the number of the user's latest talk
  localTalks,            \* history: the talks begun with stop_send_rtp_flag set
  queue,                 \* the four rings
  at,                    \* where each thread is
  hand,                  \* the packet each thread works on
  made,                  \* history: packets recorded and packets received
  sent,                  \* history: the number of the packet sent last
  played,                \* history: the packet of each source played last
  late                   \* history: packets passed on since the flag went down

flags == <<CD_Trigger_flag, cd_cond, Mulcast_Trigger_flag, playback_cond,
           stop_send_rtp_flag, section, talk, localTalks>>
voice == <<queue, at, hand, made, sent, played>>
vars == <<flags, voice, late>>

Sources == {"mic", "net"}
Queues == {"PlayBack", "Encode", "RtpSend", "Decode"}
Threads == {"record", "encode", "send", "recv", "decode", "play"}
Gates == {"send", "decode"}

Bound(s) == IF s = "mic" THEN MaxRecorded ELSE MaxReceived

\* A packet: where it comes from, its number there, and the talk it is of.
Packets == UNION {[src : {s}, n : 1..Bound(s), talk : 0..MaxTalks] : s \in Sources}
NoPacket == [src |-> "none", n |-> 0, talk |-> 0]

\* No ring takes more than Depth packets, and a thread has a packet in hand
\* exactly while it has yet to pass it on.
TypeOK ==
  /\ {CD_Trigger_flag, cd_cond, Mulcast_Trigger_flag, playback_cond,
      stop_send_rtp_flag} \subseteq BOOLEAN
  /\ section \in {"free", "flagged", "sendable"}
  /\ talk \in 0..MaxTalks
  /\ localTalks \subseteq 1..MaxTalks
  /\ \A q \in Queues : Len(queue[q]) <= Depth /\ Range(queue[q]) \subseteq Packets
  /\ at \in [Threads -> {"start", "take", "test", "pass"}]
  /\ \A t \in Threads : IF at[t] \in {"test", "pass"} THEN hand[t] \in Packets
                                                      ELSE hand[t] = NoPacket
  /\ \A s \in Sources : made[s] \in 0..Bound(s) /\ played[s] \in 0..made[s]
  /\ sent \in 0..made["mic"]
  /\ late \in [Gates -> Nat]

Init ==
  /\ CD_Trigger_flag = FALSE /\ cd_cond = FALSE
  /\ Mulcast_Trigger_flag = FALSE /\ playback_cond = FALSE
  /\ stop_send_rtp_flag = FALSE
  /\ section = "free"
  /\ talk = 0 /\ localTalks = {}
  /\ queue = [q \in Queues |-> <<>>]
  /\ at = [t \in Threads |-> IF t \in {"record", "recv", "play"} THEN "start" ELSE "take"]
  /\ hand = [t \in Threads |-> NoPacket]
  /\ made = [s \in Sources |-> 0]
  /\ sent = 0 /\ played = [s \in Sources |-> 0]
  /\ late = [g \in Gates |-> 0]
-----------------------------------------------------------------------------
(***************************************************************************)
(* The rings.  Pushing into a full ring loses the packet or, where the     *)
(* ring's test misses, everything queued (VoiceFifo: Refuse and Overrun).  *)
(***************************************************************************)
PushToQueue_Front(q, p) ==
  \E content \in IF Len(queue[q]) < Depth THEN {<<p>> \o queue[q]} ELSE {queue[q], <<>>} :
    queue' = [queue EXCEPT ![q] = content]
PushToQueue_Unbounded(q, p) == queue' = [queue EXCEPT ![q] = Append(@, p)]
PushToQueue(q, p) ==
  \E content \in IF Len(queue[q]) < Depth THEN {Append(queue[q], p)} ELSE {queue[q], <<>>} :
    queue' = [queue EXCEPT ![q] = content]

Goes(t, pc, p) ==
  /\ at' = [at EXCEPT ![t] = pc]
  /\ hand' = [hand EXCEPT ![t] = p]

TakeFromQueue(t, q, pc) ==
  /\ at[t] = "take"
  /\ queue[q] # <<>>
  /\ queue' = [queue EXCEPT ![q] = Tail(@)]
  /\ Goes(t, pc, Head(queue[q]))
  /\ UNCHANGED <<flags, made, sent, played, late>>

\* A thread that CondWait lets through.
Wakes(t, cond) ==
  /\ at[t] = "start" /\ cond
  /\ Goes(t, "take", NoPacket)
  /\ UNCHANGED <<flags, queue, made, sent, played, late>>

\* The packet recorded or received next.
NextPacket(s, k) == [src |-> s, n |-> made[s] + 1, talk |-> k]
Made(s) == made[s] < Bound(s) /\ made' = [made EXCEPT ![s] = @ + 1]
-----------------------------------------------------------------------------
(***************************************************************************)
(* What the channel's threads do to the flags.                             *)
(***************************************************************************)
\* The master did not answer: the talk is to stay here.  Not in the section.
\* The user still keys the radio then; but the pin is free, here and below.
StayLocal ==
  /\ ~Mulcast_Trigger_flag /\ ~stop_send_rtp_flag
  /\ stop_send_rtp_flag' = TRUE
  /\ UNCHANGED <<CD_Trigger_flag, cd_cond, Mulcast_Trigger_flag, playback_cond,
                 section, talk, localTalks, voice, late>>

\* A grant during a talk, like a second "begin", sets what is set already.
BeginTalk ==
  /\ section = "free"
  /\ talk < MaxTalks
  /\ CD_Trigger_flag' = TRUE /\ cd_cond' = TRUE /\ playback_cond' = TRUE
  /\ talk' = talk + 1
  /\ localTalks' = IF stop_send_rtp_flag THEN localTalks \cup {talk + 1} ELSE localTalks
  /\ late' = [late EXCEPT !["send"] = 0]
  /\ UNCHANGED <<Mulcast_Trigger_flag, stop_send_rtp_flag, section, voice>>

\* Reset_RecordAndTimePoll_Event, one write after the other.  Who ends a talk,
\* or stops listening, has looked at the flag before it took flag_mutex: the
\* section may find it down.  One that would change nothing is left out.
EndTalk ==
  /\ section = "free"
  /\ CD_Trigger_flag \/ stop_send_rtp_flag \/ playback_cond
  /\ section' = "flagged"
  /\ CD_Trigger_flag' = FALSE
  /\ UNCHANGED <<cd_cond, Mulcast_Trigger_flag, playback_cond,
                 stop_send_rtp_flag, talk, localTalks, voice, late>>

EndTalkSendable ==
  /\ section = "flagged"
  /\ section' = "sendable"
  /\ stop_send_rtp_flag' = FALSE
  /\ UNCHANGED <<CD_Trigger_flag, cd_cond, Mulcast_Trigger_flag, playback_cond,
                 talk, localTalks, voice, late>>

EndTalkEvents ==
  /\ section = "sendable"
  /\ section' = "free"
  /\ cd_cond' = FALSE /\ playback_cond' = FALSE
  /\ UNCHANGED <<CD_Trigger_flag, Mulcast_Trigger_flag, stop_send_rtp_flag,
                 talk, localTalks, voice, late>>

BeginListening ==
  /\ section = "free"
  /\ Mulcast_Trigger_flag' = TRUE /\ playback_cond' = TRUE
  /\ late' = [late EXCEPT !["decode"] = 0]
  /\ UNCHANGED <<CD_Trigger_flag, cd_cond, stop_send_rtp_flag, section, talk,
                 localTalks, voice>>

EndListening ==
  /\ section = "free"
  /\ Mulcast_Trigger_flag \/ playback_cond
  /\ Mulcast_Trigger_flag' = FALSE /\ playback_cond' = FALSE
  /\ UNCHANGED <<CD_Trigger_flag, cd_cond, stop_send_rtp_flag, section, talk,
                 localTalks, voice, late>>
-----------------------------------------------------------------------------
(***************************************************************************)
(* The record thread: a packet goes to the own loudspeaker and, unless the *)
(* talk stays here, to the encoder.                                        *)
(***************************************************************************)
Record ==
  /\ at["record"] = "take"
  /\ Made("mic")
  /\ LET p == NextPacket("mic", talk)
     IN  PushToQueue("PlayBack", p) /\ Goes("record", "test", p)
  /\ UNCHANGED <<flags, sent, played, late>>

RecordTest_Always ==
  /\ at["record"] = "test"
  /\ Goes("record", "pass", hand["record"])
  /\ UNCHANGED <<flags, queue, made, sent, played, late>>
RecordTest ==
  /\ at["record"] = "test"
  /\ IF stop_send_rtp_flag THEN Goes("record", "start", NoPacket)
                           ELSE Goes("record", "pass", hand["record"])
  /\ UNCHANGED <<flags, queue, made, sent, played, late>>

RecordPass ==
  /\ at["record"] = "pass"
  /\ PushToQueue("Encode", hand["record"])
  /\ Goes("record", "start", NoPacket)
  /\ UNCHANGED <<flags, made, sent, played, late>>

EncodePass ==
  /\ at["encode"] = "pass"
  /\ PushToQueue("RtpSend", hand["encode"])
  /\ Goes("encode", "take", NoPacket)
  /\ UNCHANGED <<flags, made, sent, played, late>>

\* A thread that drops its packet and what is queued behind it.
Drops(t, q) ==
  /\ queue' = [queue EXCEPT ![q] = <<>>]
  /\ Goes(t, "take", NoPacket)

\* The RTP-send thread: the packet is taken first, then it is looked whether
\* there is still a talk to send it for.
SendTest_KeyOnly(cd) ==
  /\ at["send"] = "test"
  /\ IF cd = "LOW" THEN Goes("send", "pass", hand["send"]) /\ UNCHANGED queue
                   ELSE Drops("send", "RtpSend")
  /\ UNCHANGED <<flags, made, sent, played, late>>
SendTest_Waiting(cd) ==
  /\ at["send"] = "test"
  /\ cd = "LOW" /\ CD_Trigger_flag
  /\ Goes("send", "pass", hand["send"])
  /\ UNCHANGED <<flags, queue, made, sent, played, late>>
SendTest(cd) ==
  /\ at["send"] = "test"
  /\ IF cd = "LOW" /\ CD_Trigger_flag
     THEN Goes("send", "pass", hand["send"]) /\ UNCHANGED queue
     ELSE Drops("send", "RtpSend")
  /\ UNCHANGED <<flags, made, sent, played, late>>

SendPacket ==
  /\ at["send"] = "pass"
  /\ sent' = hand["send"].n
  /\ late' = [late EXCEPT !["send"] = IF CD_Trigger_flag THEN @ ELSE @ + 1]
  /\ Goes("send", "take", NoPacket)
  /\ UNCHANGED <<flags, queue, made, played>>

\* The RTP-recv thread: what has arrived goes to the decoder.
Receive ==
  /\ at["recv"] = "take"
  /\ Made("net")
  /\ PushToQueue("Decode", NextPacket("net", 0))
  /\ Goes("recv", "start", NoPacket)
  /\ UNCHANGED <<flags, sent, played, late>>

\* The decode thread, with its test between take and push.
DecodeTest_Always ==
  /\ at["decode"] = "test"
  /\ Goes("decode", "pass", hand["decode"])
  /\ UNCHANGED <<flags, queue, made, sent, played, late>>
DecodeTest ==
  /\ at["decode"] = "test"
  /\ IF Mulcast_Trigger_flag
     THEN Goes("decode", "pass", hand["decode"]) /\ UNCHANGED queue
     ELSE Drops("decode", "Decode")
  /\ UNCHANGED <<flags, made, sent, played, late>>

DecodePass ==
  /\ at["decode"] = "pass"
  /\ PushToQueue("PlayBack", hand["decode"])
  /\ late' = [late EXCEPT !["decode"] = IF Mulcast_Trigger_flag THEN @ ELSE @ + 1]
  /\ Goes("decode", "take", NoPacket)
  /\ UNCHANGED <<flags, made, sent, played>>

\* The playback thread: it finds a packet and plays it, or finds none; either
\* way it waits for its event again.
Play ==
  /\ at["play"] = "take"
  /\ IF queue["PlayBack"] # <<>>
     THEN LET p == Head(queue["PlayBack"])
          IN  /\ played' = [played EXCEPT ![p.src] = p.n]
              /\ queue' = [queue EXCEPT !["PlayBack"] = Tail(@)]
     ELSE UNCHANGED <<played, queue>>
  /\ Goes("play", "start", NoPacket)
  /\ UNCHANGED <<flags, made, sent, late>>
-----------------------------------------------------------------------------
Channel == \/ StayLocal
           \/ BeginTalk \/ EndTalk \/ EndTalkSendable \/ EndTalkEvents
           \/ BeginListening \/ EndListening

RecordThread == Wakes("record", cd_cond) \/ Record \/ RecordTest \/ RecordPass
EncodeThread == TakeFromQueue("encode", "Encode", "pass") \/ EncodePass
SendThread == \/ TakeFromQueue("send", "RtpSend", "test")
              \/ \E cd \in {"LOW", "HIGH"} : SendTest(cd)
              \/ SendPacket
RecvThread == Wakes("recv", Mulcast_Trigger_flag) \/ Receive
DecodeThread == TakeFromQueue("decode", "Decode", "test") \/ DecodeTest \/ DecodePass
PlayThread == Wakes("play", playback_cond) \/ Play

Next == \/ Channel
        \/ RecordThread \/ EncodeThread \/ SendThread
        \/ RecvThread \/ DecodeThread \/ PlayThread

Spec == Init /\ [][Next]_vars

\* The encode, send and decode threads poll their queues for ever.
FairSpec ==
  /\ Spec
  /\ WF_vars(EncodeThread)
  /\ WF_vars(SendThread)
  /\ WF_vars(DecodeThread)
-----------------------------------------------------------------------------
\* Two packets of one source, and who came first.
Before(p, q) == p.src = q.src => p.n < q.n

\* What the threads and the rings hold on its way to a sink, from the packet
\* that came out last to the one that went in last.
Latest(s, n) == [src |-> s, n |-> n, talk |-> 0]
Held(t) == IF at[t] \in {"test", "pass"} THEN {hand[t]} ELSE {}
ToAir == <<{Latest("mic", sent)}, Held("send"), Range(queue["RtpSend"]),
           Held("encode"), Range(queue["Encode"]), Held("record")>>
ToSpeaker == <<{Latest(s, played[s]) : s \in Sources}, Range(queue["PlayBack"]),
               Held("decode"), Range(queue["Decode"])>>
Flows(path) ==
  \A i, j \in DOMAIN path : i < j => \A p \in path[i], q \in path[j] : Before(p, q)
RingsFlow ==
  \A r \in Queues : \A i, j \in 1..Len(queue[r]) : i < j => Before(queue[r][i], queue[r][j])

\* Through three rings and as many threads, with rings cleared and overrun
\* meanwhile, voice keeps its order and no packet is sent or played twice.
InOrder == RingsFlow /\ Flows(ToAir) /\ Flows(ToSpeaker)

\* The flag is tested after the take and before the pass: once a talk is over
\* at most one packet, the one past the test, is still sent, and once the
\* remote talk is over at most one is still relayed.
LateIsOne == \A g \in Gates : late[g] <= 1

\* Master is not work: a talk that began with stop_send_rtp_flag set is not
\* sent as long as it is the latest talk, whenever the flags are read.
LocalStaysLocal ==
  [][SendPacket => hand["send"].talk \notin localTalks \/ hand["send"].talk < talk]_vars

\* A packet on its way to the network or through the decoder does not stay
\* there for ever, talk or no talk: it is passed on or dropped.
OnItsWay(s, n) ==
  \/ \E q \in {"Encode", "RtpSend", "Decode"} :
       \E i \in 1..Len(queue[q]) : queue[q][i].src = s /\ queue[q][i].n = n
  \/ \E t \in {"encode", "send", "decode"} : hand[t].src = s /\ hand[t].n = n
Conveyed ==
  \A s \in Sources : \A n \in 1..Bound(s) : OnItsWay(s, n) ~> ~OnItsWay(s, n)
=============================================================================
