------------------------ MODULE AudioPipelineProofs -------------------------
(***************************************************************************)
(* Proofs about module AudioPipeline, for rings of any depth and any       *)
(* number of talks and packets.  Which packets may be where is said by     *)
(* three sets that grow with every step, so a packet that stays where it   *)
(* is stays allowed; what is left is the packet a step moves.              *)
(***************************************************************************)
EXTENDS AudioPipeline, TLAPS

Places == {"start", "take", "test", "pass"}

\* The packets made so far; the user's; and those of the user that may be on
\* their way out, among them none of a local talk that lasts.
Kept == {p \in Packets : p.n <= made[p.src] /\ p.talk <= talk}
Mine == {p \in Kept : p.src = "mic"}
Outgoing == {p \in Mine : talk \in localTalks /\ CD_Trigger_flag => p.talk # talk}

Contents(q) == IF q \in {"Encode", "RtpSend"} THEN Outgoing ELSE Kept

InHand(t, pc) ==
  IF pc \notin {"test", "pass"} THEN {NoPacket}
  ELSE IF t = "record" /\ pc = "test" THEN Mine
  ELSE IF t \in {"record", "encode", "send"} THEN Outgoing ELSE Kept

(***************************************************************************)
(* The parts of the inductive invariant.                                   *)
(***************************************************************************)
FlagInv ==
  /\ {CD_Trigger_flag, cd_cond, Mulcast_Trigger_flag, playback_cond,
      stop_send_rtp_flag} \subseteq BOOLEAN
  /\ section \in {"free", "flagged", "sendable"}
  /\ talk \in 0..MaxTalks /\ localTalks \subseteq 1..talk
  /\ section # "free" => ~CD_Trigger_flag
  /\ talk \in localTalks /\ CD_Trigger_flag => stop_send_rtp_flag

RingInv ==
  /\ queue \in [Queues -> Seq(Packets)]
  /\ \A q \in Queues : queue[q] \in Seq(Contents(q)) /\ Len(queue[q]) <= Depth

HandInv ==
  /\ at \in [Threads -> Places]
  /\ hand \in [Threads -> Packets \cup {NoPacket}]
  /\ \A t \in Threads : hand[t] \in InHand(t, at[t])

CountInv ==
  /\ made \in [Sources -> Nat] /\ played \in [Sources -> Nat]
  /\ \A s \in Sources : made[s] <= Bound(s) /\ played[s] <= made[s]
  /\ sent \in 0..made["mic"]

\* While a gate is open, or its thread past it, no packet is late.
LateInv ==
  /\ late \in [Gates -> 0..1]
  /\ CD_Trigger_flag \/ at["send"] = "pass" => late["send"] = 0
  /\ Mulcast_Trigger_flag \/ at["decode"] = "pass" => late["decode"] = 0

\* No packet of the latest talk gets past the sender's test if that is local.
LocalInv == talk \in localTalks /\ at["send"] = "pass" => hand["send"].talk # talk

Inv == FlagInv /\ RingInv /\ HandInv /\ CountInv /\ LateInv /\ LocalInv

-----------------------------------------------------------------------------
LEMMA PacketShape ==
  /\ \A p \in Packets : p.src \in Sources /\ p.n \in 1..Bound(p.src) /\ p.talk \in 0..MaxTalks
  /\ \A s \in Sources : \A n \in 1..Bound(s) : \A k \in 0..MaxTalks :
       [src |-> s, n |-> n, talk |-> k] \in Packets
<1>1. ASSUME NEW p \in Packets
      PROVE  p.src \in Sources /\ p.n \in 1..Bound(p.src) /\ p.talk \in 0..MaxTalks
  <2>1. PICK s \in Sources : p \in [src : {s}, n : 1..Bound(s), talk : 0..MaxTalks]
    BY DEF Packets
  <2> QED  BY <2>1
<1>2. ASSUME NEW s \in Sources, NEW n \in 1..Bound(s), NEW k \in 0..MaxTalks
      PROVE  [src |-> s, n |-> n, talk |-> k] \in Packets
  <2>1. [src |-> s, n |-> n, talk |-> k] \in [src : {s}, n : 1..Bound(s), talk : 0..MaxTalks]
    OBVIOUS
  <2> QED  BY <2>1 DEF Packets
<1> QED  BY <1>1, <1>2

LEMMA BoundIsNat == \A s \in Sources : Bound(s) \in Nat
BY PipelineAssumption DEF Bound

LEMMA SeqGrows ==
  ASSUME NEW S, NEW T, S \subseteq T, NEW s \in Seq(S)
  PROVE  s \in Seq(T)
OBVIOUS

(***************************************************************************)
(* A step that does not begin a talk, or one that does.                    *)
(***************************************************************************)
TalkGoesOn ==
  \/ talk' = talk /\ localTalks' = localTalks /\ (CD_Trigger_flag' => CD_Trigger_flag)
  \/ talk' = talk + 1

LEMMA Grows ==
  ASSUME FlagInv, CountInv, TalkGoesOn, \A s \in Sources : made'[s] \in Nat /\ made[s] <= made'[s]
  PROVE  Kept \subseteq Kept' /\ Mine \subseteq Mine' /\ Outgoing \subseteq Outgoing'
<1>1. talk \in Nat  BY PipelineAssumption DEF FlagInv
<1>2. ASSUME NEW p \in Kept
      PROVE  p \in Kept'
  <2>1. /\ p \in Packets /\ p.n <= made[p.src] /\ p.talk <= talk
        /\ p.src \in Sources /\ p.n \in Nat /\ p.talk \in Nat
    BY PacketShape, PipelineAssumption, BoundIsNat DEF Kept
  <2>2. p.n <= made'[p.src]  BY <2>1 DEF CountInv
  <2>3. p.talk <= talk'  BY <1>1, <2>1 DEF TalkGoesOn
  <2> QED  BY <2>1, <2>2, <2>3 DEF Kept
<1>3. Mine \subseteq Mine'  BY <1>2 DEF Mine
<1>4. ASSUME NEW p \in Outgoing
      PROVE  p \in Outgoing'
  <2>1. p \in Mine /\ p \in Kept /\ p \in Mine'  BY <1>3 DEF Outgoing, Mine
  <2>2. p.talk \in Nat /\ p.talk <= talk
    BY <2>1, PacketShape, PipelineAssumption DEF Kept
  <2>3. talk' \in localTalks' /\ CD_Trigger_flag' => p.talk # talk'
    <3>1. CASE talk' = talk + 1  BY <1>1, <2>2, <3>1
    <3>2. CASE talk' = talk /\ localTalks' = localTalks /\ (CD_Trigger_flag' => CD_Trigger_flag)
      BY <3>2 DEF Outgoing
    <3> QED  BY <3>1, <3>2 DEF TalkGoesOn
  <2> QED  BY <2>1, <2>3 DEF Outgoing
<1> QED  BY <1>2, <1>3, <1>4

AllGrow == Kept \subseteq Kept' /\ Mine \subseteq Mine' /\ Outgoing \subseteq Outgoing'

(***************************************************************************)
(* One ring changes, or none; one thread moves, or none.                   *)
(***************************************************************************)
LEMMA RingChanges ==
  ASSUME RingInv, AllGrow, NEW q \in Queues, NEW c \in Seq(Contents(q)'), Len(c) <= Depth,
         queue' = [queue EXCEPT ![q] = c]
  PROVE  RingInv'
<1>1. Contents(q)' \subseteq Packets  BY DEF Contents, Outgoing, Mine, Kept
<1>2. c \in Seq(Packets)  BY <1>1, SeqGrows
<1>3. queue' \in [Queues -> Seq(Packets)]  BY <1>2 DEF RingInv
<1>4. ASSUME NEW r \in Queues
      PROVE  queue'[r] \in Seq(Contents(r)') /\ Len(queue'[r]) <= Depth
  <2>1. CASE r = q  BY <2>1 DEF RingInv
  <2>2. CASE r # q
    <3>1. queue'[r] = queue[r]  BY <2>2 DEF RingInv
    <3>2. Contents(r) \subseteq Contents(r)'  BY DEF Contents, AllGrow
    <3>3. queue[r] \in Seq(Contents(r)) /\ Len(queue[r]) <= Depth  BY DEF RingInv
    <3> QED  BY <3>1, <3>2, <3>3, SeqGrows
  <2> QED  BY <2>1, <2>2
<1> QED  BY <1>3, <1>4 DEF RingInv

LEMMA RingStays ==
  ASSUME RingInv, AllGrow, queue' = queue
  PROVE  RingInv'
<1>1. ASSUME NEW r \in Queues
      PROVE  queue'[r] \in Seq(Contents(r)') /\ Len(queue'[r]) <= Depth
  <2>1. Contents(r) \subseteq Contents(r)'  BY DEF Contents, AllGrow
  <2>2. queue[r] \in Seq(Contents(r)) /\ Len(queue[r]) <= Depth  BY DEF RingInv
  <2> QED  BY <2>1, <2>2, SeqGrows
<1> QED  BY <1>1 DEF RingInv

LEMMA Pushes ==
  ASSUME RingInv, AllGrow, NEW q \in Queues, NEW p \in Contents(q)', PushToQueue(q, p)
  PROVE  RingInv'
<1>1. PICK c \in (IF Len(queue[q]) < Depth THEN {Append(queue[q], p)} ELSE {queue[q], <<>>}) :
        queue' = [queue EXCEPT ![q] = c]
  BY DEF PushToQueue
<1>2. queue[q] \in Seq(Contents(q)) /\ Len(queue[q]) <= Depth  BY DEF RingInv
<1>3. Contents(q) \subseteq Contents(q)'  BY DEF Contents, AllGrow
<1>4. queue[q] \in Seq(Contents(q)')  BY <1>2, <1>3, SeqGrows
<1>5. Depth \in Nat /\ Len(queue[q]) \in Nat  BY <1>2, PipelineAssumption
<1>6. c \in Seq(Contents(q)') /\ Len(c) <= Depth
  <2> DEFINE S == Contents(q)'
  <2>1. p \in S /\ queue[q] \in Seq(S)  BY <1>4
  <2> HIDE DEF S
  <2>2. CASE Len(queue[q]) < Depth
    <3>1. c = Append(queue[q], p)  BY <1>1, <2>2
    <3>2. c \in Seq(S) /\ Len(c) = Len(queue[q]) + 1  BY <2>1, <3>1
    <3> QED  BY <1>5, <2>2, <3>2 DEF S
  <2>3. CASE ~(Len(queue[q]) < Depth)
    <3>1. c = queue[q] \/ c = <<>>  BY <1>1, <2>3
    <3>2. CASE c = queue[q]  BY <1>2, <2>1, <3>2 DEF S
    <3>3. CASE c = <<>>
      <4>1. c \in Seq(S)  BY <3>3
      <4>2. Len(c) <= Depth  BY <1>5, <3>3
      <4> QED  BY <4>1, <4>2 DEF S
    <3> QED  BY <3>1, <3>2, <3>3
  <2> QED  BY <2>2, <2>3
<1> QED  BY <1>1, <1>6, RingChanges

LEMMA Moves ==
  ASSUME HandInv, AllGrow, NEW t \in Threads, NEW pc \in Places, NEW p \in InHand(t, pc)',
         Goes(t, pc, p)
  PROVE  HandInv'
<1>1. at' = [at EXCEPT ![t] = pc] /\ hand' = [hand EXCEPT ![t] = p]  BY DEF Goes
<1>2. p \in Packets \cup {NoPacket}  BY DEF InHand, Outgoing, Mine, Kept
<1>3. at' \in [Threads -> Places] /\ hand' \in [Threads -> Packets \cup {NoPacket}]
  BY <1>1, <1>2 DEF HandInv
<1>4. ASSUME NEW u \in Threads
      PROVE  (hand[u] \in InHand(u, at[u]))'
  <2>1. CASE u = t
    <3>1. hand'[u] = p /\ at'[u] = pc  BY <1>1, <2>1 DEF HandInv
    <3> QED  BY <2>1, <3>1
  <2>2. CASE u # t
    <3>1. hand'[u] = hand[u] /\ at'[u] = at[u] /\ hand[u] \in InHand(u, at[u])
      BY <1>1, <2>2 DEF HandInv
    <3> QED  BY <3>1 DEF InHand, AllGrow
  <2> QED  BY <2>1, <2>2
<1> QED  BY <1>3, <1>4 DEF HandInv

LEMMA HandsStay ==
  ASSUME HandInv, AllGrow, UNCHANGED <<at, hand>>
  PROVE  HandInv'
<1>1. ASSUME NEW u \in Threads
      PROVE  (hand[u] \in InHand(u, at[u]))'
  BY DEF HandInv, InHand, AllGrow
<1> QED  BY <1>1 DEF HandInv

LEMMA CountsStay ==
  ASSUME CountInv, UNCHANGED <<made, sent, played>>
  PROVE  CountInv'
BY DEF CountInv

-----------------------------------------------------------------------------
(***************************************************************************)
(* The threads of the channel: no packet moves.                            *)
(***************************************************************************)
LEMMA FlagsChange ==
  ASSUME Inv, TalkGoesOn, UNCHANGED voice
  PROVE  RingInv' /\ HandInv' /\ CountInv'
<1>1. made' = made /\ UNCHANGED <<queue, at, hand, made, sent, played>>  BY DEF voice
<1>2. AllGrow
  <2>1. \A s \in Sources : made'[s] \in Nat /\ made[s] <= made'[s]
    BY <1>1 DEF Inv, CountInv
  <2> QED  BY <2>1, Grows DEF Inv, AllGrow
<1>3. RingInv'  BY <1>1, <1>2, RingStays DEF Inv
<1>4. HandInv'  BY <1>1, <1>2, HandsStay DEF Inv
<1>5. CountInv'  BY <1>1, CountsStay DEF Inv
<1> QED  BY <1>3, <1>4, <1>5

LEMMA BeginTalkKeeps ==
  ASSUME Inv, BeginTalk
  PROVE  Inv'
<1>1. talk \in Nat /\ talk' = talk + 1  BY PipelineAssumption DEF Inv, FlagInv, BeginTalk
<1>2. RingInv' /\ HandInv' /\ CountInv'
  <2>1. TalkGoesOn /\ UNCHANGED voice  BY <1>1 DEF TalkGoesOn, BeginTalk
  <2> QED  BY <2>1, FlagsChange
<1>3. FlagInv'
  <2>1. talk' \in 1..MaxTalks  BY <1>1, PipelineAssumption DEF Inv, FlagInv, BeginTalk
  <2>2. localTalks' \subseteq 1..talk'
    <3>1. localTalks' = localTalks \/ localTalks' = localTalks \cup {talk + 1}  BY DEF BeginTalk
    <3>2. ASSUME NEW k \in localTalks'
          PROVE  k \in 1..talk'
      <4>1. k \in localTalks \/ k = talk + 1  BY <3>1
      <4>2. k \in localTalks => k \in 1..talk  BY DEF Inv, FlagInv
      <4> QED  BY <1>1, <4>1, <4>2
    <3> QED  BY <3>2
  <2>3. talk' \in localTalks' => stop_send_rtp_flag'
    <3>1. CASE stop_send_rtp_flag  BY <3>1 DEF BeginTalk
    <3>2. CASE ~stop_send_rtp_flag
      <4>1. localTalks' = localTalks  BY <3>2 DEF BeginTalk
      <4>2. talk + 1 \notin localTalks  BY <1>1 DEF Inv, FlagInv
      <4> QED  BY <1>1, <4>1, <4>2
    <3> QED  BY <3>1, <3>2
  <2>4. {CD_Trigger_flag', cd_cond', Mulcast_Trigger_flag', playback_cond',
         stop_send_rtp_flag'} \subseteq BOOLEAN
    BY DEF Inv, FlagInv, BeginTalk
  <2>5. section' = "free"  BY DEF BeginTalk
  <2>6. talk' \in 0..MaxTalks  BY <2>1
  <2> QED  BY <2>2, <2>3, <2>4, <2>5, <2>6 DEF FlagInv
<1>4. LateInv'
  <2>1. at' = at /\ Mulcast_Trigger_flag' = Mulcast_Trigger_flag  BY DEF BeginTalk, voice
  <2>2. late' = [late EXCEPT !["send"] = 0]  BY DEF BeginTalk
  <2> QED  BY <2>1, <2>2 DEF Inv, LateInv, Gates
<1>5. LocalInv'
  <2>1. at' = at /\ hand' = hand  BY DEF BeginTalk, voice
  <2>2. ASSUME at["send"] = "pass"
        PROVE  hand["send"].talk <= talk /\ hand["send"].talk \in Nat
    <3>1. hand["send"] \in Outgoing  BY <2>2 DEF Inv, HandInv, InHand, Threads
    <3> QED  BY <3>1, PacketShape, PipelineAssumption DEF Outgoing, Mine, Kept
  <2> QED  BY <1>1, <2>1, <2>2 DEF LocalInv
<1> QED  BY <1>2, <1>3, <1>4, <1>5 DEF Inv

LEMMA ChannelKeeps ==
  ASSUME Inv, Channel
  PROVE  Inv'
<1>1. CASE BeginTalk  BY <1>1, BeginTalkKeeps
<1>2. CASE \/ StayLocal \/ EndTalk \/ EndTalkSendable \/ EndTalkEvents
           \/ BeginListening \/ EndListening
  <2> USE DEF StayLocal, EndTalk, EndTalkSendable, EndTalkEvents, BeginListening, EndListening
  <2>1. TalkGoesOn /\ UNCHANGED <<talk, localTalks>> /\ UNCHANGED voice  BY <1>2 DEF TalkGoesOn
  <2>2. RingInv' /\ HandInv' /\ CountInv'  BY <2>1, FlagsChange
  <2>3. FlagInv'
    <3>1. CASE StayLocal  BY <3>1 DEF Inv, FlagInv
    <3>2. CASE EndTalk  BY <3>2 DEF Inv, FlagInv
    <3>3. CASE EndTalkSendable  BY <3>3 DEF Inv, FlagInv
    <3>4. CASE EndTalkEvents  BY <3>4 DEF Inv, FlagInv
    <3>5. CASE BeginListening  BY <3>5 DEF Inv, FlagInv
    <3>6. CASE EndListening  BY <3>6 DEF Inv, FlagInv
    <3> QED  BY <1>2, <3>1, <3>2, <3>3, <3>4, <3>5, <3>6
  <2>4. at' = at /\ hand' = hand  BY <2>1 DEF voice
  <2>5. LateInv'  BY <1>2, <2>4 DEF Inv, LateInv, Gates
  <2>6. LocalInv'  BY <2>1, <2>4 DEF Inv, LocalInv
  <2> QED  BY <2>2, <2>3, <2>5, <2>6 DEF Inv
<1> QED  BY <1>1, <1>2 DEF Channel

-----------------------------------------------------------------------------
(***************************************************************************)
(* The voice threads: no flag changes.                                     *)
(***************************************************************************)
LEMMA FlagsStay ==
  ASSUME Inv, UNCHANGED flags, \A s \in Sources : made'[s] \in Nat /\ made[s] <= made'[s]
  PROVE  FlagInv' /\ AllGrow
<1>1. FlagInv'  BY DEF Inv, FlagInv, flags
<1>2. TalkGoesOn  BY DEF TalkGoesOn, flags
<1> QED  BY <1>1, <1>2, Grows DEF Inv, AllGrow

LEMMA FlagsAndMadeStay ==
  ASSUME Inv, UNCHANGED <<flags, made>>
  PROVE  FlagInv' /\ AllGrow
<1>1. \A s \in Sources : made'[s] \in Nat /\ made[s] <= made'[s]  BY DEF Inv, CountInv
<1> QED  BY <1>1, FlagsStay

\* A thread goes on, with a packet it may have there; it gets past a gate only
\* while that is open.
LEMMA ThreadMoves ==
  ASSUME Inv, AllGrow, UNCHANGED <<flags, late>>,
         NEW t \in Threads, NEW pc \in Places, NEW p \in InHand(t, pc)', Goes(t, pc, p),
         t = "send" /\ pc = "pass" => CD_Trigger_flag,
         t = "decode" /\ pc = "pass" => Mulcast_Trigger_flag
  PROVE  HandInv' /\ LateInv' /\ LocalInv'
<1>1. HandInv'  BY Moves DEF Inv
<1>2. at' = [at EXCEPT ![t] = pc] /\ hand' = [hand EXCEPT ![t] = p]  BY DEF Goes
<1>3. at \in [Threads -> Places] /\ hand \in [Threads -> Packets \cup {NoPacket}]
  BY DEF Inv, HandInv
<1>4. "send" \in Threads /\ "decode" \in Threads  BY DEF Threads
<1>5. LateInv'
  <2>1. at'["send"] = "pass" => at["send"] = "pass" \/ CD_Trigger_flag  BY <1>2, <1>3, <1>4
  <2>2. at'["decode"] = "pass" => at["decode"] = "pass" \/ Mulcast_Trigger_flag
    BY <1>2, <1>3, <1>4
  <2> QED  BY <2>1, <2>2 DEF Inv, LateInv, flags
<1>6. LocalInv'
  <2>1. CASE t = "send" /\ pc = "pass"
    <3>1. p \in Outgoing' /\ CD_Trigger_flag'  BY <2>1 DEF InHand, flags
    <3>2. hand'["send"] = p  BY <1>2, <1>3, <1>4, <2>1
    <3> QED  BY <3>1, <3>2 DEF LocalInv, Outgoing
  <2>2. CASE t = "send" /\ pc # "pass"
    <3>1. at'["send"] # "pass"  BY <1>2, <1>3, <1>4, <2>2
    <3> QED  BY <3>1 DEF LocalInv
  <2>3. CASE t # "send"
    <3>1. at'["send"] = at["send"] /\ hand'["send"] = hand["send"]
      BY <1>2, <1>3, <1>4, <2>3
    <3> QED  BY <3>1 DEF Inv, LocalInv, flags
  <2> QED  BY <2>1, <2>2, <2>3
<1> QED  BY <1>1, <1>5, <1>6

\* The packet made last is one that may be kept.
LEMMA Makes ==
  ASSUME Inv, UNCHANGED flags, NEW s \in Sources, Made(s)
  PROVE  /\ FlagInv' /\ AllGrow
         /\ NextPacket(s, talk) \in Kept' /\ NextPacket(s, 0) \in Kept'
         /\ s = "mic" => NextPacket(s, talk) \in Mine'
         /\ UNCHANGED <<sent, played>> => CountInv'
<1>1. made \in [Sources -> Nat] /\ made[s] < Bound(s) /\ made' = [made EXCEPT ![s] = made[s] + 1]
  BY DEF Inv, CountInv, Made
<1>2. made' \in [Sources -> Nat] /\ made'[s] = made[s] + 1  BY <1>1
<1>3. \A r \in Sources : made'[r] \in Nat /\ made[r] <= made'[r]  BY <1>1
<1>4. FlagInv' /\ AllGrow  BY <1>3, FlagsStay
<1>5. made[s] + 1 \in 1..Bound(s) /\ talk \in 0..MaxTalks /\ 0 \in 0..MaxTalks /\ talk' = talk
  BY <1>1, BoundIsNat, PipelineAssumption DEF Inv, FlagInv, flags
<1>6. NextPacket(s, talk) \in Packets /\ NextPacket(s, 0) \in Packets
  BY <1>5, PacketShape DEF NextPacket
<1>7. ASSUME NEW k \in 0..talk
      PROVE  NextPacket(s, k).n <= made'[s] /\ NextPacket(s, k).src = s /\ NextPacket(s, k).talk <= talk'
  BY <1>2, <1>5, <1>7, PipelineAssumption DEF NextPacket
<1>8. talk \in 0..talk /\ 0 \in 0..talk  BY <1>5, PipelineAssumption
<1>9. NextPacket(s, talk) \in Kept' /\ NextPacket(s, 0) \in Kept'
  BY <1>6, <1>7, <1>8 DEF Kept
<1>10. s = "mic" => NextPacket(s, talk) \in Mine'  BY <1>7, <1>8, <1>9 DEF Mine
<1>11. ASSUME UNCHANGED <<sent, played>>
       PROVE  CountInv'
  <2>1. \A r \in Sources : made'[r] <= Bound(r)
    BY <1>1, BoundIsNat DEF Inv, CountInv
  <2>2. \A r \in Sources : played[r] \in Nat /\ played[r] <= made'[r]
    BY <1>1, <1>3 DEF Inv, CountInv
  <2>3. sent \in 0..made'["mic"]  BY <1>1, <1>3 DEF Inv, CountInv, Sources
  <2> QED  BY <1>2, <1>11, <2>1, <2>2, <2>3 DEF Inv, CountInv
<1> QED  BY <1>4, <1>9, <1>10, <1>11

-----------------------------------------------------------------------------
\* A packet taken is one the ring may hold.
LEMMA Takes ==
  ASSUME Inv, NEW t, NEW q \in Queues, NEW pc, TakeFromQueue(t, q, pc)
  PROVE  /\ FlagInv' /\ AllGrow /\ RingInv' /\ CountInv'
         /\ Head(queue[q]) \in Contents(q)'
<1>1. FlagInv' /\ AllGrow  BY FlagsAndMadeStay DEF TakeFromQueue
<1> DEFINE S == Contents(q)'
<1>2. Contents(q) \subseteq S  BY <1>1 DEF Contents, AllGrow
<1>3. queue[q] \in Seq(Contents(q)) /\ Len(queue[q]) <= Depth  BY DEF Inv, RingInv
<1>4. queue[q] \in Seq(S)  BY <1>2, <1>3, SeqGrows
<1> HIDE DEF S
<1>5. queue[q] # <<>> /\ queue' = [queue EXCEPT ![q] = Tail(queue[q])]  BY DEF TakeFromQueue
<1>6. Head(queue[q]) \in S /\ Tail(queue[q]) \in Seq(S) /\ Len(Tail(queue[q])) = Len(queue[q]) - 1
  BY <1>4, <1>5
<1>7. Len(Tail(queue[q])) <= Depth  BY <1>3, <1>6, PipelineAssumption
<1>8. RingInv'  BY <1>1, <1>5, <1>6, <1>7, RingChanges DEF S, Inv
<1>9. CountInv'  BY CountsStay DEF Inv, TakeFromQueue
<1> QED  BY <1>1, <1>6, <1>8, <1>9 DEF S

LEMMA WakesKeeps ==
  ASSUME Inv, NEW t \in Threads, NEW cond, Wakes(t, cond)
  PROVE  Inv'
<1>1. FlagInv' /\ AllGrow  BY FlagsAndMadeStay DEF Wakes
<1>2. NoPacket \in InHand(t, "take")'  BY DEF InHand
<1>3. HandInv' /\ LateInv' /\ LocalInv'
  BY <1>1, <1>2, ThreadMoves DEF Wakes, Places
<1>4. RingInv'  BY <1>1, RingStays DEF Inv, Wakes
<1>5. CountInv'  BY CountsStay DEF Inv, Wakes
<1> QED  BY <1>1, <1>3, <1>4, <1>5 DEF Inv

LEMMA RecordKeeps ==
  ASSUME Inv, RecordThread
  PROVE  Inv'
<1>0. "record" \in Threads /\ "mic" \in Sources /\ "PlayBack" \in Queues /\ "Encode" \in Queues
  BY DEF Threads, Sources, Queues
<1>1. CASE Wakes("record", cd_cond)  BY <1>0, <1>1, WakesKeeps
<1>2. CASE Record
  <2> DEFINE p == NextPacket("mic", talk)
  <2>1. PushToQueue("PlayBack", p) /\ Goes("record", "test", p) /\ Made("mic")
        /\ UNCHANGED <<flags, late>> /\ UNCHANGED <<sent, played>>
    BY <1>2 DEF Record
  <2>2. FlagInv' /\ AllGrow /\ p \in Kept' /\ p \in Mine' /\ CountInv'
    BY <1>0, <2>1, Makes
  <2>3. p \in Contents("PlayBack")' /\ p \in InHand("record", "test")'
    BY <2>2 DEF Contents, InHand
  <2> HIDE DEF p
  <2>4. RingInv'  BY <1>0, <2>1, <2>2, <2>3, Pushes DEF Inv
  <2>5. HandInv' /\ LateInv' /\ LocalInv'
    BY <1>0, <2>1, <2>2, <2>3, ThreadMoves DEF Places
  <2> QED  BY <2>2, <2>4, <2>5 DEF Inv
<1>3. CASE RecordTest
  <2>1. FlagInv' /\ AllGrow  BY <1>3, FlagsAndMadeStay DEF RecordTest
  <2>2. RingInv' /\ CountInv'  BY <1>3, <2>1, RingStays, CountsStay DEF RecordTest, Inv
  <2>3. UNCHANGED <<flags, late>>  BY <1>3 DEF RecordTest
  <2>4. CASE stop_send_rtp_flag
    <3>1. Goes("record", "start", NoPacket)  BY <1>3, <2>4 DEF RecordTest
    <3>2. NoPacket \in InHand("record", "start")'  BY DEF InHand
    <3>3. HandInv' /\ LateInv' /\ LocalInv'
      BY <1>0, <2>1, <2>3, <3>1, <3>2, ThreadMoves DEF Places
    <3> QED  BY <2>1, <2>2, <3>3 DEF Inv
  <2>5. CASE ~stop_send_rtp_flag
    <3>1. Goes("record", "pass", hand["record"])  BY <1>3, <2>5 DEF RecordTest
    <3>2. hand["record"] \in Mine  BY <1>0, <1>3 DEF RecordTest, Inv, HandInv, InHand
    <3>3. hand["record"] \in Outgoing  BY <2>5, <3>2 DEF Outgoing, Inv, FlagInv
    <3>4. hand["record"] \in InHand("record", "pass")'  BY <2>1, <3>3 DEF AllGrow, InHand
    <3>5. HandInv' /\ LateInv' /\ LocalInv'
      BY <1>0, <2>1, <2>3, <3>1, <3>4, ThreadMoves DEF Places
    <3> QED  BY <2>1, <2>2, <3>5 DEF Inv
  <2> QED  BY <2>4, <2>5
<1>4. CASE RecordPass
  <2>1. FlagInv' /\ AllGrow  BY <1>4, FlagsAndMadeStay DEF RecordPass
  <2>2. CountInv'  BY <1>4, CountsStay DEF RecordPass, Inv
  <2>3. hand["record"] \in Outgoing  BY <1>0, <1>4 DEF RecordPass, Inv, HandInv, InHand
  <2>4. hand["record"] \in Contents("Encode")'  BY <2>1, <2>3 DEF AllGrow, Contents
  <2>5. RingInv'  BY <1>0, <1>4, <2>1, <2>4, Pushes DEF RecordPass, Inv
  <2>6. NoPacket \in InHand("record", "start")'  BY DEF InHand
  <2>7. HandInv' /\ LateInv' /\ LocalInv'
    BY <1>0, <1>4, <2>1, <2>6, ThreadMoves DEF RecordPass, Places
  <2> QED  BY <2>1, <2>2, <2>5, <2>7 DEF Inv
<1> QED  BY <1>1, <1>2, <1>3, <1>4 DEF RecordThread

LEMMA EncodeKeeps ==
  ASSUME Inv, EncodeThread
  PROVE  Inv'
<1>0. "encode" \in Threads /\ "Encode" \in Queues /\ "RtpSend" \in Queues
  BY DEF Threads, Queues
<1>1. CASE TakeFromQueue("encode", "Encode", "pass")
  <2>1. FlagInv' /\ AllGrow /\ RingInv' /\ CountInv' /\ Head(queue["Encode"]) \in Contents("Encode")'
    BY <1>0, <1>1, Takes
  <2>2. Head(queue["Encode"]) \in InHand("encode", "pass")'  BY <2>1 DEF Contents, InHand
  <2>3. HandInv' /\ LateInv' /\ LocalInv'
    BY <1>0, <1>1, <2>1, <2>2, ThreadMoves DEF TakeFromQueue, Places
  <2> QED  BY <2>1, <2>3 DEF Inv
<1>2. CASE EncodePass
  <2>1. FlagInv' /\ AllGrow  BY <1>2, FlagsAndMadeStay DEF EncodePass
  <2>2. CountInv'  BY <1>2, CountsStay DEF EncodePass, Inv
  <2>3. hand["encode"] \in Outgoing  BY <1>0, <1>2 DEF EncodePass, Inv, HandInv, InHand
  <2>4. hand["encode"] \in Contents("RtpSend")'  BY <2>1, <2>3 DEF AllGrow, Contents
  <2>5. RingInv'  BY <1>0, <1>2, <2>1, <2>4, Pushes DEF EncodePass, Inv
  <2>6. NoPacket \in InHand("encode", "take")'  BY DEF InHand
  <2>7. HandInv' /\ LateInv' /\ LocalInv'
    BY <1>0, <1>2, <2>1, <2>6, ThreadMoves DEF EncodePass, Places
  <2> QED  BY <2>1, <2>2, <2>5, <2>7 DEF Inv
<1> QED  BY <1>1, <1>2 DEF EncodeThread

\* A gate that is closed drops the packet and clears the ring behind it.
LEMMA DropKeeps ==
  ASSUME Inv, NEW t \in Threads, NEW q \in Queues, Drops(t, q),
         UNCHANGED <<flags, made, sent, played, late>>
  PROVE  Inv'
<1>1. FlagInv' /\ AllGrow  BY FlagsAndMadeStay
<1>2. CountInv'  BY CountsStay DEF Inv
<1>3. <<>> \in Seq(Contents(q)') /\ Len(<<>>) <= Depth
  <2> DEFINE S == Contents(q)'
  <2> HIDE DEF S
  <2>1. <<>> \in Seq(S) /\ Len(<<>>) = 0  OBVIOUS
  <2> QED  BY <2>1, PipelineAssumption DEF S
<1>4. RingInv'  BY <1>1, <1>3, RingChanges DEF Inv, Drops
<1>5. NoPacket \in InHand(t, "take")'  BY DEF InHand
<1>6. HandInv' /\ LateInv' /\ LocalInv'
  BY <1>1, <1>5, ThreadMoves DEF Drops, Places
<1> QED  BY <1>1, <1>2, <1>4, <1>6 DEF Inv

LEMMA SendKeeps ==
  ASSUME Inv, SendThread
  PROVE  Inv'
<1>0. "send" \in Threads /\ "RtpSend" \in Queues  BY DEF Threads, Queues
<1>1. CASE TakeFromQueue("send", "RtpSend", "test")
  <2>1. FlagInv' /\ AllGrow /\ RingInv' /\ CountInv' /\ Head(queue["RtpSend"]) \in Contents("RtpSend")'
    BY <1>0, <1>1, Takes
  <2>2. Head(queue["RtpSend"]) \in InHand("send", "test")'  BY <2>1 DEF Contents, InHand
  <2>3. HandInv' /\ LateInv' /\ LocalInv'
    BY <1>0, <1>1, <2>1, <2>2, ThreadMoves DEF TakeFromQueue, Places
  <2> QED  BY <2>1, <2>3 DEF Inv
<1>2. ASSUME NEW cd \in {"LOW", "HIGH"}, SendTest(cd)
      PROVE  Inv'
  <2>1. UNCHANGED <<flags, made, sent, played, late>>  BY <1>2 DEF SendTest
  <2>2. CASE cd = "LOW" /\ CD_Trigger_flag
    <3>1. Goes("send", "pass", hand["send"]) /\ UNCHANGED queue  BY <1>2, <2>2 DEF SendTest
    <3>2. FlagInv' /\ AllGrow  BY <2>1, FlagsAndMadeStay
    <3>3. RingInv' /\ CountInv'  BY <2>1, <3>1, <3>2, RingStays, CountsStay DEF Inv
    <3>4. hand["send"] \in Outgoing  BY <1>0, <1>2 DEF SendTest, Inv, HandInv, InHand
    <3>5. hand["send"] \in InHand("send", "pass")'  BY <3>2, <3>4 DEF AllGrow, InHand
    <3>6. HandInv' /\ LateInv' /\ LocalInv'
      BY <1>0, <2>1, <2>2, <3>1, <3>2, <3>5, ThreadMoves DEF Places
    <3> QED  BY <3>2, <3>3, <3>6 DEF Inv
  <2>3. CASE ~(cd = "LOW" /\ CD_Trigger_flag)
    <3>1. Drops("send", "RtpSend")  BY <1>2, <2>3 DEF SendTest
    <3> QED  BY <1>0, <2>1, <3>1, DropKeeps
  <2> QED  BY <2>2, <2>3
<1>3. CASE SendPacket
  <2>1. FlagInv' /\ AllGrow  BY <1>3, FlagsAndMadeStay DEF SendPacket
  <2>2. RingInv'  BY <1>3, <2>1, RingStays DEF SendPacket, Inv
  <2>3. Goes("send", "take", NoPacket) /\ at["send"] = "pass"  BY <1>3 DEF SendPacket
  <2>4. NoPacket \in InHand("send", "take")'  BY DEF InHand
  <2>5. HandInv'  BY <1>0, <2>1, <2>3, <2>4, Moves DEF Inv, Places
  <2>6. at'["send"] = "take" /\ at'["decode"] = at["decode"]
    BY <1>0, <2>3 DEF Goes, Inv, HandInv, Threads
  <2>7. CountInv'
    <3>1. hand["send"] \in Mine  BY <1>0, <2>3 DEF Inv, HandInv, InHand, Outgoing
    <3>2. hand["send"].n \in Nat /\ hand["send"].n <= made["mic"]
      BY <3>1, PacketShape, BoundIsNat DEF Mine, Kept
    <3>3. sent' = hand["send"].n /\ made' = made /\ played' = played  BY <1>3 DEF SendPacket
    <3>4. made["mic"] \in Nat  BY DEF Inv, CountInv, Sources
    <3> QED  BY <3>2, <3>3, <3>4 DEF Inv, CountInv
  <2>8. LateInv'
    <3>1. late' = [late EXCEPT !["send"] = IF CD_Trigger_flag THEN late["send"] ELSE late["send"] + 1]
      BY <1>3 DEF SendPacket
    <3>2. late["send"] = 0 /\ late \in [Gates -> 0..1]  BY <2>3 DEF Inv, LateInv
    <3>3. UNCHANGED <<CD_Trigger_flag, Mulcast_Trigger_flag>>  BY <1>3 DEF SendPacket, flags
    <3> QED  BY <2>6, <3>1, <3>2, <3>3 DEF Inv, LateInv, Gates
  <2>9. LocalInv'  BY <2>6 DEF LocalInv
  <2> QED  BY <2>1, <2>2, <2>5, <2>7, <2>8, <2>9 DEF Inv
<1> QED  BY <1>1, <1>2, <1>3 DEF SendThread

LEMMA RecvKeeps ==
  ASSUME Inv, RecvThread
  PROVE  Inv'
<1>0. "recv" \in Threads /\ "net" \in Sources /\ "Decode" \in Queues
  BY DEF Threads, Sources, Queues
<1>1. CASE Wakes("recv", Mulcast_Trigger_flag)  BY <1>0, <1>1, WakesKeeps
<1>2. CASE Receive
  <2> DEFINE p == NextPacket("net", 0)
  <2>1. PushToQueue("Decode", p) /\ Goes("recv", "start", NoPacket) /\ Made("net")
        /\ UNCHANGED <<flags, late>> /\ UNCHANGED <<sent, played>>
    BY <1>2 DEF Receive
  <2>2. FlagInv' /\ AllGrow /\ p \in Kept' /\ CountInv'  BY <1>0, <2>1, Makes
  <2>3. p \in Contents("Decode")' /\ NoPacket \in InHand("recv", "start")'
    BY <2>2 DEF Contents, InHand
  <2> HIDE DEF p
  <2>4. RingInv'  BY <1>0, <2>1, <2>2, <2>3, Pushes DEF Inv
  <2>5. HandInv' /\ LateInv' /\ LocalInv'
    BY <1>0, <2>1, <2>2, <2>3, ThreadMoves DEF Places
  <2> QED  BY <2>2, <2>4, <2>5 DEF Inv
<1> QED  BY <1>1, <1>2 DEF RecvThread

LEMMA DecodeKeeps ==
  ASSUME Inv, DecodeThread
  PROVE  Inv'
<1>0. "decode" \in Threads /\ "Decode" \in Queues /\ "PlayBack" \in Queues
  BY DEF Threads, Queues
<1>1. CASE TakeFromQueue("decode", "Decode", "test")
  <2>1. FlagInv' /\ AllGrow /\ RingInv' /\ CountInv' /\ Head(queue["Decode"]) \in Contents("Decode")'
    BY <1>0, <1>1, Takes
  <2>2. Head(queue["Decode"]) \in InHand("decode", "test")'  BY <2>1 DEF Contents, InHand
  <2>3. HandInv' /\ LateInv' /\ LocalInv'
    BY <1>0, <1>1, <2>1, <2>2, ThreadMoves DEF TakeFromQueue, Places
  <2> QED  BY <2>1, <2>3 DEF Inv
<1>2. CASE DecodeTest
  <2>1. UNCHANGED <<flags, made, sent, played, late>>  BY <1>2 DEF DecodeTest
  <2>2. CASE Mulcast_Trigger_flag
    <3>1. Goes("decode", "pass", hand["decode"]) /\ UNCHANGED queue  BY <1>2, <2>2 DEF DecodeTest
    <3>2. FlagInv' /\ AllGrow  BY <2>1, FlagsAndMadeStay
    <3>3. RingInv' /\ CountInv'  BY <2>1, <3>1, <3>2, RingStays, CountsStay DEF Inv
    <3>4. hand["decode"] \in Kept  BY <1>0, <1>2 DEF DecodeTest, Inv, HandInv, InHand
    <3>5. hand["decode"] \in InHand("decode", "pass")'  BY <3>2, <3>4 DEF AllGrow, InHand
    <3>6. HandInv' /\ LateInv' /\ LocalInv'
      BY <1>0, <2>1, <2>2, <3>1, <3>2, <3>5, ThreadMoves DEF Places
    <3> QED  BY <3>2, <3>3, <3>6 DEF Inv
  <2>3. CASE ~Mulcast_Trigger_flag
    <3>1. Drops("decode", "Decode")  BY <1>2, <2>3 DEF DecodeTest
    <3> QED  BY <1>0, <2>1, <3>1, DropKeeps
  <2> QED  BY <2>2, <2>3
<1>3. CASE DecodePass
  <2>1. FlagInv' /\ AllGrow  BY <1>3, FlagsAndMadeStay DEF DecodePass
  <2>2. Goes("decode", "take", NoPacket) /\ at["decode"] = "pass"  BY <1>3 DEF DecodePass
  <2>3. hand["decode"] \in Kept  BY <1>0, <2>2 DEF Inv, HandInv, InHand
  <2>4. hand["decode"] \in Contents("PlayBack")'  BY <2>1, <2>3 DEF AllGrow, Contents
  <2>5. RingInv'  BY <1>0, <1>3, <2>1, <2>4, Pushes DEF DecodePass, Inv
  <2>6. NoPacket \in InHand("decode", "take")'  BY DEF InHand
  <2>7. HandInv'  BY <1>0, <2>1, <2>2, <2>6, Moves DEF Inv, Places
  <2>8. CountInv'  BY <1>3, CountsStay DEF DecodePass, Inv
  <2>9. at'["decode"] = "take" /\ at'["send"] = at["send"] /\ hand'["send"] = hand["send"]
    BY <1>0, <2>2 DEF Goes, Inv, HandInv, Threads
  <2>10. LateInv'
    <3>1. late' = [late EXCEPT !["decode"] =
                     IF Mulcast_Trigger_flag THEN late["decode"] ELSE late["decode"] + 1]
      BY <1>3 DEF DecodePass
    <3>2. late["decode"] = 0 /\ late \in [Gates -> 0..1]  BY <2>2 DEF Inv, LateInv
    <3>3. UNCHANGED <<CD_Trigger_flag, Mulcast_Trigger_flag>>  BY <1>3 DEF DecodePass, flags
    <3> QED  BY <2>9, <3>1, <3>2, <3>3 DEF Inv, LateInv, Gates
  <2>11. LocalInv'  BY <1>3, <2>9 DEF DecodePass, flags, Inv, LocalInv
  <2> QED  BY <2>1, <2>5, <2>7, <2>8, <2>10, <2>11 DEF Inv
<1> QED  BY <1>1, <1>2, <1>3 DEF DecodeThread

LEMMA PlayKeeps ==
  ASSUME Inv, PlayThread
  PROVE  Inv'
<1>0. "play" \in Threads /\ "PlayBack" \in Queues  BY DEF Threads, Queues
<1>1. CASE Wakes("play", playback_cond)  BY <1>0, <1>1, WakesKeeps
<1>2. CASE Play
  <2> DEFINE p == Head(queue["PlayBack"])
  <2>1. FlagInv' /\ AllGrow  BY <1>2, FlagsAndMadeStay DEF Play
  <2>2. Goes("play", "start", NoPacket) /\ UNCHANGED <<flags, late>> /\ UNCHANGED <<made, sent>>
    BY <1>2 DEF Play
  <2>3. NoPacket \in InHand("play", "start")'  BY DEF InHand
  <2>4. HandInv' /\ LateInv' /\ LocalInv'
    BY <1>0, <2>1, <2>2, <2>3, ThreadMoves DEF Places
  <2>5. CASE queue["PlayBack"] = <<>>
    <3>1. UNCHANGED <<played, queue>>  BY <1>2, <2>5 DEF Play
    <3>2. RingInv' /\ CountInv'  BY <2>1, <2>2, <3>1, RingStays, CountsStay DEF Inv
    <3> QED  BY <2>1, <2>4, <3>2 DEF Inv
  <2>6. CASE queue["PlayBack"] # <<>>
    <3>1. /\ played' = [played EXCEPT ![p.src] = p.n]
          /\ queue' = [queue EXCEPT !["PlayBack"] = Tail(queue["PlayBack"])]
      BY <1>2, <2>6 DEF Play
    <3>2. queue["PlayBack"] \in Seq(Kept) /\ Len(queue["PlayBack"]) <= Depth
      BY <1>0 DEF Inv, RingInv, Contents
    <3>3. p \in Kept /\ Tail(queue["PlayBack"]) \in Seq(Kept)
          /\ Len(Tail(queue["PlayBack"])) = Len(queue["PlayBack"]) - 1
      BY <2>6, <3>2
    <3>4. Tail(queue["PlayBack"]) \in Seq(Contents("PlayBack")')
      BY <2>1, <3>3, SeqGrows DEF AllGrow, Contents
    <3>5. Len(Tail(queue["PlayBack"])) <= Depth  BY <3>2, <3>3, PipelineAssumption
    <3>6. RingInv'  BY <1>0, <2>1, <3>1, <3>4, <3>5, RingChanges DEF Inv
    <3>7. p.src \in Sources /\ p.n \in Nat /\ p.n <= made[p.src]
      BY <3>3, PacketShape, BoundIsNat DEF Kept
    <3> HIDE DEF p
    <3>8. CountInv'  BY <2>2, <3>1, <3>7 DEF Inv, CountInv
    <3> QED  BY <2>1, <2>4, <3>6, <3>8 DEF Inv
  <2> QED  BY <2>5, <2>6
<1> QED  BY <1>1, <1>2 DEF PlayThread

-----------------------------------------------------------------------------
LEMMA InvInit ==
  ASSUME Init
  PROVE  Inv
<1>1. FlagInv
  <2>1. talk \in 0..MaxTalks /\ localTalks = {}  BY PipelineAssumption DEF Init
  <2>2. localTalks \subseteq 1..talk  BY <2>1
  <2> QED  BY <2>1, <2>2 DEF Init, FlagInv
<1>2. RingInv
  <2>1. queue = [q \in Queues |-> <<>>]  BY DEF Init
  <2>2. ASSUME NEW q \in Queues
        PROVE  queue[q] \in Seq(Contents(q)) /\ Len(queue[q]) <= Depth
    <3> DEFINE S == Contents(q)
    <3> HIDE DEF S
    <3>1. <<>> \in Seq(S) /\ Len(<<>>) = 0  OBVIOUS
    <3> QED  BY <2>1, <3>1, PipelineAssumption DEF S
  <2>3. <<>> \in Seq(Packets)  OBVIOUS
  <2> QED  BY <2>1, <2>2, <2>3 DEF RingInv
<1>3. HandInv  BY DEF Init, HandInv, InHand, Places
<1>4. CountInv  BY BoundIsNat DEF Init, CountInv, Sources
<1>5. LateInv  BY DEF Init, LateInv, Gates
<1>6. LocalInv  BY DEF Init, LocalInv
<1> QED  BY <1>1, <1>2, <1>3, <1>4, <1>5, <1>6 DEF Inv

LEMMA InvNext ==
  ASSUME Inv, [Next]_vars
  PROVE  Inv'
<1>1. CASE Next
  BY <1>1, ChannelKeeps, RecordKeeps, EncodeKeeps, SendKeeps, RecvKeeps, DecodeKeeps, PlayKeeps
  DEF Next
<1>2. CASE UNCHANGED vars
  <2>1. UNCHANGED <<flags, voice, late>>  BY <1>2 DEF vars
  <2>2. TalkGoesOn /\ FlagInv'  BY <2>1 DEF TalkGoesOn, flags, Inv, FlagInv
  <2>3. RingInv' /\ HandInv' /\ CountInv'  BY <2>1, <2>2, FlagsChange
  <2>4. LateInv' /\ LocalInv'  BY <2>1 DEF flags, voice, Inv, LateInv, LocalInv
  <2> QED  BY <2>2, <2>3, <2>4 DEF Inv
<1> QED  BY <1>1, <1>2

LEMMA InvHolds == Spec => []Inv
BY InvInit, InvNext, PTL DEF Spec

(***************************************************************************)
(* Type correctness: no ring takes more than Depth packets, a thread holds *)
(* a packet exactly between take and pass, and nothing is sent or played   *)
(* that was not recorded or received.                                      *)
(***************************************************************************)
THEOREM VoiceTypes == Spec => []TypeOK
<1>1. Inv => TypeOK
  <2> SUFFICES ASSUME Inv
               PROVE  TypeOK
    OBVIOUS
  <2>1. localTalks \subseteq 1..MaxTalks
    BY PipelineAssumption DEF Inv, FlagInv
  <2>2. ASSUME NEW q \in Queues
        PROVE  Len(queue[q]) <= Depth /\ Range(queue[q]) \subseteq Packets
    <3>1. queue[q] \in Seq(Packets) /\ Len(queue[q]) <= Depth  BY DEF Inv, RingInv
    <3> QED  BY <3>1 DEF Range
  <2>3. ASSUME NEW t \in Threads
        PROVE  IF at[t] \in {"test", "pass"} THEN hand[t] \in Packets ELSE hand[t] = NoPacket
    BY DEF Inv, HandInv, InHand, Outgoing, Mine, Kept
  <2>4. at \in [Threads -> {"start", "take", "test", "pass"}]  BY DEF Inv, HandInv, Places
  <2>5. \A s \in Sources : made[s] \in 0..Bound(s) /\ played[s] \in 0..made[s]
    BY BoundIsNat DEF Inv, CountInv
  <2>6. sent \in 0..made["mic"] /\ late \in [Gates -> Nat]  BY DEF Inv, CountInv, LateInv
  <2> QED  BY <2>1, <2>2, <2>3, <2>4, <2>5, <2>6 DEF TypeOK, Inv, FlagInv
<1> QED  BY <1>1, InvHolds, PTL

(***************************************************************************)
(* RTPsendThreadFunc and DecodeThreadFunc test their flag between taking a *)
(* packet and passing it on: one packet at most is late.                   *)
(***************************************************************************)
THEOREM AtMostOneLate == Spec => []LateIsOne
<1>1. Inv => LateIsOne  BY DEF Inv, LateInv, LateIsOne
<1> QED  BY <1>1, InvHolds, PTL

(***************************************************************************)
(* No packet of a local talk is sent while that talk is the latest: not    *)
(* even one recorded between the three writes of                           *)
(* Reset_RecordAndTimePoll_Event.                                          *)
(***************************************************************************)
THEOREM LocalTalkUnsent == Spec => LocalStaysLocal
<1>1. ASSUME Inv, SendPacket
      PROVE  hand["send"].talk \notin localTalks \/ hand["send"].talk < talk
  <2>1. at["send"] = "pass"  BY <1>1 DEF SendPacket
  <2>2. hand["send"] \in Kept  BY <1>1, <2>1 DEF Inv, HandInv, InHand, Threads, Outgoing, Mine
  <2>3. hand["send"].talk <= talk /\ hand["send"].talk \in Nat /\ talk \in Nat
    BY <1>1, <2>2, PacketShape, PipelineAssumption DEF Kept, Inv, FlagInv
  <2>4. CASE hand["send"].talk = talk  BY <1>1, <2>1, <2>4 DEF Inv, LocalInv
  <2>5. CASE hand["send"].talk # talk  BY <2>3, <2>5
  <2> QED  BY <2>4, <2>5
<1>2. Inv => [SendPacket => hand["send"].talk \notin localTalks \/ hand["send"].talk < talk]_vars
  BY <1>1
<1> QED  BY <1>2, InvHolds, PTL DEF LocalStaysLocal
=============================================================================
