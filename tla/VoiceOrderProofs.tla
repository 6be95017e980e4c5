-------------------------- MODULE VoiceOrderProofs ---------------------------
(***************************************************************************)
(* Voice keeps its order on both ways through module AudioPipeline, for    *)
(* rings of any depth and any number of packets.  A way is a sequence of   *)
(* sets of packets; a step takes packets off it and puts at most one on.   *)
(***************************************************************************)
EXTENDS AudioPipelineProofs

\* Only received packets are decoded, and only they meet the user's in the
\* playback ring.
FromNet == \A p \in Range(queue["Decode"]) \cup Held("decode") : p.src = "net"

OrderInv == InOrder /\ FromNet

-----------------------------------------------------------------------------
(***************************************************************************)
(* What a step may do to a way S: put x on at stage k, where what is ahead *)
(* comes before it and what stays behind after it; move the packet x on    *)
(* from stage k + 1 to k; or only take packets off.                        *)
(***************************************************************************)
LEMMA PutsOn ==
  ASSUME NEW S, NEW T, NEW k, NEW x, DOMAIN S = DOMAIN T, DOMAIN S \subseteq Nat,
         k \in DOMAIN S, Flows(S),
         \A i \in DOMAIN S : i # k => T[i] \subseteq S[i],
         T[k] \subseteq S[k] \cup {x},
         \A i \in DOMAIN S : i < k => \A p \in T[i] : Before(p, x),
         \A i \in DOMAIN S : k < i => \A p \in T[i] : Before(x, p)
  PROVE  Flows(T)
<1> SUFFICES ASSUME NEW i \in DOMAIN S, NEW j \in DOMAIN S, i < j, NEW p \in T[i], NEW q \in T[j]
             PROVE  Before(p, q)
  BY DEF Flows
<1>1. CASE p \in S[i] /\ q \in S[j]  BY <1>1 DEF Flows
<1>2. CASE ~(p \in S[i])
  <2>1. i = k /\ p = x  BY <1>2
  <2> QED  BY <2>1
<1>3. CASE ~(q \in S[j])
  <2>1. j = k /\ q = x  BY <1>3
  <2> QED  BY <2>1
<1> QED  BY <1>1, <1>2, <1>3

LEMMA MovesOn ==
  ASSUME NEW S, NEW T, NEW k, NEW x, DOMAIN S = DOMAIN T, DOMAIN S \subseteq Nat,
         k \in DOMAIN S, k + 1 \in DOMAIN S, x \in S[k + 1], Flows(S),
         \A i \in DOMAIN S : i # k => T[i] \subseteq S[i],
         T[k] \subseteq S[k] \cup {x},
         \A p \in T[k + 1] : Before(x, p)
  PROVE  Flows(T)
<1>1. ASSUME NEW i \in DOMAIN S, i < k, NEW p \in T[i]
      PROVE  Before(p, x)
  <2>1. p \in S[i] /\ i < k + 1  BY <1>1
  <2> QED  BY <2>1 DEF Flows
<1>2. ASSUME NEW i \in DOMAIN S, k < i, NEW p \in T[i]
      PROVE  Before(x, p)
  <2>1. CASE i = k + 1  BY <2>1
  <2>2. CASE i # k + 1
    <3>1. p \in S[i] /\ k + 1 < i  BY <1>2, <2>2
    <3> QED  BY <3>1 DEF Flows
  <2> QED  BY <2>1, <2>2
<1>3. \A i \in DOMAIN S : i < k => \A p \in T[i] : Before(p, x)  BY <1>1
<1>4. \A i \in DOMAIN S : k < i => \A p \in T[i] : Before(x, p)  BY <1>2
<1> QED  BY ONLY <1>3, <1>4, PutsOn, DOMAIN S = DOMAIN T, DOMAIN S \subseteq Nat,
         k \in DOMAIN S, Flows(S), \A i \in DOMAIN S : i # k => T[i] \subseteq S[i],
         T[k] \subseteq S[k] \cup {x}

LEMMA TakesOff ==
  ASSUME NEW S, NEW T, DOMAIN S = DOMAIN T, Flows(S),
         \A i \in DOMAIN S : T[i] \subseteq S[i]
  PROVE  Flows(T)
BY DEF Flows

-----------------------------------------------------------------------------
(***************************************************************************)
(* The stages, before and after a step.                                    *)
(***************************************************************************)
LEMMA AirStages ==
  /\ DOMAIN ToAir = {1, 2, 3, 4, 5, 6} /\ DOMAIN ToAir' = {1, 2, 3, 4, 5, 6}
  /\ ToAir[1] = {Latest("mic", sent)} /\ ToAir'[1] = {Latest("mic", sent')}
  /\ ToAir[2] = Held("send") /\ ToAir'[2] = Held("send")'
  /\ ToAir[3] = Range(queue["RtpSend"]) /\ ToAir'[3] = Range(queue'["RtpSend"])
  /\ ToAir[4] = Held("encode") /\ ToAir'[4] = Held("encode")'
  /\ ToAir[5] = Range(queue["Encode"]) /\ ToAir'[5] = Range(queue'["Encode"])
  /\ ToAir[6] = Held("record") /\ ToAir'[6] = Held("record")'
BY DEF ToAir

LEMMA SpeakerStages ==
  /\ DOMAIN ToSpeaker = {1, 2, 3, 4} /\ DOMAIN ToSpeaker' = {1, 2, 3, 4}
  /\ ToSpeaker[1] = {Latest(s, played[s]) : s \in Sources}
  /\ ToSpeaker'[1] = {Latest(s, played'[s]) : s \in Sources}
  /\ ToSpeaker[2] = Range(queue["PlayBack"]) /\ ToSpeaker'[2] = Range(queue'["PlayBack"])
  /\ ToSpeaker[3] = Held("decode") /\ ToSpeaker'[3] = Held("decode")'
  /\ ToSpeaker[4] = Range(queue["Decode"]) /\ ToSpeaker'[4] = Range(queue'["Decode"])
BY DEF ToSpeaker

LEMMA HeldAfter ==
  ASSUME HandInv, NEW t \in Threads, NEW pc, NEW p, Goes(t, pc, p)
  PROVE  /\ Held(t)' = IF pc \in {"test", "pass"} THEN {p} ELSE {}
         /\ \A u \in Threads : u # t => Held(u)' = Held(u)
BY DEF Goes, Held, HandInv

\* Everything on a way was made; only made packets are counted.
LEMMA HeldKept ==
  ASSUME HandInv, NEW t \in Threads
  PROVE  /\ Held(t) \subseteq Kept
         /\ t \in {"record", "encode", "send"} => Held(t) \subseteq Mine
BY DEF Held, HandInv, InHand, Mine, Outgoing

LEMMA RingKept ==
  ASSUME RingInv, NEW q \in Queues
  PROVE  /\ Range(queue[q]) \subseteq Kept
         /\ q \in {"Encode", "RtpSend"} => Range(queue[q]) \subseteq Mine
<1>1. queue[q] \in Seq(Contents(q))  BY DEF RingInv
<1>2. Range(queue[q]) \subseteq Contents(q)  BY <1>1 DEF Range
<1> QED  BY <1>2 DEF Contents, Outgoing, Mine

LEMMA KeptIsOlder ==
  ASSUME CountInv, NEW s \in Sources, Made(s), NEW k
  PROVE  /\ \A p \in Kept : Before(p, NextPacket(s, k))
         /\ \A r \in Sources : Before(Latest(r, played[r]), NextPacket(s, k))
         /\ Before(Latest("mic", sent), NextPacket(s, k))
<1>1. made[s] \in Nat /\ NextPacket(s, k).src = s /\ NextPacket(s, k).n = made[s] + 1
  BY DEF CountInv, NextPacket
<1>2. ASSUME NEW p \in Kept
      PROVE  Before(p, NextPacket(s, k))
  <2>1. p.n \in Nat /\ p.n <= made[p.src]  BY PacketShape, BoundIsNat DEF Kept
  <2> QED  BY <1>1, <2>1 DEF Before
<1>3. ASSUME NEW r \in Sources
      PROVE  Before(Latest(r, played[r]), NextPacket(s, k))
  <2>1. played[r] \in Nat /\ played[r] <= made[r]  BY DEF CountInv
  <2>2. Latest(r, played[r]).src = r /\ Latest(r, played[r]).n = played[r]  BY DEF Latest
  <2> QED  BY <1>1, <2>1, <2>2 DEF Before
<1>4. Before(Latest("mic", sent), NextPacket(s, k))
  <2>1. sent \in Nat /\ sent <= made["mic"]  BY DEF CountInv, Sources
  <2>2. Latest("mic", sent).src = "mic" /\ Latest("mic", sent).n = sent  BY DEF Latest
  <2> QED  BY <1>1, <2>1, <2>2 DEF Before
<1> QED  BY <1>2, <1>3, <1>4

-----------------------------------------------------------------------------
(***************************************************************************)
(* The rings: a push puts a packet behind the others, a take leaves the    *)
(* ones behind the first.                                                  *)
(***************************************************************************)
LEMMA RingAfter ==
  ASSUME RingInv, NEW q \in Queues, NEW c, queue' = [queue EXCEPT ![q] = c]
  PROVE  queue'[q] = c /\ \A r \in Queues : r # q => queue'[r] = queue[r]
BY DEF RingInv

LEMMA PushFlows ==
  ASSUME RingInv, RingsFlow, NEW q \in Queues, NEW p \in Packets, PushToQueue(q, p),
         \A y \in Range(queue[q]) : Before(y, p)
  PROVE  /\ RingsFlow'
         /\ Range(queue'[q]) \subseteq Range(queue[q]) \cup {p}
         /\ \A r \in Queues : r # q => queue'[r] = queue[r]
<1>1. PICK c \in (IF Len(queue[q]) < Depth THEN {Append(queue[q], p)} ELSE {queue[q], <<>>}) :
        queue' = [queue EXCEPT ![q] = c]
  BY DEF PushToQueue
<1>2. queue'[q] = c /\ \A r \in Queues : r # q => queue'[r] = queue[r]
  BY <1>1, RingAfter
<1> DEFINE s == queue[q]
<1>3. s \in Seq(Packets) /\ (\A y \in Range(s) : Before(y, p))
      /\ (\A i, j \in 1..Len(s) : i < j => Before(s[i], s[j]))
  BY DEF RingInv, RingsFlow
<1>4. c = Append(s, p) \/ c = s \/ c = <<>>  BY <1>1
<1> HIDE DEF s
<1>5. (\A i, j \in 1..Len(c) : i < j => Before(c[i], c[j])) /\ Range(c) \subseteq Range(s) \cup {p}
  <2>1. CASE c = s  BY <1>3, <2>1
  <2>2. CASE c = <<>>  BY <2>2 DEF Range
  <2>3. CASE c = Append(s, p)
    <3>1. Len(c) = Len(s) + 1 /\ c[Len(s) + 1] = p /\ Len(s) \in Nat
          /\ \A i \in 1..Len(s) : c[i] = s[i] /\ s[i] \in Range(s)
      BY <1>3, <2>3 DEF Range
    <3>2. DOMAIN c = 1..Len(c)  BY <1>3, <2>3
    <3>3. ASSUME NEW i \in 1..Len(c), NEW j \in 1..Len(c), i < j
          PROVE  Before(c[i], c[j])
      <4>1. i \in 1..Len(s)  BY <3>1, <3>3
      <4>2. CASE j = Len(s) + 1  BY <1>3, <3>1, <4>1, <4>2
      <4>3. CASE j # Len(s) + 1
        <5>1. j \in 1..Len(s)  BY <3>1, <4>3
        <5> QED  BY <1>3, <3>1, <3>3, <4>1, <5>1
      <4> QED  BY <4>2, <4>3
    <3>4. ASSUME NEW i \in 1..Len(c)
          PROVE  c[i] \in Range(s) \cup {p}
      BY <3>1
    <3>5. Range(c) \subseteq Range(s) \cup {p}  BY <3>2, <3>4 DEF Range
    <3> QED  BY <3>3, <3>5
  <2> QED  BY <1>4, <2>1, <2>2, <2>3
<1>6. RingsFlow'
  <2>1. ASSUME NEW r \in Queues
        PROVE  \A i, j \in 1..Len(queue'[r]) : i < j => Before(queue'[r][i], queue'[r][j])
    <3>1. CASE r = q  BY <1>2, <1>5, <3>1
    <3>2. CASE r # q  BY <1>2, <3>2 DEF RingsFlow
    <3> QED  BY <3>1, <3>2
  <2> QED  BY <2>1 DEF RingsFlow
<1> QED  BY <1>2, <1>5, <1>6 DEF s

LEMMA TakeFlows ==
  ASSUME RingInv, RingsFlow, NEW q \in Queues, queue[q] # <<>>,
         queue' = [queue EXCEPT ![q] = Tail(queue[q])]
  PROVE  /\ RingsFlow'
         /\ Head(queue[q]) \in Range(queue[q])
         /\ Range(queue'[q]) \subseteq Range(queue[q])
         /\ \A y \in Range(queue'[q]) : Before(Head(queue[q]), y)
         /\ \A r \in Queues : r # q => queue'[r] = queue[r]
<1> DEFINE s == queue[q]
           c == Tail(s)
<1>1. queue'[q] = c /\ \A r \in Queues : r # q => queue'[r] = queue[r]
  BY RingAfter
<1>2. s \in Seq(Packets) /\ s # <<>> /\ \A i, j \in 1..Len(s) : i < j => Before(s[i], s[j])
  BY DEF RingInv, RingsFlow
<1> HIDE DEF s
<1>3. /\ Len(s) \in Nat \ {0} /\ Len(c) = Len(s) - 1 /\ DOMAIN c = 1..Len(c)
      /\ Head(s) = s[1] /\ \A i \in 1..Len(c) : c[i] = s[i + 1] /\ i + 1 \in 1..Len(s)
  BY <1>2
<1>4. Head(s) \in Range(s)  BY <1>2, <1>3 DEF Range
<1> HIDE DEF c
<1>5. ASSUME NEW i \in 1..Len(c)
      PROVE  c[i] \in Range(s) /\ Before(s[1], c[i])
  <2>1. c[i] = s[i + 1] /\ i + 1 \in 1..Len(s) /\ 1 \in 1..Len(s) /\ 1 < i + 1  BY <1>3
  <2> QED  BY <1>2, <2>1 DEF Range
<1>6. Range(c) \subseteq Range(s) /\ \A y \in Range(c) : Before(Head(s), y)
  BY <1>3, <1>5 DEF Range
<1>7. ASSUME NEW i \in 1..Len(c), NEW j \in 1..Len(c), i < j
      PROVE  Before(c[i], c[j])
  BY <1>2, <1>3, <1>7
<1>8. RingsFlow'
  <2>1. ASSUME NEW r \in Queues
        PROVE  \A i, j \in 1..Len(queue'[r]) : i < j => Before(queue'[r][i], queue'[r][j])
    <3>1. CASE r = q  BY <1>1, <1>7, <3>1
    <3>2. CASE r # q  BY <1>1, <3>2 DEF RingsFlow
    <3> QED  BY <3>1, <3>2
  <2> QED  BY <2>1 DEF RingsFlow
<1> QED  BY <1>1, <1>4, <1>6, <1>8 DEF s

-----------------------------------------------------------------------------
(***************************************************************************)
(* Steps that put nothing on a way: they leave each stage or thin it out.  *)
(***************************************************************************)
LEMMA OrderThins ==
  ASSUME OrderInv, RingsFlow', sent' = sent, played' = played,
         \A q \in Queues : Range(queue'[q]) \subseteq Range(queue[q]),
         \A t \in Threads : Held(t)' \subseteq Held(t)
  PROVE  OrderInv'
<1>0. Queues = {"PlayBack", "Encode", "RtpSend", "Decode"}
      /\ {"send", "encode", "record", "decode"} \subseteq Threads
  BY DEF Queues, Threads
<1>1. Flows(ToAir)'
  <2>1. \A i \in DOMAIN ToAir : ToAir'[i] \subseteq ToAir[i]  BY <1>0, AirStages
  <2>2. Flows(ToAir) /\ DOMAIN ToAir = DOMAIN ToAir'  BY AirStages DEF OrderInv, InOrder
  <2>3. Flows(ToAir')  BY <2>1, <2>2, TakesOff
  <2> QED  BY <2>3 DEF Flows
<1>2. Flows(ToSpeaker)'
  <2>1. \A i \in DOMAIN ToSpeaker : ToSpeaker'[i] \subseteq ToSpeaker[i]  BY <1>0, SpeakerStages
  <2>2. Flows(ToSpeaker) /\ DOMAIN ToSpeaker = DOMAIN ToSpeaker'
    BY SpeakerStages DEF OrderInv, InOrder
  <2>3. Flows(ToSpeaker')  BY <2>1, <2>2, TakesOff
  <2> QED  BY <2>3 DEF Flows
<1>3. FromNet'
  <2>1. Range(queue'["Decode"]) \subseteq Range(queue["Decode"])
        /\ Held("decode")' \subseteq Held("decode")
    BY <1>0
  <2> QED  BY <2>1 DEF OrderInv, FromNet
<1> QED  BY <1>1, <1>2, <1>3 DEF OrderInv, InOrder

LEMMA RingsRest ==
  ASSUME RingsFlow, queue' = queue
  PROVE  RingsFlow' /\ \A q \in Queues : Range(queue'[q]) \subseteq Range(queue[q])
BY DEF RingsFlow

\* A thread wakes up, gets past its test with its packet, or lets it go.
LEMMA HandThins ==
  ASSUME OrderInv, HandInv, UNCHANGED <<queue, sent, played>>,
         NEW t \in Threads, NEW pc, NEW p, Goes(t, pc, p),
         pc \in {"test", "pass"} => p \in Held(t)
  PROVE  OrderInv'
<1>1. \A u \in Threads : Held(u)' \subseteq Held(u)  BY HeldAfter
<1>2. RingsFlow' /\ \A q \in Queues : Range(queue'[q]) \subseteq Range(queue[q])
  BY RingsRest DEF OrderInv, InOrder
<1> QED  BY <1>1, <1>2, OrderThins

LEMMA DropThins ==
  ASSUME OrderInv, HandInv, RingInv, NEW t \in Threads, NEW q \in Queues, Drops(t, q),
         UNCHANGED <<sent, played>>
  PROVE  OrderInv'
<1>1. Goes(t, "take", NoPacket) /\ queue' = [queue EXCEPT ![q] = <<>>]  BY DEF Drops
<1>2. \A u \in Threads : Held(u)' \subseteq Held(u)  BY <1>1, HeldAfter
<1>3. queue'[q] = <<>> /\ \A r \in Queues : r # q => queue'[r] = queue[r]
  BY <1>1, RingAfter
<1>4. \A r \in Queues : Range(queue'[r]) \subseteq Range(queue[r])
  <2>1. Range(<<>>) = {}  BY DEF Range
  <2> QED  BY <1>3, <2>1
<1>5. RingsFlow'
  <2>1. ASSUME NEW r \in Queues
        PROVE  \A i, j \in 1..Len(queue'[r]) : i < j => Before(queue'[r][i], queue'[r][j])
    <3>1. CASE r = q
      <4>1. Len(queue'[r]) = 0  BY <1>3, <3>1
      <4> QED  BY <4>1
    <3>2. CASE r # q  BY <1>3, <3>2 DEF OrderInv, InOrder, RingsFlow
    <3> QED  BY <3>1, <3>2
  <2> QED  BY <2>1 DEF RingsFlow
<1> QED  BY <1>2, <1>4, <1>5, OrderThins

-----------------------------------------------------------------------------
(***************************************************************************)
(* The user's packets on their way to the network.                         *)
(***************************************************************************)
LEMMA AirFlows ==
  ASSUME OrderInv, RingsFlow', Flows(ToAir'), played' = played,
         Range(queue'["PlayBack"]) \subseteq Range(queue["PlayBack"]),
         Range(queue'["Decode"]) \subseteq Range(queue["Decode"]),
         Held("decode")' = Held("decode")
  PROVE  OrderInv'
<1>1. Flows(ToSpeaker)'
  <2>1. \A i \in DOMAIN ToSpeaker : ToSpeaker'[i] \subseteq ToSpeaker[i]  BY SpeakerStages
  <2>2. Flows(ToSpeaker) /\ DOMAIN ToSpeaker = DOMAIN ToSpeaker'
    BY SpeakerStages DEF OrderInv, InOrder
  <2>3. Flows(ToSpeaker')  BY <2>1, <2>2, TakesOff
  <2> QED  BY <2>3 DEF Flows
<1>2. FromNet'  BY DEF OrderInv, FromNet
<1>3. Flows(ToAir)'  BY DEF Flows
<1> QED  BY <1>1, <1>2, <1>3 DEF OrderInv, InOrder

LEMMA AirIsWay ==
  ASSUME OrderInv
  PROVE  /\ Flows(ToAir) /\ DOMAIN ToAir = DOMAIN ToAir' /\ DOMAIN ToAir \subseteq Nat
         /\ 1 \in DOMAIN ToAir /\ 2 \in DOMAIN ToAir /\ 3 \in DOMAIN ToAir
         /\ 4 \in DOMAIN ToAir /\ 5 \in DOMAIN ToAir /\ 6 \in DOMAIN ToAir
BY AirStages DEF OrderInv, InOrder

\* From the ring behind stage k, k being a thread's hand.
LEMMA AirTakes ==
  ASSUME OrderInv, HandInv, RingInv,
         NEW t, NEW q, NEW pc \in {"test", "pass"}, TakeFromQueue(t, q, pc),
         <<t, q>> = <<"encode", "Encode">> \/ <<t, q>> = <<"send", "RtpSend">>
  PROVE  OrderInv'
<1>0. t \in Threads /\ q \in Queues /\ {"send", "encode", "record", "decode"} \subseteq Threads
      /\ Queues = {"PlayBack", "Encode", "RtpSend", "Decode"}
  BY DEF Threads, Queues
<1> DEFINE x == Head(queue[q])
<1>1. queue[q] # <<>> /\ queue' = [queue EXCEPT ![q] = Tail(queue[q])] /\ Goes(t, pc, x)
      /\ sent' = sent /\ played' = played
  BY DEF TakeFromQueue
<1>2. /\ RingsFlow' /\ x \in Range(queue[q]) /\ Range(queue'[q]) \subseteq Range(queue[q])
      /\ (\A y \in Range(queue'[q]) : Before(x, y))
      /\ (\A r \in Queues : r # q => queue'[r] = queue[r])
  BY <1>0, <1>1, TakeFlows DEF OrderInv, InOrder
<1> HIDE DEF x
<1>3. Held(t)' = {x} /\ \A u \in Threads : u # t => Held(u)' = Held(u)
  BY <1>0, <1>1, HeldAfter
<1>4. Flows(ToAir')
  <2>1. CASE t = "encode" /\ q = "Encode"
    <3>1. /\ x \in ToAir[4 + 1] /\ (\A p \in ToAir'[4 + 1] : Before(x, p))
          /\ ToAir'[4] \subseteq ToAir[4] \cup {x}
          /\ (\A i \in DOMAIN ToAir : i # 4 => ToAir'[i] \subseteq ToAir[i])
      BY <1>0, <1>1, <1>2, <1>3, <2>1, AirStages
    <3>2. 4 + 1 \in DOMAIN ToAir  BY AirIsWay
    <3> QED  BY <3>1, <3>2, MovesOn, AirIsWay
  <2>2. CASE t = "send" /\ q = "RtpSend"
    <3>1. /\ x \in ToAir[2 + 1] /\ (\A p \in ToAir'[2 + 1] : Before(x, p))
          /\ ToAir'[2] \subseteq ToAir[2] \cup {x}
          /\ (\A i \in DOMAIN ToAir : i # 2 => ToAir'[i] \subseteq ToAir[i])
      BY <1>0, <1>1, <1>2, <1>3, <2>2, AirStages
    <3>2. 2 + 1 \in DOMAIN ToAir  BY AirIsWay
    <3> QED  BY <3>1, <3>2, MovesOn, AirIsWay
  <2> QED  BY <2>1, <2>2
<1>5. q \notin {"PlayBack", "Decode"} /\ t # "decode"  OBVIOUS
<1> QED  BY <1>0, <1>1, <1>2, <1>3, <1>4, <1>5, AirFlows

\* From a thread's hand into the ring ahead of it.
LEMMA AirPasses ==
  ASSUME OrderInv, HandInv, RingInv, NEW t, NEW q, NEW pc \in {"start", "take"},
         at[t] = "pass", PushToQueue(q, hand[t]), Goes(t, pc, NoPacket),
         UNCHANGED <<sent, played>>,
         <<t, q>> = <<"record", "Encode">> \/ <<t, q>> = <<"encode", "RtpSend">>
  PROVE  OrderInv'
<1>0. t \in Threads /\ q \in Queues /\ {"send", "encode", "record", "decode"} \subseteq Threads
      /\ Queues = {"PlayBack", "Encode", "RtpSend", "Decode"}
  BY DEF Threads, Queues
<1> DEFINE x == hand[t]
<1>1. Held(t) = {x}  BY DEF Held
<1>2. x \in Packets  BY <1>0, <1>1, HeldKept DEF Kept
<1>3. \A y \in Range(queue[q]) : Before(y, x)
  <2>1. CASE t = "record" /\ q = "Encode"
    <3>1. x \in ToAir[6] /\ ToAir[5] = Range(queue[q])  BY <1>1, <2>1, AirStages
    <3> QED  BY <3>1, AirIsWay DEF Flows
  <2>2. CASE t = "encode" /\ q = "RtpSend"
    <3>1. x \in ToAir[4] /\ ToAir[3] = Range(queue[q])  BY <1>1, <2>2, AirStages
    <3> QED  BY <3>1, AirIsWay DEF Flows
  <2> QED  BY <2>1, <2>2
<1>4. /\ RingsFlow' /\ Range(queue'[q]) \subseteq Range(queue[q]) \cup {x}
      /\ (\A r \in Queues : r # q => queue'[r] = queue[r])
  BY <1>0, <1>2, <1>3, PushFlows DEF OrderInv, InOrder
<1> HIDE DEF x
<1>5. Held(t)' = {} /\ \A u \in Threads : u # t => Held(u)' = Held(u)
  BY <1>0, HeldAfter
<1>6. Flows(ToAir')
  <2>1. CASE t = "record" /\ q = "Encode"
    <3>1. /\ x \in ToAir[5 + 1] /\ (\A p \in ToAir'[5 + 1] : Before(x, p))
          /\ ToAir'[5] \subseteq ToAir[5] \cup {x}
          /\ (\A i \in DOMAIN ToAir : i # 5 => ToAir'[i] \subseteq ToAir[i])
      BY <1>0, <1>1, <1>4, <1>5, <2>1, AirStages
    <3>2. 5 + 1 \in DOMAIN ToAir  BY AirIsWay
    <3> QED  BY <3>1, <3>2, MovesOn, AirIsWay
  <2>2. CASE t = "encode" /\ q = "RtpSend"
    <3>1. /\ x \in ToAir[3 + 1] /\ (\A p \in ToAir'[3 + 1] : Before(x, p))
          /\ ToAir'[3] \subseteq ToAir[3] \cup {x}
          /\ (\A i \in DOMAIN ToAir : i # 3 => ToAir'[i] \subseteq ToAir[i])
      BY <1>0, <1>1, <1>4, <1>5, <2>2, AirStages
    <3>2. 3 + 1 \in DOMAIN ToAir  BY AirIsWay
    <3> QED  BY <3>1, <3>2, MovesOn, AirIsWay
  <2> QED  BY <2>1, <2>2
<1>7. q \notin {"PlayBack", "Decode"} /\ t # "decode"  OBVIOUS
<1> QED  BY <1>0, <1>4, <1>5, <1>6, <1>7, AirFlows

\* The packet sent takes the place of the one sent before.
LEMMA SendPacketFlows ==
  ASSUME OrderInv, HandInv, SendPacket
  PROVE  OrderInv'
<1>0. "send" \in Threads /\ {"encode", "record", "decode"} \subseteq Threads
      /\ {"RtpSend", "Encode", "PlayBack", "Decode"} \subseteq Queues
  BY DEF Threads, Queues
<1> DEFINE p == hand["send"]
           x == Latest("mic", sent')
<1>1. Held("send") = {p}  BY DEF Held, SendPacket
<1>2. p \in Mine  BY <1>0, <1>1, HeldKept
<1>3. Before(x, p) = FALSE /\ x.src = "mic" /\ p.src = "mic" /\ x.n = p.n
  <2>1. p.src = "mic" /\ p.n \in Nat  BY <1>2, PacketShape, BoundIsNat DEF Mine, Kept
  <2>2. x.src = "mic" /\ x.n = p.n  BY DEF SendPacket, Latest
  <2> QED  BY <2>1, <2>2 DEF Before
<1>4. \A y : Before(p, y) => Before(x, y)  BY <1>3 DEF Before
<1> HIDE DEF p
<1>5. Held("send")' = {} /\ \A u \in Threads : u # "send" => Held(u)' = Held(u)
  BY <1>0, HeldAfter DEF SendPacket
<1>6. queue' = queue /\ played' = played  BY DEF SendPacket
<1>7. RingsFlow'  BY <1>6, RingsRest DEF OrderInv, InOrder
<1>8. ToAir'[1] = {x}  BY AirStages
<1> HIDE DEF x
<1>9. Flows(ToAir')
  <2>1. /\ \A i \in DOMAIN ToAir : i # 1 => ToAir'[i] \subseteq ToAir[i]
        /\ ToAir'[2] = {} /\ p \in ToAir[2]
    BY <1>0, <1>1, <1>5, <1>6, AirStages
  <2>2. ASSUME NEW i \in DOMAIN ToAir, 1 < i, NEW y \in ToAir'[i]
        PROVE  Before(x, y)
    <3>1. i \in Nat /\ i # 2  BY <2>1, <2>2, AirIsWay
    <3>2. 2 < i /\ y \in ToAir[i]  BY <2>1, <2>2, <3>1
    <3>3. Before(p, y)  BY <2>1, <3>2, AirIsWay DEF Flows
    <3> QED  BY <1>4, <3>3
  <2>3. ASSUME NEW i \in DOMAIN ToAir
        PROVE  ~(i < 1)
    BY AirStages
  <2>4. ToAir'[1] \subseteq ToAir[1] \cup {x}  BY <1>8
  <2> QED  BY <2>1, <2>2, <2>3, <2>4, PutsOn, AirIsWay
<1> QED  BY <1>0, <1>5, <1>6, <1>7, <1>9, AirFlows

-----------------------------------------------------------------------------
(***************************************************************************)
(* The way to the loudspeaker.                                             *)
(***************************************************************************)
LEMMA SpeakerIsWay ==
  ASSUME OrderInv
  PROVE  /\ Flows(ToSpeaker) /\ DOMAIN ToSpeaker = DOMAIN ToSpeaker'
         /\ DOMAIN ToSpeaker \subseteq Nat
         /\ 1 \in DOMAIN ToSpeaker /\ 2 \in DOMAIN ToSpeaker
         /\ 3 \in DOMAIN ToSpeaker /\ 4 \in DOMAIN ToSpeaker
BY SpeakerStages DEF OrderInv, InOrder

LEMMA AirRests ==
  ASSUME OrderInv, sent' = sent,
         Range(queue'["RtpSend"]) \subseteq Range(queue["RtpSend"]),
         Range(queue'["Encode"]) \subseteq Range(queue["Encode"]),
         \A t \in {"send", "encode", "record"} : Held(t)' \subseteq Held(t)
  PROVE  Flows(ToAir)'
<1>1. \A i \in DOMAIN ToAir : ToAir'[i] \subseteq ToAir[i]  BY AirStages
<1>2. Flows(ToAir')  BY <1>1, AirIsWay, TakesOff
<1> QED  BY <1>2 DEF Flows

LEMMA RecordFlows ==
  ASSUME Inv, OrderInv, Record
  PROVE  OrderInv'
<1>0. /\ "record" \in Threads /\ {"send", "encode", "decode"} \subseteq Threads
      /\ {"RtpSend", "Encode", "PlayBack", "Decode"} \subseteq Queues /\ "mic" \in Sources
  BY DEF Threads, Queues, Sources
<1> DEFINE x == NextPacket("mic", talk)
<1>1. /\ at["record"] = "take" /\ Made("mic") /\ PushToQueue("PlayBack", x)
      /\ Goes("record", "test", x) /\ sent' = sent /\ played' = played /\ UNCHANGED flags
  BY DEF Record
<1>2. /\ (\A p \in Kept : Before(p, x)) /\ Before(Latest("mic", sent), x)
      /\ (\A r \in Sources : Before(Latest(r, played[r]), x))
  BY <1>0, <1>1, KeptIsOlder DEF Inv
<1>3. x \in Packets /\ x.src = "mic"
  <2>1. x \in Kept'  BY <1>0, <1>1, Makes
  <2> QED  BY <2>1 DEF Kept, NextPacket
<1> HIDE DEF x
<1>4. Range(queue["PlayBack"]) \subseteq Kept /\ Range(queue["RtpSend"]) \subseteq Kept
      /\ Range(queue["Encode"]) \subseteq Kept
  BY <1>0, RingKept DEF Inv
<1>5. Held("send") \subseteq Kept /\ Held("encode") \subseteq Kept  BY <1>0, HeldKept DEF Inv
<1>6. /\ RingsFlow' /\ Range(queue'["PlayBack"]) \subseteq Range(queue["PlayBack"]) \cup {x}
      /\ (\A r \in Queues : r # "PlayBack" => queue'[r] = queue[r])
  BY <1>0, <1>1, <1>2, <1>3, <1>4, PushFlows DEF Inv, OrderInv, InOrder
<1>7. Held("record")' = {x} /\ \A u \in Threads : u # "record" => Held(u)' = Held(u)
  BY <1>0, <1>1, HeldAfter DEF Inv
<1>8. FromNet'  BY <1>0, <1>6, <1>7 DEF OrderInv, FromNet
<1>9. Flows(ToAir')
  <2>1. \A i \in DOMAIN ToAir : i # 6 => ToAir'[i] \subseteq ToAir[i]
    BY <1>0, <1>1, <1>6, <1>7, AirStages
  <2>2. ToAir'[6] \subseteq ToAir[6] \cup {x}  BY <1>7, AirStages
  <2>3. ASSUME NEW i \in DOMAIN ToAir, i < 6, NEW p \in ToAir'[i]
        PROVE  Before(p, x)
    <3>1. i \in {1, 2, 3, 4, 5} /\ p \in ToAir[i]  BY <2>1, <2>3, AirStages
    <3>2. p = Latest("mic", sent) \/ p \in Kept  BY <1>4, <1>5, <3>1, AirStages
    <3> QED  BY <1>2, <3>2
  <2>4. ASSUME NEW i \in DOMAIN ToAir
        PROVE  ~(6 < i)
    BY AirStages
  <2> QED  BY <2>1, <2>2, <2>3, <2>4, PutsOn, AirIsWay
<1>10. Flows(ToSpeaker')
  <2>1. \A i \in DOMAIN ToSpeaker : i # 2 => ToSpeaker'[i] \subseteq ToSpeaker[i]
    BY <1>0, <1>1, <1>6, <1>7, SpeakerStages
  <2>2. ToSpeaker'[2] \subseteq ToSpeaker[2] \cup {x}  BY <1>6, SpeakerStages
  <2>3. ASSUME NEW i \in DOMAIN ToSpeaker, i < 2, NEW p \in ToSpeaker'[i]
        PROVE  Before(p, x)
    <3>1. i = 1 /\ p \in ToSpeaker[1]  BY <2>1, <2>3, SpeakerStages
    <3>2. PICK r \in Sources : p = Latest(r, played[r])  BY <3>1, SpeakerStages
    <3> QED  BY <1>2, <3>2
  <2>4. ASSUME NEW i \in DOMAIN ToSpeaker, 2 < i, NEW p \in ToSpeaker'[i]
        PROVE  Before(x, p)
    <3>1. i \in {3, 4} /\ p \in ToSpeaker[i]  BY <2>1, <2>4, SpeakerStages
    <3>2. p.src = "net"  BY <3>1, SpeakerStages DEF OrderInv, FromNet
    <3> QED  BY <1>3, <3>2 DEF Before
  <2> QED  BY <2>1, <2>2, <2>3, <2>4, PutsOn, SpeakerIsWay
<1>11. Flows(ToAir)' /\ Flows(ToSpeaker)'  BY <1>9, <1>10 DEF Flows
<1> QED  BY <1>6, <1>8, <1>11 DEF OrderInv, InOrder

LEMMA ReceiveFlows ==
  ASSUME Inv, OrderInv, Receive
  PROVE  OrderInv'
<1>0. /\ "recv" \in Threads /\ {"send", "encode", "record", "decode"} \subseteq Threads
      /\ {"RtpSend", "Encode", "PlayBack", "Decode"} \subseteq Queues /\ "net" \in Sources
  BY DEF Threads, Queues, Sources
<1> DEFINE x == NextPacket("net", 0)
<1>1. /\ Made("net") /\ PushToQueue("Decode", x) /\ Goes("recv", "start", NoPacket)
      /\ sent' = sent /\ played' = played /\ UNCHANGED flags
  BY DEF Receive
<1>2. /\ (\A p \in Kept : Before(p, x))
      /\ (\A r \in Sources : Before(Latest(r, played[r]), x))
  BY <1>0, <1>1, KeptIsOlder DEF Inv
<1>3. x \in Packets /\ x.src = "net"
  <2>1. x \in Kept'  BY <1>0, <1>1, Makes
  <2> QED  BY <2>1 DEF Kept, NextPacket
<1> HIDE DEF x
<1>4. Range(queue["PlayBack"]) \subseteq Kept /\ Range(queue["Decode"]) \subseteq Kept
  BY <1>0, RingKept DEF Inv
<1>5. Held("decode") \subseteq Kept  BY <1>0, HeldKept DEF Inv
<1>6. /\ RingsFlow' /\ Range(queue'["Decode"]) \subseteq Range(queue["Decode"]) \cup {x}
      /\ (\A r \in Queues : r # "Decode" => queue'[r] = queue[r])
  BY <1>0, <1>1, <1>2, <1>3, <1>4, PushFlows DEF Inv, OrderInv, InOrder
<1>7. \A u \in Threads : u # "recv" => Held(u)' = Held(u)
  BY <1>0, <1>1, HeldAfter DEF Inv
<1>8. FromNet'  BY <1>0, <1>3, <1>6, <1>7 DEF OrderInv, FromNet
<1>9. Flows(ToAir)'  BY <1>0, <1>1, <1>6, <1>7, AirRests
<1>10. Flows(ToSpeaker')
  <2>1. \A i \in DOMAIN ToSpeaker : i # 4 => ToSpeaker'[i] \subseteq ToSpeaker[i]
    BY <1>0, <1>1, <1>6, <1>7, SpeakerStages
  <2>2. ToSpeaker'[4] \subseteq ToSpeaker[4] \cup {x}  BY <1>6, SpeakerStages
  <2>3. ASSUME NEW i \in DOMAIN ToSpeaker, i < 4, NEW p \in ToSpeaker'[i]
        PROVE  Before(p, x)
    <3>1. i \in {1, 2, 3} /\ p \in ToSpeaker[i]  BY <2>1, <2>3, SpeakerStages
    <3>2. CASE i = 1
      <4>1. PICK r \in Sources : p = Latest(r, played[r])  BY <3>1, <3>2, SpeakerStages
      <4> QED  BY <1>2, <4>1
    <3>3. CASE i # 1
      <4>1. p \in Kept  BY <1>4, <1>5, <3>1, <3>3, SpeakerStages
      <4> QED  BY <1>2, <4>1
    <3> QED  BY <3>2, <3>3
  <2>4. ASSUME NEW i \in DOMAIN ToSpeaker
        PROVE  ~(4 < i)
    BY SpeakerStages
  <2> QED  BY <2>1, <2>2, <2>3, <2>4, PutsOn, SpeakerIsWay
<1>11. Flows(ToSpeaker)'  BY <1>10 DEF Flows
<1> QED  BY <1>6, <1>8, <1>9, <1>11 DEF OrderInv, InOrder

LEMMA DecodeTakes ==
  ASSUME OrderInv, HandInv, RingInv, TakeFromQueue("decode", "Decode", "test")
  PROVE  OrderInv'
<1>0. /\ "decode" \in Threads /\ {"send", "encode", "record"} \subseteq Threads
      /\ {"RtpSend", "Encode", "PlayBack", "Decode"} \subseteq Queues
  BY DEF Threads, Queues
<1> DEFINE x == Head(queue["Decode"])
<1>1. /\ queue["Decode"] # <<>> /\ queue' = [queue EXCEPT !["Decode"] = Tail(queue["Decode"])]
      /\ Goes("decode", "test", x) /\ sent' = sent /\ played' = played
  BY DEF TakeFromQueue
<1>2. /\ RingsFlow' /\ x \in Range(queue["Decode"])
      /\ Range(queue'["Decode"]) \subseteq Range(queue["Decode"])
      /\ (\A y \in Range(queue'["Decode"]) : Before(x, y))
      /\ (\A r \in Queues : r # "Decode" => queue'[r] = queue[r])
  BY <1>0, <1>1, TakeFlows DEF OrderInv, InOrder
<1> HIDE DEF x
<1>3. Held("decode")' = {x} /\ \A u \in Threads : u # "decode" => Held(u)' = Held(u)
  BY <1>0, <1>1, HeldAfter
<1>4. FromNet'  BY <1>2, <1>3 DEF OrderInv, FromNet
<1>5. Flows(ToAir)'  BY <1>0, <1>1, <1>2, <1>3, AirRests
<1>6. Flows(ToSpeaker')
  <2>1. /\ x \in ToSpeaker[3 + 1] /\ (\A p \in ToSpeaker'[3 + 1] : Before(x, p))
        /\ ToSpeaker'[3] \subseteq ToSpeaker[3] \cup {x}
        /\ (\A i \in DOMAIN ToSpeaker : i # 3 => ToSpeaker'[i] \subseteq ToSpeaker[i])
    BY <1>0, <1>1, <1>2, <1>3, SpeakerStages
  <2>2. 3 + 1 \in DOMAIN ToSpeaker  BY SpeakerIsWay
  <2> QED  BY <2>1, <2>2, MovesOn, SpeakerIsWay
<1>7. Flows(ToSpeaker)'  BY <1>6 DEF Flows
<1> QED  BY <1>2, <1>4, <1>5, <1>7 DEF OrderInv, InOrder

LEMMA DecodePassFlows ==
  ASSUME OrderInv, HandInv, RingInv, DecodePass
  PROVE  OrderInv'
<1>0. /\ "decode" \in Threads /\ {"send", "encode", "record"} \subseteq Threads
      /\ {"RtpSend", "Encode", "PlayBack", "Decode"} \subseteq Queues
  BY DEF Threads, Queues
<1> DEFINE x == hand["decode"]
<1>1. /\ at["decode"] = "pass" /\ PushToQueue("PlayBack", x) /\ Goes("decode", "take", NoPacket)
      /\ sent' = sent /\ played' = played
  BY DEF DecodePass
<1>2. Held("decode") = {x}  BY <1>1 DEF Held
<1>3. x \in Packets  BY <1>0, <1>2, HeldKept DEF Kept
<1>4. \A y \in Range(queue["PlayBack"]) : Before(y, x)
  <2>1. x \in ToSpeaker[3] /\ ToSpeaker[2] = Range(queue["PlayBack"])  BY <1>2, SpeakerStages
  <2> QED  BY <2>1, SpeakerIsWay DEF Flows
<1>5. /\ RingsFlow' /\ Range(queue'["PlayBack"]) \subseteq Range(queue["PlayBack"]) \cup {x}
      /\ (\A r \in Queues : r # "PlayBack" => queue'[r] = queue[r])
  BY <1>0, <1>1, <1>3, <1>4, PushFlows DEF OrderInv, InOrder
<1> HIDE DEF x
<1>6. Held("decode")' = {} /\ \A u \in Threads : u # "decode" => Held(u)' = Held(u)
  BY <1>0, <1>1, HeldAfter
<1>7. FromNet'  BY <1>0, <1>5, <1>6 DEF OrderInv, FromNet
<1>8. Flows(ToAir)'  BY <1>0, <1>1, <1>5, <1>6, AirRests
<1>9. Flows(ToSpeaker')
  <2>1. /\ x \in ToSpeaker[2 + 1] /\ (\A p \in ToSpeaker'[2 + 1] : Before(x, p))
        /\ ToSpeaker'[2] \subseteq ToSpeaker[2] \cup {x}
        /\ (\A i \in DOMAIN ToSpeaker : i # 2 => ToSpeaker'[i] \subseteq ToSpeaker[i])
    BY <1>0, <1>1, <1>2, <1>5, <1>6, SpeakerStages
  <2>2. 2 + 1 \in DOMAIN ToSpeaker  BY SpeakerIsWay
  <2> QED  BY <2>1, <2>2, MovesOn, SpeakerIsWay
<1>10. Flows(ToSpeaker)'  BY <1>9 DEF Flows
<1> QED  BY <1>5, <1>7, <1>8, <1>10 DEF OrderInv, InOrder

\* The packet played takes the place of the one of its source played before.
LEMMA PlayFlows ==
  ASSUME Inv, OrderInv, Play
  PROVE  OrderInv'
<1>0. /\ "play" \in Threads /\ {"send", "encode", "record", "decode"} \subseteq Threads
      /\ {"RtpSend", "Encode", "PlayBack", "Decode"} \subseteq Queues
  BY DEF Threads, Queues
<1>1. Goes("play", "start", NoPacket) /\ sent' = sent  BY DEF Play
<1>2. CASE queue["PlayBack"] = <<>>
  <2>1. UNCHANGED <<queue, sent, played>>  BY <1>1, <1>2 DEF Play
  <2> QED  BY <1>0, <1>1, <2>1, HandThins DEF Inv
<1>3. CASE queue["PlayBack"] # <<>>
  <2> DEFINE p == Head(queue["PlayBack"])
             x == Latest(p.src, p.n)
  <2>1. /\ played' = [played EXCEPT ![p.src] = p.n]
        /\ queue' = [queue EXCEPT !["PlayBack"] = Tail(queue["PlayBack"])]
    BY <1>3 DEF Play
  <2>2. /\ RingsFlow' /\ p \in Range(queue["PlayBack"])
        /\ Range(queue'["PlayBack"]) \subseteq Range(queue["PlayBack"])
        /\ (\A y \in Range(queue'["PlayBack"]) : Before(p, y))
        /\ (\A r \in Queues : r # "PlayBack" => queue'[r] = queue[r])
    BY <1>0, <1>3, <2>1, TakeFlows DEF Inv, OrderInv, InOrder
  <2>3. p \in Packets  BY <1>0, <2>2, RingKept DEF Inv, Kept
  <2> HIDE DEF p
  <2>4. p.src \in Sources  BY <2>3, PacketShape
  <2>5. x.src = p.src /\ x.n = p.n  BY DEF Latest
  <2>6. \A y : Before(p, y) => Before(x, y)  BY <2>5 DEF Before
  <2>7. \A u \in Threads : u # "play" => Held(u)' = Held(u)  BY <1>0, <1>1, HeldAfter DEF Inv
  <2>8. FromNet'  BY <1>0, <2>2, <2>7 DEF OrderInv, FromNet
  <2>9. Flows(ToAir)'  BY <1>0, <1>1, <2>2, <2>7, AirRests
  <2>10. ToSpeaker'[1] \subseteq ToSpeaker[1] \cup {x}
    <3>1. ASSUME NEW r \in Sources
          PROVE  Latest(r, played'[r]) \in ToSpeaker[1] \cup {x}
      <4>1. played \in [Sources -> Nat]  BY DEF Inv, CountInv
      <4>2. CASE r = p.src
        <5>1. played'[r] = p.n  BY <2>1, <4>1, <4>2
        <5> QED  BY <4>2, <5>1
      <4>3. CASE r # p.src
        <5>1. played'[r] = played[r]  BY <2>1, <4>1, <4>3
        <5> QED  BY <5>1, SpeakerStages
      <4> QED  BY <4>2, <4>3
    <3> QED  BY <3>1, SpeakerStages
  <2> HIDE DEF x
  <2>11. Flows(ToSpeaker')
    <3>1. \A i \in DOMAIN ToSpeaker : i # 1 => ToSpeaker'[i] \subseteq ToSpeaker[i]
      BY <1>0, <2>2, <2>7, SpeakerStages
    <3>2. ASSUME NEW i \in DOMAIN ToSpeaker, 1 < i, NEW y \in ToSpeaker'[i]
          PROVE  Before(x, y)
      <4>1. CASE i = 2
        <5>1. y \in Range(queue'["PlayBack"])  BY <3>2, <4>1, SpeakerStages
        <5> QED  BY <2>2, <2>6, <5>1
      <4>2. CASE i # 2
        <5>1. i \in {3, 4} /\ y \in ToSpeaker[i]  BY <3>1, <3>2, <4>2, SpeakerStages
        <5>2. 2 < i /\ p \in ToSpeaker[2]  BY <2>2, <5>1, SpeakerStages
        <5>3. Before(p, y)  BY <5>1, <5>2, SpeakerIsWay DEF Flows
        <5> QED  BY <2>6, <5>3
      <4> QED  BY <4>1, <4>2
    <3>3. ASSUME NEW i \in DOMAIN ToSpeaker
          PROVE  ~(i < 1)
      BY SpeakerStages
    <3> QED  BY <2>10, <3>1, <3>2, <3>3, PutsOn, SpeakerIsWay
  <2>12. Flows(ToSpeaker)'  BY <2>11 DEF Flows
  <2> QED  BY <2>2, <2>8, <2>9, <2>12 DEF OrderInv, InOrder
<1> QED  BY <1>2, <1>3

-----------------------------------------------------------------------------
LEMMA OrderInit ==
  ASSUME Init
  PROVE  OrderInv
<1>0. /\ {"send", "encode", "record", "decode"} \subseteq Threads
      /\ Queues = {"RtpSend", "Encode", "PlayBack", "Decode"}
  BY DEF Threads, Queues
<1>1. \A q \in Queues : queue[q] = <<>> /\ Range(queue[q]) = {}  BY DEF Init, Range
<1>2. \A t \in Threads : Held(t) = {}  BY DEF Init, Held
<1>3. RingsFlow
  <2>1. \A q \in Queues : Len(queue[q]) = 0  BY <1>1
  <2> QED  BY <2>1 DEF RingsFlow
<1>4. Flows(ToAir)
  <2>1. \A i \in DOMAIN ToAir : i # 1 => ToAir[i] = {}  BY <1>0, <1>1, <1>2, AirStages
  <2>2. DOMAIN ToAir \subseteq Nat /\ \A j \in DOMAIN ToAir : ~(j < 1)  BY AirStages
  <2> QED  BY <2>1, <2>2 DEF Flows
<1>5. Flows(ToSpeaker)
  <2>1. \A i \in DOMAIN ToSpeaker : i # 1 => ToSpeaker[i] = {}
    BY <1>0, <1>1, <1>2, SpeakerStages
  <2>2. DOMAIN ToSpeaker \subseteq Nat /\ \A j \in DOMAIN ToSpeaker : ~(j < 1)  BY SpeakerStages
  <2> QED  BY <2>1, <2>2 DEF Flows
<1>6. FromNet  BY <1>0, <1>1, <1>2 DEF FromNet
<1> QED  BY <1>3, <1>4, <1>5, <1>6 DEF OrderInv, InOrder

\* Steps that touch neither a packet nor a count.
LEMMA VoiceRests ==
  ASSUME OrderInv, UNCHANGED voice
  PROVE  OrderInv'
<1>1. UNCHANGED <<queue, at, hand, sent, played>>  BY DEF voice
<1>2. \A t \in Threads : Held(t)' \subseteq Held(t)  BY <1>1 DEF Held
<1>3. RingsFlow' /\ \A q \in Queues : Range(queue'[q]) \subseteq Range(queue[q])
  BY <1>1, RingsRest DEF OrderInv, InOrder
<1> QED  BY <1>1, <1>2, <1>3, OrderThins

LEMMA OrderNext ==
  ASSUME Inv, OrderInv, [Next]_vars
  PROVE  OrderInv'
<1> USE DEF Inv
<1>0. {"record", "encode", "send", "recv", "decode", "play"} \subseteq Threads
      /\ {"PlayBack", "Encode", "RtpSend", "Decode"} \subseteq Queues
  BY DEF Threads, Queues
<1>1. CASE Channel
  BY <1>1, VoiceRests DEF Channel, StayLocal, BeginTalk, EndTalk, EndTalkSendable,
     EndTalkEvents, BeginListening, EndListening
<1>2. ASSUME NEW t \in Threads, NEW cond, Wakes(t, cond)
      PROVE  OrderInv'
  BY <1>2, HandThins DEF Wakes
<1>3. CASE RecordThread
  <2>1. CASE RecordTest
    <3>1. UNCHANGED <<queue, sent, played>> /\ hand["record"] \in Held("record")
      BY <2>1 DEF RecordTest, Held
    <3>2. Goes("record", "start", NoPacket) \/ Goes("record", "pass", hand["record"])
      BY <2>1 DEF RecordTest
    <3>3. CASE Goes("record", "start", NoPacket)  BY <1>0, <3>1, <3>3, HandThins
    <3>4. CASE Goes("record", "pass", hand["record"])  BY <1>0, <3>1, <3>4, HandThins
    <3> QED  BY <3>2, <3>3, <3>4
  <2>2. CASE RecordPass  BY <2>2, AirPasses DEF RecordPass
  <2> QED  BY <1>0, <1>2, <1>3, <2>1, <2>2, RecordFlows DEF RecordThread
<1>4. CASE EncodeThread
  <2>1. CASE EncodePass  BY <2>1, AirPasses DEF EncodePass
  <2> QED  BY <1>4, <2>1, AirTakes DEF EncodeThread
<1>5. CASE SendThread
  <2>1. ASSUME NEW cd \in {"LOW", "HIGH"}, SendTest(cd)
        PROVE  OrderInv'
    <3>1. UNCHANGED <<sent, played>> /\ hand["send"] \in Held("send")
      BY <2>1 DEF SendTest, Held
    <3>2. CASE Goes("send", "pass", hand["send"]) /\ UNCHANGED queue
      BY <1>0, <3>1, <3>2, HandThins
    <3>3. CASE Drops("send", "RtpSend")  BY <1>0, <3>1, <3>3, DropThins
    <3> QED  BY <2>1, <3>2, <3>3 DEF SendTest
  <2> QED  BY <1>5, <2>1, AirTakes, SendPacketFlows DEF SendThread
<1>6. CASE RecvThread  BY <1>0, <1>2, <1>6, ReceiveFlows DEF RecvThread
<1>7. CASE DecodeThread
  <2>1. CASE DecodeTest
    <3>1. UNCHANGED <<sent, played>> /\ hand["decode"] \in Held("decode")
      BY <2>1 DEF DecodeTest, Held
    <3>2. CASE Goes("decode", "pass", hand["decode"]) /\ UNCHANGED queue
      BY <1>0, <3>1, <3>2, HandThins
    <3>3. CASE Drops("decode", "Decode")  BY <1>0, <3>1, <3>3, DropThins
    <3> QED  BY <2>1, <3>2, <3>3 DEF DecodeTest
  <2> QED  BY <1>7, <2>1, DecodeTakes, DecodePassFlows DEF DecodeThread
<1>8. CASE PlayThread  BY <1>0, <1>2, <1>8, PlayFlows DEF PlayThread
<1>9. CASE UNCHANGED vars  BY <1>9, VoiceRests DEF vars
<1> QED  BY <1>1, <1>3, <1>4, <1>5, <1>6, <1>7, <1>8, <1>9 DEF Next

(***************************************************************************)
(* Through the three rings and threads of each way, with rings cleared and *)
(* overrun meanwhile, voice keeps its order and no packet is sent or       *)
(* played twice.                                                           *)
(***************************************************************************)
THEOREM VoiceInOrder == Spec => []InOrder
<1>1. Init => OrderInv  BY OrderInit
<1>2. Inv /\ OrderInv /\ [Next]_vars => OrderInv'  BY OrderNext
<1>3. OrderInv => InOrder  BY DEF OrderInv
<1> QED  BY <1>1, <1>2, <1>3, InvHolds, PTL DEF Spec
=============================================================================
