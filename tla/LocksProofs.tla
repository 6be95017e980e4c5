----------------------------- MODULE LocksProofs -----------------------------
(***************************************************************************)
(* Proofs about Locks.  That every job keeps a discipline is shown once,   *)
(* by the way it is put together from sections; that threads which keep it *)
(* wait in no circle, and touch the maps one after the other, is shown for *)
(* every interleaving of them.                                             *)
(***************************************************************************)
EXTENDS Locks, Integers, SequenceTheorems, TLAPS

Ops ==
  { Op(kind, m) : kind \in {"lock", "unlock"}, m \in Mutexes }
    \cup { Op(kind, x) : kind \in {"read", "write"}, x \in Containers }

(***************************************************************************)
(* The discipline: what a thread in role t may do while it holds the       *)
(* mutexes of G.  A thread's role is its name, but for the RTP-send thread *)
(* after its loop, whose role is "ending".  Mutexes are taken  *)
(* upwards, but for m_onDataLocker on a master, under which the receive    *)
(* thread takes m_mapLocker and which it takes under m_mapLocker: only the *)
(* silence monitor takes it besides.                                       *)
(***************************************************************************)
Rank ==
  [m \in Mutexes |-> CASE m = "map_mutex" -> 4 [] m = "m_mapLocker" -> 3
                       [] m = "flag_mutex" -> 2 [] OTHER -> 1]

MonitorsSilence(master, t) == master /\ Silence /\ t = "alive"

MayLock(master, t, G, m) ==
  /\ m \notin G
  /\ master /\ m = "m_onDataLocker" => t = "udp_recv" \/ MonitorsSilence(master, t)
  /\ ~master \/ m # "m_onDataLocker" => \A g \in G : Rank[g] < Rank[m]

MayTouch(master, t, G, kind, x) ==
  IF x = "sessionmap"
  THEN ("map_mutex" \in G /\ t \in {"udp_recv", "alive", "rtp_send"}) \/ t = "ending"
  ELSE IF kind = "write"
  THEN "m_mapLocker" \in G /\ (t = "udp_recv" \/ MonitorsSilence(master, t))
  ELSE "m_mapLocker" \in G \/ t = "udp_recv" \/ (t = "monitor" /\ ~master)

Allowed(master, t, G, op) ==
  /\ op[1] = "lock" => MayLock(master, t, G, op[2])
  /\ op[1] = "unlock" => op[2] \in G
  /\ op[1] \in {"read", "write"} => MayTouch(master, t, G, op[1], op[2])

\* The mutexes held after op.
After(G, op) ==
  IF op[1] = "lock" THEN G \cup {op[2]} ELSE IF op[1] = "unlock" THEN G \ {op[2]} ELSE G

(***************************************************************************)
(* A thread that holds G may do s and then holds K.  R relates what it     *)
(* holds to what it still has to do, all the way to the end.               *)
(***************************************************************************)
Leads(master, t, R, K) ==
  \A G \in SUBSET Mutexes, s \in Seq(Ops) :
    <<G, s>> \in R =>
      IF s = <<>> THEN G = K
      ELSE Allowed(master, t, G, Head(s)) /\ <<After(G, Head(s)), Tail(s)>> \in R

Keeps(master, t, G, s, K) ==
  /\ G \in SUBSET Mutexes /\ K \in SUBSET Mutexes /\ s \in Seq(Ops)
  /\ \E R \in SUBSET ((SUBSET Mutexes) \X Seq(Ops)) : <<G, s>> \in R /\ Leads(master, t, R, K)

LEMMA AfterRange ==
  ASSUME NEW G \in SUBSET Mutexes, NEW op \in Ops
  PROVE  After(G, op) \in SUBSET Mutexes
<1>1. CASE op \in { Op(kind, m) : kind \in {"lock", "unlock"}, m \in Mutexes }
  <2>1. PICK kind \in {"lock", "unlock"}, m \in Mutexes : op = <<kind, m>>
    BY <1>1 DEF Op
  <2> QED
    BY <2>1 DEF After
<1>2. CASE op \in { Op(kind, x) : kind \in {"read", "write"}, x \in Containers }
  <2>1. PICK kind \in {"read", "write"}, x \in Containers : op = <<kind, x>>
    BY <1>2 DEF Op
  <2> QED
    BY <2>1 DEF After
<1> QED
  BY <1>1, <1>2 DEF Ops

-----------------------------------------------------------------------------
(***************************************************************************)
(* Sequences that keep the discipline, from the parts they are made of.    *)
(***************************************************************************)
LEMMA KeepsNothing ==
  ASSUME NEW master, NEW t, NEW G \in SUBSET Mutexes
  PROVE  Keeps(master, t, G, <<>>, G)
<1> DEFINE R == { <<G, <<>> >> }
<1>1. R \in SUBSET ((SUBSET Mutexes) \X Seq(Ops)) /\ <<G, <<>> >> \in R
  <2>1. <<>> \in Seq(Ops)
    BY EmptySeq
  <2>2. <<G, <<>> >> \in (SUBSET Mutexes) \X Seq(Ops)
    BY <2>1
  <2> QED
    BY <2>2, Zenon
<1>2. Leads(master, t, R, G)
  BY DEF Leads
<1> HIDE DEF R
<1> QED
  BY <1>1, <1>2 DEF Keeps

LEMMA KeepsOp ==
  ASSUME NEW master, NEW t, NEW G \in SUBSET Mutexes, NEW op \in Ops, Allowed(master, t, G, op)
  PROVE  Keeps(master, t, G, <<op>>, After(G, op))
<1> DEFINE R == { <<G, <<op>> >>, <<After(G, op), <<>> >> }
<1>1. After(G, op) \in SUBSET Mutexes /\ <<op>> \in Seq(Ops) /\ <<op>> # <<>>
  BY AfterRange
<1>2. Head(<<op>>) = op /\ Tail(<<op>>) = <<>>
  OBVIOUS
<1>3. R \in SUBSET ((SUBSET Mutexes) \X Seq(Ops)) /\ <<G, <<op>> >> \in R
  <2>1. <<>> \in Seq(Ops)
    BY EmptySeq
  <2>2. /\ <<G, <<op>> >> \in (SUBSET Mutexes) \X Seq(Ops)
        /\ <<After(G, op), <<>> >> \in (SUBSET Mutexes) \X Seq(Ops)
    BY <1>1, <2>1
  <2> QED
    BY <2>2, Zenon
<1>4. Leads(master, t, R, After(G, op))
  <2> SUFFICES ASSUME NEW H \in SUBSET Mutexes, NEW s \in Seq(Ops), <<H, s>> \in R
               PROVE  IF s = <<>> THEN H = After(G, op)
                      ELSE /\ Allowed(master, t, H, Head(s))
                           /\ <<After(H, Head(s)), Tail(s)>> \in R
    BY DEF Leads
  <2>1. CASE H = G /\ s = <<op>>
    BY <1>1, <1>2, <2>1
  <2>2. CASE H = After(G, op) /\ s = <<>>
    BY <2>2
  <2> QED
    BY <2>1, <2>2
<1> HIDE DEF R
<1> QED
  BY <1>1, <1>3, <1>4 DEF Keeps

LEMMA KeepsThen ==
  ASSUME NEW master, NEW t, NEW G, NEW K, NEW L, NEW a, NEW b,
         Keeps(master, t, G, a, K), Keeps(master, t, K, b, L)
  PROVE  Keeps(master, t, G, a \o b, L)
<1> DEFINE Pairs == (SUBSET Mutexes) \X Seq(Ops)
<1>1. PICK A \in SUBSET Pairs : <<G, a>> \in A /\ Leads(master, t, A, K)
  BY DEF Keeps
<1>2. PICK B \in SUBSET Pairs : <<K, b>> \in B /\ Leads(master, t, B, L)
  BY DEF Keeps
<1>3. /\ G \in SUBSET Mutexes /\ K \in SUBSET Mutexes /\ L \in SUBSET Mutexes
      /\ a \in Seq(Ops) /\ b \in Seq(Ops)
  BY DEF Keeps
<1> DEFINE R == { p \in Pairs : p \in B \/ \E u \in Seq(Ops) : <<p[1], u>> \in A /\ p[2] = u \o b }
<1>4. a \o b \in Seq(Ops) /\ <<G, a \o b>> \in R
  <2>1. a \o b \in Seq(Ops) 
    BY <1>3, ConcatProperties
  <2> QED
    BY <1>1, <1>3, <2>1
<1>5. Leads(master, t, R, L)
  <2> SUFFICES ASSUME NEW H \in SUBSET Mutexes, NEW s \in Seq(Ops), <<H, s>> \in R
               PROVE  IF s = <<>> THEN H = L
                      ELSE /\ Allowed(master, t, H, Head(s))
                           /\ <<After(H, Head(s)), Tail(s)>> \in R
    BY DEF Leads
  <2>1. ASSUME <<H, s>> \in B
        PROVE  IF s = <<>> THEN H = L
               ELSE /\ Allowed(master, t, H, Head(s))
                    /\ <<After(H, Head(s)), Tail(s)>> \in B
    BY <1>2, <2>1 DEF Leads
  <2>2. CASE <<H, s>> \in B
    <3>1. CASE s = <<>>
      BY <2>1, <2>2, <3>1
    <3>2. CASE s # <<>>
      <4>1. /\ Allowed(master, t, H, Head(s))
            /\ <<After(H, Head(s)), Tail(s)>> \in B
        BY <2>1, <2>2, <3>2
      <4>2. <<After(H, Head(s)), Tail(s)>> \in R
        BY <4>1
      <4> QED
        BY <3>2, <4>1, <4>2
    <3> QED
      BY <3>1, <3>2
  <2>3. ASSUME NEW u \in Seq(Ops), <<H, u>> \in A, s = u \o b
        PROVE  IF s = <<>> THEN H = L
               ELSE /\ Allowed(master, t, H, Head(s))
                    /\ <<After(H, Head(s)), Tail(s)>> \in R
    <3>1. CASE u = <<>>
      <4>1. s = b
        BY <1>3, <2>3, <3>1
      <4>2. H = K
        BY <1>1, <2>3, <3>1 DEF Leads
      <4> QED
        BY <1>2, <2>2, <4>1, <4>2
    <3>2. CASE u # <<>>
      <4>1. /\ Head(u) \in Ops /\ Tail(u) \in Seq(Ops)
            /\ s # <<>> /\ Head(s) = Head(u) /\ Tail(s) = Tail(u) \o b
        BY <1>3, <2>3, <3>2
      <4>2. Allowed(master, t, H, Head(u)) /\ <<After(H, Head(u)), Tail(u)>> \in A
        BY <1>1, <2>3, <3>2 DEF Leads
      <4>3. <<After(H, Head(u)), Tail(u) \o b>> \in R
        <5>1. <<After(H, Head(u)), Tail(u) \o b>> \in Pairs
          <6>1. Tail(u) \o b \in Seq(Ops)
            BY <1>3, <4>1
          <6> QED
            BY <4>1, <6>1, AfterRange
        <5> QED
          BY <4>2, <5>1
      <4> QED
        BY <4>1, <4>2, <4>3
    <3> QED
      BY <3>1, <3>2
  <2>4. ASSUME <<H, s>> \notin B PROVE \E u \in Seq(Ops) : <<H, u>> \in A /\ s = u \o b
    BY <2>4
  <2> QED
    BY <2>2, <2>3, <2>4
<1>6. R \in SUBSET Pairs
  OBVIOUS
<1> QED
  BY <1>3, <1>4, <1>5, <1>6 DEF Keeps

LEMMA KeepsUnder ==
  ASSUME NEW master, NEW t, NEW K \in SUBSET Mutexes, NEW m \in Mutexes, NEW s,
         MayLock(master, t, K, m), Keeps(master, t, K \cup {m}, s, K \cup {m})
  PROVE  Keeps(master, t, K, Under(m, s), K)
<1>1. Op("lock", m) \in Ops /\ Op("unlock", m) \in Ops
  BY DEF Ops
<1>2. After(K, Op("lock", m)) = K \cup {m} /\ Allowed(master, t, K, Op("lock", m))
  BY DEF After, Allowed, Op
<1>3. /\ After(K \cup {m}, Op("unlock", m)) = K
      /\ Allowed(master, t, K \cup {m}, Op("unlock", m))
  BY DEF After, Allowed, Op, MayLock
<1>4. Keeps(master, t, K, << Op("lock", m) >>, K \cup {m})
  BY <1>1, <1>2, KeepsOp
<1>5. Keeps(master, t, K \cup {m}, << Op("unlock", m) >>, K)
  BY <1>1, <1>3, KeepsOp, K \cup {m} \in SUBSET Mutexes
<1>6. Keeps(master, t, K, << Op("lock", m) >> \o s, K \cup {m})
  BY <1>4, KeepsThen
<1> QED
  BY <1>5, <1>6, KeepsThen DEF Under

LEMMA KeepsTouch ==
  ASSUME NEW master, NEW t, NEW K \in SUBSET Mutexes, NEW kind \in {"read", "write"},
         NEW x \in Containers, MayTouch(master, t, K, kind, x)
  PROVE  Keeps(master, t, K, << Op(kind, x) >>, K)
<1>1. Op(kind, x) \in Ops /\ After(K, Op(kind, x)) = K /\ Allowed(master, t, K, Op(kind, x))
  BY DEF Ops, After, Allowed, Op
<1> QED
  BY <1>1, KeepsOp

-----------------------------------------------------------------------------
(***************************************************************************)
(* What a thread under the discipline does next is allowed, and leaves it  *)
(* under the discipline; at the end it holds nothing more.                 *)
(***************************************************************************)
LEMMA KeepsOn ==
  ASSUME NEW master, NEW t, NEW G, NEW s, NEW K, Keeps(master, t, G, s, K), s # <<>>
  PROVE  /\ Head(s) \in Ops
         /\ Allowed(master, t, G, Head(s))
         /\ Keeps(master, t, After(G, Head(s)), Tail(s), K)
<1>1. /\ G \in SUBSET Mutexes /\ K \in SUBSET Mutexes /\ s \in Seq(Ops)
      /\ Head(s) \in Ops /\ Tail(s) \in Seq(Ops)
  BY DEF Keeps
<1>2. PICK R \in SUBSET ((SUBSET Mutexes) \X Seq(Ops)) : <<G, s>> \in R /\ Leads(master, t, R, K)
  BY DEF Keeps
<1>3. Allowed(master, t, G, Head(s)) /\ <<After(G, Head(s)), Tail(s)>> \in R
  BY <1>1, <1>2 DEF Leads
<1> QED
  BY <1>1, <1>2, <1>3, AfterRange DEF Keeps

LEMMA KeepsEnd ==
  ASSUME NEW master, NEW t, NEW G, NEW K, Keeps(master, t, G, <<>>, K)
  PROVE  G = K
BY DEF Keeps, Leads

-----------------------------------------------------------------------------
(***************************************************************************)
(* Every job of every thread keeps the discipline, from holding nothing to *)
(* holding nothing.                                                        *)
(***************************************************************************)
LEMMA Ranks ==
  /\ Rank["m_aliveLocker"] = 1 /\ Rank["m_onDataLocker"] = 1 /\ Rank["m_statusLocker"] = 1
  /\ Rank["flag_mutex"] = 2 /\ Rank["m_mapLocker"] = 3 /\ Rank["map_mutex"] = 4
BY DEF Rank, Mutexes

\* A section that reads slavemap under its lock (Sendmap2Slave, TellSlaves).
LEMMA KeepsMapRead ==
  ASSUME NEW master, NEW t, NEW K \in SUBSET Mutexes, MayLock(master, t, K, "m_mapLocker")
  PROVE  Keeps(master, t, K, Under("m_mapLocker", Reads("slavemap")), K)
<1> DEFINE H == K \cup {"m_mapLocker"}
<1>1. H \in SUBSET Mutexes /\ "m_mapLocker" \in Mutexes /\ "slavemap" \in Containers
  BY DEF Mutexes, Containers
<1>2. MayTouch(master, t, H, "read", "slavemap")
  BY DEF MayTouch
<1>3. Keeps(master, t, H, Reads("slavemap"), H)
  BY <1>1, <1>2, KeepsTouch DEF Reads
<1> QED
  BY <1>1, <1>3, KeepsUnder

\* A section under one mutex that touches neither map.
LEMMA KeepsEmpty ==
  ASSUME NEW master, NEW t, NEW K \in SUBSET Mutexes, NEW m \in Mutexes,
         MayLock(master, t, K, m)
  PROVE  Keeps(master, t, K, Under(m, <<>>), K)
<1>1. Keeps(master, t, K \cup {m}, <<>>, K \cup {m})
  BY KeepsNothing
<1> QED
  BY <1>1, KeepsUnder

LEMMA KeepsCreate ==
  ASSUME NEW master, NEW t \in {"udp_recv", "alive"}, NEW K \in SUBSET Mutexes,
         MayLock(master, t, K, "map_mutex")
  PROVE  Keeps(master, t, K, RtpSessionCreate, K)
<1> DEFINE H == K \cup {"map_mutex"}
<1>1. H \in SUBSET Mutexes /\ "map_mutex" \in Mutexes /\ "sessionmap" \in Containers
  BY DEF Mutexes, Containers
<1>2. MayTouch(master, t, H, "write", "sessionmap")
  BY DEF MayTouch
<1>3. Keeps(master, t, H, Writes("sessionmap"), H)
  BY <1>1, <1>2, KeepsTouch DEF Writes
<1> QED
  BY <1>1, <1>3, KeepsUnder DEF RtpSessionCreate

\* The callback that makes and closes sessions.
LEMMA KeepsOnCreate ==
  ASSUME NEW master, NEW t \in {"udp_recv", "alive"}, NEW K \in SUBSET Mutexes,
         MayLock(master, t, K, "m_onDataLocker"), "map_mutex" \notin K
  PROVE  Keeps(master, t, K, OnData(RtpSessionCreate), K)
<1> DEFINE H == K \cup {"m_onDataLocker"}
<1>1. H \in SUBSET Mutexes /\ "m_onDataLocker" \in Mutexes
  BY DEF Mutexes
<1>2. \A g \in H : Rank[g] < 4
  BY Ranks DEF Mutexes
<1>3. MayLock(master, t, H, "map_mutex")
  BY <1>2, Ranks DEF MayLock
<1>4. Keeps(master, t, H, RtpSessionCreate, H)
  BY <1>1, <1>3, KeepsCreate
<1> QED
  BY <1>1, <1>4, KeepsUnder DEF OnData

\* The change of slavemap with which a registration, a heartbeat of an unknown
\* sender and the silence monitor begin; the callback follows under the lock.
LEMMA KeepsMapChange ==
  ASSUME NEW t, NEW K \in SUBSET Mutexes, MayLock(TRUE, t, K, "m_mapLocker"),
         K \subseteq {"m_aliveLocker"}, t = "udp_recv" \/ MonitorsSilence(TRUE, t)
  PROVE  /\ Keeps(TRUE, t, K, Under("m_mapLocker", Writes("slavemap")), K)
         /\ Keeps(TRUE, t, K,
                  Under("m_mapLocker", Writes("slavemap") \o OnData(RtpSessionCreate)), K)
         /\ Keeps(TRUE, t, K, Under("m_mapLocker", OnData(RtpSessionCreate)), K)
<1> DEFINE H == K \cup {"m_mapLocker"}
<1>1. H \in SUBSET Mutexes /\ "m_mapLocker" \in Mutexes /\ "slavemap" \in Containers
  BY DEF Mutexes, Containers
<1>2. MayTouch(TRUE, t, H, "write", "slavemap")
  BY DEF MayTouch
<1>3. Keeps(TRUE, t, H, Writes("slavemap"), H)
  BY <1>1, <1>2, KeepsTouch DEF Writes
<1>4. MayLock(TRUE, t, H, "m_onDataLocker") /\ "map_mutex" \notin H /\ t \in {"udp_recv", "alive"}
  BY DEF MayLock, MonitorsSilence
<1>5. Keeps(TRUE, t, H, OnData(RtpSessionCreate), H)
  BY <1>1, <1>4, KeepsOnCreate
<1>6. Keeps(TRUE, t, H, Writes("slavemap") \o OnData(RtpSessionCreate), H)
  BY <1>3, <1>5, KeepsThen
<1> QED
  BY <1>1, <1>3, <1>5, <1>6, KeepsUnder

\* The callback that changes the flags of the channel.
LEMMA KeepsOnFlags ==
  ASSUME NEW master, NEW t, MayLock(master, t, {}, "m_onDataLocker")
  PROVE  /\ Keeps(master, t, {}, OnData(FlagSection(<<>>)), {})
         /\ Keeps(master, t, {}, OnData(FlagSection(TellSlaves)), {})
         /\ Keeps(master, t, {}, OnData(<<>>), {})
<1> DEFINE H == {"m_onDataLocker"}
<1> DEFINE F == {"m_onDataLocker", "flag_mutex"}
<1>1. /\ {} \in SUBSET Mutexes /\ H \in SUBSET Mutexes /\ F \in SUBSET Mutexes
      /\ "m_onDataLocker" \in Mutexes /\ "flag_mutex" \in Mutexes
      /\ H = {} \cup {"m_onDataLocker"} /\ F = H \cup {"flag_mutex"}
  BY DEF Mutexes
<1>2. MayLock(master, t, H, "flag_mutex") /\ MayLock(master, t, F, "m_mapLocker")
  BY Ranks DEF MayLock
<1>3. Keeps(master, t, F, TellSlaves, F)
  BY <1>1, <1>2, KeepsMapRead DEF TellSlaves
<1>4. Keeps(master, t, H, FlagSection(TellSlaves), H)
  BY <1>1, <1>2, <1>3, KeepsUnder DEF FlagSection
<1>5. Keeps(master, t, H, FlagSection(<<>>), H)
  BY <1>1, <1>2, KeepsEmpty DEF FlagSection
<1> QED
  BY <1>1, <1>4, <1>5, KeepsUnder, KeepsEmpty DEF OnData

\* The argument of a callback is a copy of the map, made without its lock.
LEMMA KeepsCopy ==
  ASSUME NEW master, NEW t, t = "udp_recv" \/ (t = "monitor" /\ ~master)
  PROVE  Keeps(master, t, {}, Reads("slavemap"), {})
<1>1. {} \in SUBSET Mutexes /\ "slavemap" \in Containers
  BY DEF Containers
<1>2. MayTouch(master, t, {}, "read", "slavemap")
  BY DEF MayTouch
<1> QED
  BY <1>1, <1>2, KeepsTouch DEF Reads

\* What a thread that holds nothing may lock.
LEMMA MayBegin ==
  ASSUME NEW master, NEW t, NEW m \in Mutexes,
         master /\ m = "m_onDataLocker" => t = "udp_recv" \/ MonitorsSilence(master, t)
  PROVE  MayLock(master, t, {}, m)
BY DEF MayLock

LEMMA MasterRecvKeeps ==
  ASSUME NEW j \in {Register, Updatemap_Known, Updatemap_Old, Updatemap_New,
                    ApplyWhileBusy, ApplyWhileFree, Release, ReleaseIgnored}
  PROVE  Keeps(TRUE, "udp_recv", {}, j, {})
<1> DEFINE Fine(s) == Keeps(TRUE, "udp_recv", {}, s, {})
<1>1. {} \in SUBSET Mutexes /\ \A m \in Mutexes : MayLock(TRUE, "udp_recv", {}, m)
  BY MayBegin
<1>2. /\ "m_aliveLocker" \in Mutexes /\ "m_mapLocker" \in Mutexes
      /\ "m_onDataLocker" \in Mutexes
  BY DEF Mutexes
<1>3. Fine(Sendmap2Slave)
  BY <1>1, <1>2, KeepsMapRead DEF Sendmap2Slave
<1>4. /\ Fine(Under("m_mapLocker", Writes("slavemap")))
      /\ Fine(Under("m_mapLocker", Writes("slavemap") \o OnData(RtpSessionCreate)))
      /\ Fine(Under("m_mapLocker", OnData(RtpSessionCreate)))
  BY <1>1, <1>2, KeepsMapChange
<1>5. Fine(AliveSeen) /\ Fine(Under("m_mapLocker", <<>>))
  BY <1>1, <1>2, KeepsEmpty DEF AliveSeen
<1>6. Fine(OnData(FlagSection(<<>>))) /\ Fine(OnData(FlagSection(TellSlaves))) /\ Fine(OnData(<<>>))
  BY <1>1, <1>2, KeepsOnFlags
<1>7. Fine(Reads("slavemap"))
  BY KeepsCopy
<1>8. \A a, b : Fine(a) /\ Fine(b) => Fine(a \o b)
  BY KeepsThen
<1> HIDE DEF Fine
<1>9. Fine(Register) /\ Fine(Updatemap_Known)
  BY <1>3, <1>4, <1>5, <1>8 DEF Register, Updatemap_Known
<1>10. Fine(Updatemap_Old)
  <2>1. Fine(AliveSeen \o Under("m_mapLocker", Writes("slavemap")))
    BY <1>4, <1>5, <1>8
  <2>2. Fine(AliveSeen \o Under("m_mapLocker", Writes("slavemap")) \o Sendmap2Slave)
    BY <1>3, <1>8, <2>1
  <2> QED
    BY <1>4, <1>8, <2>2 DEF Updatemap_Old
<1>11. Fine(Updatemap_New)
  <2> DEFINE Change == Under("m_mapLocker", Writes("slavemap") \o OnData(RtpSessionCreate))
  <2>1. Fine(AliveSeen \o Change)
    BY <1>4, <1>5, <1>8
  <2>2. Fine(AliveSeen \o Change \o Sendmap2Slave)
    BY <1>3, <1>8, <2>1
  <2> QED
    BY <1>5, <1>8, <2>2 DEF Updatemap_New
<1>12. Fine(ApplyWhileBusy) /\ Fine(ApplyWhileFree) /\ Fine(Release) /\ Fine(ReleaseIgnored)
  BY <1>6, <1>7, <1>8 DEF ApplyWhileBusy, ApplyWhileFree, Release, ReleaseIgnored
<1> QED
  BY <1>9, <1>10, <1>11, <1>12 DEF Fine

LEMMA SlaveRecvKeeps ==
  ASSUME NEW t \in {"udp_recv", "monitor"}, NEW j,
         \/ j \in {Answered, AnswerIgnored, VoiceBeginsOrEnds, NoAnswer}
         \/ j = Sendmap2Repeater /\ t = "udp_recv"
  PROVE  Keeps(FALSE, t, {}, j, {})
<1> DEFINE Fine(s) == Keeps(FALSE, t, {}, s, {})
<1>1. {} \in SUBSET Mutexes /\ \A m \in Mutexes : MayLock(FALSE, t, {}, m)
  BY MayBegin
<1>2. /\ "m_statusLocker" \in Mutexes /\ "m_mapLocker" \in Mutexes
      /\ "m_onDataLocker" \in Mutexes /\ "slavemap" \in Containers
  BY DEF Mutexes, Containers
<1>3. ASSUME t = "udp_recv" PROVE Fine(Under("m_mapLocker", Writes("slavemap")))
  <2>1. {"m_mapLocker"} \in SUBSET Mutexes /\ {"m_mapLocker"} = {} \cup {"m_mapLocker"}
    BY <1>2
  <2>2. MayTouch(FALSE, t, {"m_mapLocker"}, "write", "slavemap")
    BY <1>3 DEF MayTouch
  <2>3. Keeps(FALSE, t, {"m_mapLocker"}, Writes("slavemap"), {"m_mapLocker"})
    BY <1>2, <2>1, <2>2, KeepsTouch DEF Writes
  <2> QED
    BY <1>1, <1>2, <2>1, <2>3, KeepsUnder
<1>4. Fine(Under("m_statusLocker", <<>>))
  BY <1>1, <1>2, KeepsEmpty
<1>5. t = "udp_recv" => Fine(OnData(RtpSessionCreate))
  BY <1>1, <1>2, KeepsOnCreate
<1>6. Fine(OnData(FlagSection(<<>>))) /\ Fine(OnData(<<>>))
  BY <1>1, <1>2, KeepsOnFlags
<1>7. Fine(Reads("slavemap"))
  BY KeepsCopy
<1>8. \A a, b : Fine(a) /\ Fine(b) => Fine(a \o b)
  BY KeepsThen
<1> HIDE DEF Fine
<1>9. CASE j = Sendmap2Repeater /\ t = "udp_recv"
  <2>1. Fine(Under("m_mapLocker", Writes("slavemap")) \o Reads("slavemap"))
    BY <1>3, <1>7, <1>8, <1>9
  <2> QED
    BY <1>5, <1>8, <1>9, <2>1 DEF Sendmap2Repeater, Fine
<1>10. Fine(Under("m_statusLocker", <<>>) \o Reads("slavemap"))
  BY <1>4, <1>7, <1>8
<1>11. Fine(Answered) /\ Fine(AnswerIgnored) /\ Fine(VoiceBeginsOrEnds) /\ Fine(NoAnswer)
  BY <1>6, <1>7, <1>8, <1>10 DEF Answered, AnswerIgnored, VoiceBeginsOrEnds, NoAnswer
<1> QED
  BY <1>9, <1>11 DEF Fine

LEMMA AliveKeeps ==
  ASSUME basedevice_ID \in BOOLEAN, NEW j \in AliveJobs
  PROVE  Keeps(basedevice_ID, "alive", {}, j, {})
<1>1. /\ {} \in SUBSET Mutexes
      /\ \A m \in Mutexes \ {"m_onDataLocker"} : MayLock(basedevice_ID, "alive", {}, m)
  BY MayBegin
<1>2. "m_aliveLocker" \in Mutexes /\ "m_mapLocker" \in Mutexes
  BY DEF Mutexes
<1>3. CASE j = SendAlive2Master
  BY <1>1, <1>2, <1>3, KeepsMapRead DEF SendAlive2Master
<1>4. CASE j = AliveSeen
  BY <1>1, <1>2, <1>4, KeepsEmpty DEF AliveSeen
<1>5. CASE j = MonitorAlive /\ basedevice_ID /\ Silence
  <2> DEFINE H == {"m_aliveLocker"}
  <2>1. /\ H \in SUBSET Mutexes /\ H = {} \cup {"m_aliveLocker"}
        /\ MayLock(TRUE, "alive", H, "m_mapLocker") /\ MonitorsSilence(TRUE, "alive")
    BY <1>2, <1>5, Ranks DEF MayLock, MonitorsSilence
  <2>2. Keeps(TRUE, "alive", H,
              Under("m_mapLocker", Writes("slavemap") \o OnData(RtpSessionCreate)), H)
    BY <2>1, KeepsMapChange
  <2>3. basedevice_ID = TRUE
    BY <1>5
  <2> HIDE DEF H
  <2> QED
    BY <1>1, <1>2, <1>5, <2>1, <2>2, <2>3, KeepsUnder DEF MonitorAlive
<1> QED
  BY <1>3, <1>4, <1>5 DEF AliveJobs

\* The radio's threads: they end or begin a talk, or send voice.
LEMMA RadioKeeps ==
  ASSUME basedevice_ID \in BOOLEAN, NEW t \in Threads,
         NEW j, \/ j \in {EndTalk, FlagSection(TellSlaves), FlagSection(<<>>), GetStatus}
                \/ j = SendVoice /\ t = "rtp_send"
  PROVE  Keeps(basedevice_ID, t, {}, j, {})
<1> DEFINE F == {"flag_mutex"}
<1>1. /\ {} \in SUBSET Mutexes
      /\ \A m \in Mutexes \ {"m_onDataLocker"} : MayLock(basedevice_ID, t, {}, m)
  BY MayBegin
<1>2. /\ "flag_mutex" \in Mutexes /\ "m_statusLocker" \in Mutexes /\ "map_mutex" \in Mutexes
      /\ {"map_mutex"} \in SUBSET Mutexes /\ {"map_mutex"} = {} \cup {"map_mutex"}
      /\ F \in SUBSET Mutexes /\ F = {} \cup {"flag_mutex"} /\ "sessionmap" \in Containers
  BY DEF Mutexes, Containers
<1>3. Keeps(basedevice_ID, t, {}, FlagSection(<<>>), {})
  BY <1>1, <1>2, KeepsEmpty DEF FlagSection
<1>4. Keeps(basedevice_ID, t, {}, FlagSection(TellSlaves), {})
  <2>1. MayLock(basedevice_ID, t, F, "m_mapLocker")
    BY Ranks DEF MayLock
  <2>2. Keeps(basedevice_ID, t, F, TellSlaves, F)
    BY <1>2, <2>1, KeepsMapRead DEF TellSlaves
  <2> HIDE DEF F
  <2> QED
    BY <1>1, <1>2, <2>2, KeepsUnder DEF FlagSection
<1>5. Keeps(basedevice_ID, t, {}, GetStatus, {})
  BY <1>1, <1>2, KeepsEmpty DEF GetStatus
<1>6. ASSUME t = "rtp_send" PROVE Keeps(basedevice_ID, t, {}, SendVoice, {})
  <2>1. MayTouch(basedevice_ID, t, {"map_mutex"}, "read", "sessionmap")
    BY <1>6 DEF MayTouch
  <2>2. Keeps(basedevice_ID, t, {"map_mutex"}, Reads("sessionmap"), {"map_mutex"})
    BY <1>2, <2>1, KeepsTouch DEF Reads
  <2> QED
    BY <1>1, <1>2, <2>2, KeepsUnder DEF SendVoice
<1>7. EndTalk = FlagSection(TellSlaves) \/ EndTalk = FlagSection(<<>>)
  BY DEF EndTalk
<1> QED
  BY <1>3, <1>4, <1>5, <1>6, <1>7

LEMMA JobsKeep ==
  ASSUME basedevice_ID \in BOOLEAN, NEW t \in Threads, NEW j \in Jobs[t]
  PROVE  Keeps(basedevice_ID, t, {}, j, {})
<1>1. CASE t = "udp_recv"
  <2>1. j \in RecvJobs
    BY <1>1 DEF Jobs
  <2>2. CASE basedevice_ID
    <3>1. basedevice_ID = TRUE
      BY <2>2
    <3> QED
      BY <1>1, <2>1, <3>1, MasterRecvKeeps DEF RecvJobs
  <2>3. CASE ~basedevice_ID
    <3>1. basedevice_ID = FALSE
      BY <2>3
    <3>2. j \in {Sendmap2Repeater, Answered, AnswerIgnored, VoiceBeginsOrEnds}
      BY <2>1, <3>1 DEF RecvJobs
    <3> QED
      BY <1>1, <3>1, <3>2, SlaveRecvKeeps
  <2> QED
    BY <2>2, <2>3
<1>2. CASE t = "monitor"
  <2>1. basedevice_ID = FALSE /\ j = NoAnswer
    BY <1>2 DEF Jobs, MonitorJobs
  <2> QED
    BY <1>2, <2>1, SlaveRecvKeeps
<1>3. CASE t = "alive"
  <2>1. j \in AliveJobs
    BY <1>3 DEF Jobs
  <2> QED
    BY <1>3, <2>1, AliveKeeps
<1>4. CASE t \in {"cd_poll", "timer", "rtp_poll", "rtp_send"}
  <2>1. \/ j \in {EndTalk, FlagSection(TellSlaves), FlagSection(<<>>), GetStatus}
        \/ j = SendVoice /\ t = "rtp_send"
    BY <1>4 DEF Jobs, CDJobs, ListenTimeout
  <2> QED
    BY <2>1, RadioKeeps
<1> QED
  BY <1>1, <1>2, <1>3, <1>4 DEF Threads

\* What the RTP-send thread does after its loop, in the role it has then.
LEMMA LastJobKeeps ==
  ASSUME NEW master, NEW t \in Threads
  PROVE  Keeps(master, IF t = "rtp_send" THEN "ending" ELSE t, {}, LastJob(t), {})
<1>1. CASE t = "rtp_send"
  <2>1. {} \in SUBSET Mutexes /\ "sessionmap" \in Containers
    BY DEF Containers
  <2>2. MayTouch(master, "ending", {}, "write", "sessionmap")
    BY DEF MayTouch
  <2>3. Keeps(master, "ending", {}, Writes("sessionmap"), {})
    BY <2>1, <2>2, KeepsTouch DEF Writes
  <2> QED
    BY <1>1, <2>3 DEF LastJob, DestroySessions
<1>2. CASE t # "rtp_send"
  BY <1>2, KeepsNothing DEF LastJob
<1> QED
  BY <1>1, <1>2

-----------------------------------------------------------------------------
(***************************************************************************)
(* The invariant: every thread is somewhere in a sequence that keeps the   *)
(* discipline, and what it holds is what `holder' says of it.              *)
(***************************************************************************)
Mine(t) == { m \in Mutexes : holder[m] = t }

Role(t) == IF t = "rtp_send" /\ t \notin running THEN "ending" ELSE t

LockTypes ==
  /\ basedevice_ID \in BOOLEAN
  /\ m_PleaseStopRepeater \in BOOLEAN
  /\ running \subseteq Threads
  /\ job \in [Threads -> Seq(Ops)]
  /\ holder \in [Mutexes -> Threads \cup {"nobody"}]

CallbackLock ==
  \A t \in Threads :
    basedevice_ID /\ "m_onDataLocker" \in Mine(t)
      => t = "udp_recv" \/ MonitorsSilence(basedevice_ID, t)

LockInv ==
  /\ LockTypes
  /\ CallbackLock
  /\ \A t \in Threads : Keeps(basedevice_ID, Role(t), Mine(t), job[t], {})

LEMMA LockInvInit == Init => LockInv
<1> SUFFICES ASSUME Init PROVE LockInv
  OBVIOUS
<1>1. LockTypes
  BY EmptySeq DEF Init, LockTypes
<1>2. ASSUME NEW t \in Threads PROVE Keeps(basedevice_ID, Role(t), Mine(t), job[t], {})
  <2>1. Mine(t) = {} /\ job[t] = <<>>
    BY DEF Init, Mine, Threads
  <2> QED
    BY <2>1, KeepsNothing
<1>3. CallbackLock
  BY DEF Init, Mine, Threads, CallbackLock
<1> QED
  BY <1>1, <1>2, <1>3 DEF LockInv

\* Thread t does op: it holds After(Mine(t), op) then, and the others hold what
\* they held.
LEMMA OneStep ==
  ASSUME LockInv, NEW t \in Threads, job[t] # <<>>,
         UNCHANGED <<basedevice_ID, m_PleaseStopRepeater, running>>,
         job' = [job EXCEPT ![t] = Tail(@)],
         holder' \in [Mutexes -> Threads \cup {"nobody"}],
         Mine(t)' = After(Mine(t), Next1(t)),
         \A u \in Threads \ {t} : Mine(u)' = Mine(u)
  PROVE  LockInv'
<1>1. /\ Keeps(basedevice_ID, Role(t), After(Mine(t), Head(job[t])), Tail(job[t]), {})
      /\ Tail(job[t]) \in Seq(Ops)
  <2>1. Keeps(basedevice_ID, Role(t), Mine(t), job[t], {})
    BY DEF LockInv
  <2>2. Keeps(basedevice_ID, Role(t), After(Mine(t), Head(job[t])), Tail(job[t]), {})
    BY <2>1, KeepsOn
  <2> QED
    BY <2>2 DEF Keeps
<1>2. /\ job' \in [Threads -> Seq(Ops)] /\ job'[t] = Tail(job[t])
      /\ \A u \in Threads \ {t} : job'[u] = job[u]
  BY <1>1 DEF LockInv, LockTypes
<1>3. LockTypes'
  BY <1>2 DEF LockInv, LockTypes
<1>5. CallbackLock'
  <2> SUFFICES ASSUME NEW u \in Threads, basedevice_ID, "m_onDataLocker" \in Mine(u)'
               PROVE  u = "udp_recv" \/ MonitorsSilence(basedevice_ID, u)
    BY DEF CallbackLock, MonitorsSilence
  <2>1. CASE "m_onDataLocker" \in Mine(u)
    BY <2>1 DEF LockInv, CallbackLock
  <2>2. CASE "m_onDataLocker" \notin Mine(u)
    <3>1. u = t /\ "m_onDataLocker" \in After(Mine(t), Head(job[t]))
      BY <2>2 DEF Next1
    <3>2. Head(job[t])[1] = "lock" /\ Head(job[t])[2] = "m_onDataLocker"
      BY <2>2, <3>1 DEF After
    <3>3. Allowed(basedevice_ID, Role(t), Mine(t), Head(job[t]))
      BY KeepsOn DEF LockInv
    <3>4. Role(t) = "udp_recv" \/ MonitorsSilence(basedevice_ID, Role(t))
      BY <3>2, <3>3 DEF Allowed, MayLock
    <3> QED
      BY <3>1, <3>4 DEF MonitorsSilence, Role
  <2> QED
    BY <2>1, <2>2
<1>4. ASSUME NEW u \in Threads PROVE Keeps(basedevice_ID, Role(u), Mine(u)', job'[u], {})
  <2>1. CASE u = t
    BY <1>1, <1>2, <2>1 DEF Next1
  <2>2. CASE u # t
    BY <1>2, <2>2 DEF LockInv
  <2> QED
    BY <2>1, <2>2
<1> QED
  BY <1>3, <1>4, <1>5 DEF LockInv, Role

LEMMA LockInvStep == LockInv /\ [Next]_vars => LockInv'
<1> SUFFICES ASSUME LockInv, [Next]_vars PROVE LockInv'
  OBVIOUS
<1>1. ASSUME NEW t \in Threads, job[t] # <<>>
      PROVE  Next1(t) \in Ops /\ Allowed(basedevice_ID, Role(t), Mine(t), Next1(t))
  BY <1>1, KeepsOn DEF LockInv, Next1
<1>2. ASSUME NEW t \in Threads, Start(t) PROVE LockInv'
  <2>1. PICK j \in Jobs[t] : job' = [job EXCEPT ![t] = j]
    BY <1>2 DEF Start
  <2>2. Keeps(basedevice_ID, t, {}, j, {}) /\ j \in Seq(Ops)
    BY <2>1, JobsKeep DEF LockInv, LockTypes, Keeps
  <2>3. Mine(t) = {}
    BY <1>2, KeepsEnd DEF Start, LockInv
  <2>4. /\ job' \in [Threads -> Seq(Ops)]
        /\ UNCHANGED <<basedevice_ID, m_PleaseStopRepeater, running, holder>>
    BY <1>2, <2>1, <2>2 DEF Start, LockInv, LockTypes
  <2>5. ASSUME NEW u \in Threads PROVE Keeps(basedevice_ID, Role(u), Mine(u)', job'[u], {})
    <3>1. Mine(u)' = Mine(u)
      BY <2>4 DEF Mine
    <3>2. CASE u = t
      <4>1. Role(t) = t
        BY <1>2 DEF Start, Role
      <4> QED
        BY <2>1, <2>2, <2>3, <3>1, <3>2, <4>1 DEF LockInv, LockTypes
    <3>3. CASE u # t
      BY <2>1, <3>1, <3>3 DEF LockInv, LockTypes
    <3> QED
      BY <3>2, <3>3
  <2> QED
    BY <2>4, <2>5 DEF LockInv, LockTypes, CallbackLock, Mine, Role
<1>3. ASSUME NEW t \in Threads, Lock(t) PROVE LockInv'
  <2>1. PICK m \in Mutexes : Next1(t) = <<"lock", m>>
    BY <1>1, <1>3 DEF Lock, Ops, Op
  <2>2. holder[m] = "nobody" /\ holder' = [holder EXCEPT ![m] = t]
    BY <1>3, <2>1 DEF Lock
  <2>3. holder' \in [Mutexes -> Threads \cup {"nobody"}]
    BY <2>2 DEF LockInv, LockTypes
  <2>4. Mine(t)' = Mine(t) \cup {m}
    BY <2>2 DEF Mine, LockInv, LockTypes
  <2>5. \A u \in Threads \ {t} : Mine(u)' = Mine(u)
    BY <2>2 DEF Mine, LockInv, LockTypes, Threads
  <2>6. Mine(t)' = After(Mine(t), Next1(t))
    BY <2>1, <2>4 DEF After
  <2> QED
    BY <1>3, <2>3, <2>5, <2>6, OneStep DEF Lock
<1>4. ASSUME NEW t \in Threads, Unlock(t) PROVE LockInv'
  <2>1. PICK m \in Mutexes : Next1(t) = <<"unlock", m>>
    BY <1>1, <1>4 DEF Unlock, Ops, Op
  <2>2. holder[m] = t /\ holder' = [holder EXCEPT ![m] = "nobody"]
    <3>1. Allowed(basedevice_ID, Role(t), Mine(t), <<"unlock", m>>)
      BY <1>1, <1>4, <2>1 DEF Unlock
    <3>2. m \in Mine(t)
      BY <3>1 DEF Allowed
    <3> QED
      BY <1>4, <2>1, <3>2 DEF Unlock, Mine
  <2>3. holder' \in [Mutexes -> Threads \cup {"nobody"}]
    BY <2>2 DEF LockInv, LockTypes
  <2>4. Mine(t)' = Mine(t) \ {m}
    BY <2>2 DEF Mine, LockInv, LockTypes, Threads
  <2>5. \A u \in Threads \ {t} : Mine(u)' = Mine(u)
    BY <2>2 DEF Mine, LockInv, LockTypes, Threads
  <2>6. Mine(t)' = After(Mine(t), Next1(t))
    BY <2>1, <2>4 DEF After
  <2> QED
    BY <1>4, <2>3, <2>5, <2>6, OneStep DEF Unlock
<1>5. ASSUME NEW t \in Threads, Access(t) PROVE LockInv'
  <2>1. After(Mine(t), Next1(t)) = Mine(t)
    BY <1>5 DEF Access, After
  <2>2. \A u \in Threads : Mine(u)' = Mine(u)
    BY <1>5 DEF Access, Mine
  <2>3. holder' \in [Mutexes -> Threads \cup {"nobody"}]
    BY <1>5 DEF Access, LockInv, LockTypes
  <2> QED
    BY <1>5, <2>1, <2>2, <2>3, OneStep DEF Access
<1>6. ASSUME NEW t \in Threads, End(t) PROVE LockInv'
  <2>1. /\ job' = [job EXCEPT ![t] = LastJob(t)] /\ running' = running \ {t}
        /\ UNCHANGED <<basedevice_ID, m_PleaseStopRepeater, holder>>
        /\ \A u \in Threads : Mine(u)' = Mine(u)
    BY <1>6 DEF End, Mine
  <2>2. Mine(t) = {}
    BY <1>6, KeepsEnd DEF End, LockInv
  <2>3. Role(t)' = IF t = "rtp_send" THEN "ending" ELSE t
    BY <2>1 DEF Role
  <2>4. Keeps(basedevice_ID, Role(t)', {}, LastJob(t), {})
    BY <2>3, LastJobKeeps
  <2>5. LockTypes'
    <3>1. LastJob(t) \in Seq(Ops)
      BY <2>4 DEF Keeps
    <3> QED
      BY <2>1, <3>1 DEF LockInv, LockTypes
  <2>6. ASSUME NEW u \in Threads PROVE Keeps(basedevice_ID, Role(u)', Mine(u)', job'[u], {})
    <3>1. CASE u = t
      BY <2>1, <2>2, <2>4, <3>1 DEF LockInv, LockTypes
    <3>2. CASE u # t
      <4>1. job'[u] = job[u] /\ Role(u)' = Role(u)
        BY <2>1, <3>2 DEF LockInv, LockTypes, Role
      <4> QED
        BY <2>1, <4>1 DEF LockInv
    <3> QED
      BY <3>1, <3>2
  <2> QED
    BY <2>1, <2>5, <2>6 DEF LockInv, CallbackLock
<1>7. CASE SetThreadExitFlag \/ UNCHANGED vars
  <2>1. /\ UNCHANGED <<basedevice_ID, running, job, holder>>
        /\ m_PleaseStopRepeater' \in BOOLEAN
    BY <1>7 DEF vars, SetThreadExitFlag, LockInv, LockTypes
  <2>2. \A t \in Threads : Mine(t)' = Mine(t) /\ Role(t)' = Role(t)
    BY <2>1 DEF Mine, Role
  <2> QED
    BY <2>1, <2>2 DEF LockInv, LockTypes, CallbackLock
<1> QED
  BY <1>2, <1>3, <1>4, <1>5, <1>6, <1>7 DEF Next

\* Every thread keeps the discipline at all times: in particular one that rests
\* holds no mutex, and none locks a mutex twice or unlocks one it does not hold.
THEOREM DisciplineKept == Spec => []LockInv
BY LockInvInit, LockInvStep, PTL DEF Spec

-----------------------------------------------------------------------------
(***************************************************************************)
(* Races.                                                                  *)
(***************************************************************************)
LEMMA TouchIsAllowed ==
  ASSUME LockInv, NEW t \in Threads, NEW kind \in {"read", "write"}, NEW x \in Containers,
         Touches(t, kind, x)
  PROVE  MayTouch(basedevice_ID, Role(t), Mine(t), kind, x)
<1>1. Keeps(basedevice_ID, Role(t), Mine(t), job[t], {}) /\ job[t] # <<>> /\ Head(job[t]) = <<kind, x>>
  BY DEF LockInv, Touches, Next1, Op
<1>2. Allowed(basedevice_ID, Role(t), Mine(t), <<kind, x>>)
  BY <1>1, KeepsOn
<1> QED
  BY <1>2 DEF Allowed

LEMMA SessionsSafe == LockInv => OneSessionRace
<1> SUFFICES ASSUME LockInv, NEW t \in Threads, NEW u \in Threads, Race(t, u, "sessionmap")
             PROVE  /\ "rtp_send" \in {t, u} \ running
                    /\ {t, u} \subseteq {"rtp_send", "udp_recv", "alive"}
  BY DEF OneSessionRace
<1> DEFINE Users == {"udp_recv", "alive", "rtp_send"}
<1>1. /\ ("map_mutex" \in Mine(t) /\ Role(t) \in Users) \/ Role(t) = "ending"
      /\ ("map_mutex" \in Mine(u) /\ Role(u) \in Users) \/ Role(u) = "ending"
  BY TouchIsAllowed DEF Race, MayTouch, Containers
<1>2. t # u /\ ~("map_mutex" \in Mine(t) /\ "map_mutex" \in Mine(u))
  BY DEF Mine, Race
<1>3. \A v \in Threads : /\ Role(v) = "ending" => v = "rtp_send" /\ v \notin running
                         /\ Role(v) # "ending" => Role(v) = v
  BY DEF Role, Threads
<1>4. CASE Role(t) = "ending"
  <2>1. t = "rtp_send" /\ t \notin running /\ Role(u) # "ending" /\ u \in Users
    BY <1>1, <1>2, <1>3, <1>4
  <2> QED
    BY <2>1
<1>5. CASE Role(t) # "ending"
  <2>1. u = "rtp_send" /\ u \notin running /\ t \in Users
    BY <1>1, <1>2, <1>3, <1>5
  <2> QED
    BY <2>1
<1> QED
  BY <1>4, <1>5

\* The races for slavemap there are, with and without silence.
LEMMA SlavemapRaces ==
  ASSUME LockInv, NEW t \in Threads, NEW u \in Threads, Race(t, u, "slavemap")
  PROVE  \/ ~basedevice_ID /\ t = "udp_recv" /\ u = "monitor"
         \/ MonitorsSilence(basedevice_ID, t) /\ u = "udp_recv"
<1>1. /\ "m_mapLocker" \in Mine(t)
      /\ t = "udp_recv" \/ MonitorsSilence(basedevice_ID, t)
  <2>1. /\ "m_mapLocker" \in Mine(t)
        /\ Role(t) = "udp_recv" \/ MonitorsSilence(basedevice_ID, Role(t))
    BY TouchIsAllowed DEF Race, MayTouch, Containers
  <2> QED
    BY <2>1 DEF Role, MonitorsSilence
<1>2. "m_mapLocker" \notin Mine(u) /\ t # u
  BY <1>1 DEF Mine, Race
<1>3. u = "udp_recv" \/ (u = "monitor" /\ ~basedevice_ID)
  <2>1. Role(u) = "udp_recv" \/ (Role(u) = "monitor" /\ ~basedevice_ID)
    BY <1>1, <1>2, TouchIsAllowed DEF Race, MayTouch, Containers, MonitorsSilence
  <2> QED
    BY <2>1 DEF Role
<1> QED
  BY <1>1, <1>2, <1>3 DEF MonitorsSilence

\* With the silence monitor or without, one race for the RTP sessions is left: that
\* of the RTP-send thread, which destroys them after its loop without the lock, with
\* a thread of the protocol that still makes or deletes some (OneSessionRace).  While
\* the loop runs, no two threads work on the sessions at once.
THEOREM SessionsRaceAtExitOnly == Spec => []OneSessionRace
BY DisciplineKept, SessionsSafe, PTL

\* While heartbeats come, slavemap is read during a change in one place only: by
\* the monitor thread of a slave (OneSlavemapRace).
THEOREM OnlyMonitorRaces ==
  ASSUME ~Silence
  PROVE  Spec => []OneSlavemapRace
<1>1. LockInv => OneSlavemapRace
  BY SlavemapRaces DEF OneSlavemapRace, MonitorsSilence
<1> QED
  BY <1>1, DisciplineKept, PTL

-----------------------------------------------------------------------------
(***************************************************************************)
(* Circles.                                                                *)
(***************************************************************************)
Circle(S) == S # {} /\ \A t \in S : \E u \in S : WaitsFor(t, u)

\* The mutex t waits for.
Wanted(t) == Next1(t)[2]

LEMMA Waiting ==
  ASSUME LockInv, NEW t \in Threads, NEW u \in Threads, WaitsFor(t, u)
  PROVE  /\ Wanted(t) \in Mutexes /\ Wanted(t) \in Mine(u)
         /\ MayLock(basedevice_ID, Role(t), Mine(t), Wanted(t))
<1>1. /\ Keeps(basedevice_ID, Role(t), Mine(t), job[t], {}) /\ job[t] # <<>>
      /\ Next1(t)[1] = "lock" /\ holder[Next1(t)[2]] = u
  BY DEF LockInv, WaitsFor
<1>2. Next1(t) \in Ops /\ Allowed(basedevice_ID, Role(t), Mine(t), Next1(t))
  BY <1>1, KeepsOn DEF Next1
<1>3. Next1(t)[2] \in Mutexes
  BY <1>1, <1>2 DEF Ops, Op
<1> QED
  BY <1>1, <1>2, <1>3 DEF Wanted, Allowed, Mine

\* The mutexes wanted rise along a circle, but for one case: on a master, the
\* receive thread and the silence monitor wait for m_onDataLocker.
LEMMA RankRises ==
  ASSUME LockInv, NEW t \in Threads, NEW u \in Threads, NEW w \in Threads,
         WaitsFor(t, u), WaitsFor(u, w)
  PROVE  \/ Rank[Wanted(t)] < Rank[Wanted(u)]
         \/ basedevice_ID /\ Silence /\ {u, w} = {"alive", "udp_recv"}
<1>1. /\ Wanted(t) \in Mine(u) /\ Wanted(u) \in Mine(w)
      /\ MayLock(basedevice_ID, Role(u), Mine(u), Wanted(u))
  BY Waiting
<1>2. CASE ~basedevice_ID \/ Wanted(u) # "m_onDataLocker"
  BY <1>1, <1>2 DEF MayLock
<1>3. CASE basedevice_ID /\ Wanted(u) = "m_onDataLocker"
  <2>1. u = "udp_recv" \/ MonitorsSilence(basedevice_ID, u)
    BY <1>1, <1>3 DEF MayLock, Role, MonitorsSilence
  <2>2. w = "udp_recv" \/ MonitorsSilence(basedevice_ID, w)
    BY <1>1, <1>3 DEF LockInv, CallbackLock
  <2>3. u # w
    BY <1>1 DEF MayLock
  <2> QED
    BY <1>3, <2>1, <2>2, <2>3 DEF MonitorsSilence
<1> QED
  BY <1>2, <1>3

LEMMA CircleShape ==
  ASSUME LockInv, NEW S \in SUBSET Threads, Circle(S)
  PROVE  basedevice_ID /\ Silence /\ {"alive", "udp_recv"} \subseteq S
<1> SUFFICES ASSUME ~(basedevice_ID /\ Silence /\ {"alive", "udp_recv"} \subseteq S)
             PROVE  FALSE
  OBVIOUS
<1> DEFINE Height(t) == Rank[Wanted(t)]
<1>1. \A t \in S : Height(t) \in 1..4
  BY Waiting DEF Circle, Rank
<1>2. \A t \in S : \E u \in S : Height(t) < Height(u)
  <2> SUFFICES ASSUME NEW t \in S PROVE \E u \in S : Height(t) < Height(u)
    OBVIOUS
  <2>1. PICK u \in S : WaitsFor(t, u)
    BY DEF Circle
  <2>2. PICK w \in S : WaitsFor(u, w)
    BY DEF Circle
  <2>3. ~(basedevice_ID /\ Silence /\ {u, w} = {"alive", "udp_recv"})
    OBVIOUS
  <2> QED
    BY <2>1, <2>2, <2>3, RankRises
<1> HIDE DEF Height
<1>3. \A t \in S : Height(t) <= 3
  BY <1>1, <1>2
<1>4. \A t \in S : Height(t) <= 2
  BY <1>1, <1>2, <1>3
<1>5. \A t \in S : Height(t) <= 1
  BY <1>1, <1>2, <1>4
<1> QED
  BY <1>1, <1>2, <1>5 DEF Circle

\* Whenever threads wait for each other in a circle, it is on a master, and the
\* receive thread and the silence monitor are in it: no other two threads, and no
\* threads of a slave, ever block each other.
THEOREM OneCircleOnly ==
  Spec => [](\A S \in SUBSET Threads :
               Circle(S) => basedevice_ID /\ Silence /\ {"alive", "udp_recv"} \subseteq S)
<1>1. LockInv => \A S \in SUBSET Threads :
                   Circle(S) => basedevice_ID /\ Silence /\ {"alive", "udp_recv"} \subseteq S
  BY CircleShape
<1> QED
  BY <1>1, DisciplineKept, PTL

\* While heartbeats come, no threads wait in a circle at all (NoDeadlock).
THEOREM NoCircle ==
  ASSUME ~Silence
  PROVE  Spec => []NoDeadlock
<1>1. LockInv => NoDeadlock
  BY CircleShape DEF NoDeadlock, Circle
<1> QED
  BY <1>1, DisciplineKept, PTL
=============================================================================
