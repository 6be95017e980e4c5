---------------------------- MODULE StartUpProofs ---------------------------
(***************************************************************************)
(* Proofs about StartUp, for any members, any times, any length of the     *)
(* buffers, and any ports that keep PortAssumption; the ports of the code  *)
(* do.                                                                     *)
(***************************************************************************)
EXTENDS StartUp, FiniteSetTheorems, TLAPS

Fields == Members \cup Times \cup {Cut}

\* The pairs of fields in t are members of m with their times.
Holds(t, m) ==
  \A i \in Pairs(t) : /\ Address(t, i) \in DOMAIN m
                      /\ Time(t, i) \in {m[Address(t, i)], Cut}
-----------------------------------------------------------------------------
(***************************************************************************)
(* The text of a map.                                                      *)
(***************************************************************************)

LEMMA ListedAll ==
  ASSUME NEW m \in Maps
  PROVE  /\ Cardinality(DOMAIN m) \in Nat
         /\ Listed(DOMAIN m) \in [1..Cardinality(DOMAIN m) -> DOMAIN m]
         /\ \A p \in DOMAIN m : \E i \in 1..Cardinality(DOMAIN m) : Listed(DOMAIN m)[i] = p
<1> DEFINE D == DOMAIN m
           n == Cardinality(D)
<1>1. D \subseteq Members /\ IsFiniteSet(D)
  BY StartUpAssumption, FS_Subset DEF Maps
<1>2. n \in Nat /\ \E s \in [1..n -> D] : \A x \in D : \E i \in 1..n : s[i] = x
  BY <1>1, FS_CardinalityType DEF ExistsBijection, Bijection, Surjection
<1> HIDE DEF D, n
<1>3. \E s \in [1..n -> D] : \A x \in D : \E i \in DOMAIN s : s[i] = x
  BY <1>2
<1>4. /\ Listed(D) \in [1..n -> D]
      /\ \A x \in D : \E i \in DOMAIN Listed(D) : Listed(D)[i] = x
  BY <1>3 DEF Listed, n
<1> QED
  BY <1>2, <1>4 DEF D, n

\* The text of a map has two fields for each member.
LEMMA TextPairs ==
  ASSUME NEW m \in Maps
  PROVE  /\ Text(m) \in Seq(Fields)
         /\ Len(Text(m)) = 2 * Cardinality(DOMAIN m)
         /\ Holds(Text(m), m)
         /\ \A i \in Pairs(Text(m)) : Time(Text(m), i) = m[Address(Text(m), i)]
         /\ {Address(Text(m), i) : i \in Pairs(Text(m))} = DOMAIN m
<1> DEFINE it == Listed(DOMAIN m)
           n == Cardinality(DOMAIN m)
           t == Text(m)
<1>1. /\ n \in Nat /\ it \in [1..n -> DOMAIN m]
      /\ \A p \in DOMAIN m : \E i \in 1..n : it[i] = p
  BY ListedAll
<1>2. DOMAIN m \subseteq Members /\ \A p \in DOMAIN m : m[p] \in Times \cup {Cut}
  BY DEF Maps
<1>3. t = [k \in 1..(2 * n) |-> IF k % 2 = 1 THEN it[(k + 1) \div 2] ELSE m[it[k \div 2]]]
  BY DEF Text
<1> HIDE DEF it, n, t
<1>4. \A k \in 1..(2 * n) : IF k % 2 = 1 THEN (k + 1) \div 2 \in 1..n ELSE k \div 2 \in 1..n
  BY <1>1
<1>5. \A k \in 1..(2 * n) : t[k] \in Fields
  BY <1>1, <1>2, <1>3, <1>4 DEF Fields
<1>6. t \in Seq(Fields) /\ Len(t) = 2 * n
  BY <1>1, <1>3, <1>5
<1>7. Pairs(t) = 1..n
  BY <1>1, <1>6 DEF Pairs
<1>8. ASSUME NEW i \in 1..n PROVE Address(t, i) = it[i] /\ Time(t, i) = m[it[i]]
  <2>1. /\ 2 * i - 1 \in 1..(2 * n) /\ (2 * i - 1) % 2 = 1 /\ (2 * i - 1 + 1) \div 2 = i
        /\ 2 * i \in 1..(2 * n) /\ (2 * i) % 2 = 0 /\ (2 * i) \div 2 = i
    BY <1>1
  <2> QED
    BY <1>3, <2>1 DEF Address, Time
<1>9. {Address(t, i) : i \in 1..n} = DOMAIN m
  <2>1. ASSUME NEW i \in 1..n PROVE Address(t, i) \in DOMAIN m
    BY <1>1, <1>8
  <2>2. ASSUME NEW p \in DOMAIN m PROVE \E i \in 1..n : Address(t, i) = p
    BY <1>1, <1>8
  <2> QED
    BY <2>1, <2>2
<1>10. \A i \in 1..n : Address(t, i) \in DOMAIN m /\ Time(t, i) = m[Address(t, i)]
  BY <1>1, <1>8
<1> QED
  BY <1>6, <1>7, <1>9, <1>10 DEF Holds, t, n

\* What is read from a text belongs to the map it holds.
LEMMA ReadHeld ==
  ASSUME NEW t, NEW m \in Maps, Holds(t, m)
  PROVE  /\ AnalysisMap(t) \in Maps
         /\ DOMAIN AnalysisMap(t) \subseteq DOMAIN m
         /\ \A p \in DOMAIN AnalysisMap(t) : AnalysisMap(t)[p] \in {m[p], Cut}
<1> DEFINE D == {Address(t, i) : i \in Pairs(t)}
           At(p) == CHOOSE i \in Pairs(t) : Address(t, i) = p
<1>1. D \subseteq DOMAIN m
  BY DEF Holds
<1>2. \A p \in D : At(p) \in Pairs(t) /\ Address(t, At(p)) = p
  OBVIOUS
<1>3. \A p \in D : Time(t, At(p)) \in {m[p], Cut}
  BY <1>2 DEF Holds
<1>4. AnalysisMap(t) = [p \in D |-> Time(t, At(p))]
  BY DEF AnalysisMap
<1>5. D \in SUBSET Members /\ \A p \in D : m[p] \in Times \cup {Cut}
  BY <1>1 DEF Maps
<1> HIDE DEF D, At
<1>6. AnalysisMap(t) \in [D -> Times \cup {Cut}]
  BY <1>3, <1>4, <1>5
<1> QED
  BY <1>1, <1>3, <1>4, <1>5, <1>6 DEF Maps

\* AnalysisMap undoes SaveMap.
LEMMA RoundTrip ==
  ASSUME NEW m \in Maps
  PROVE  AnalysisMap(Text(m)) = m
<1> DEFINE t == Text(m)
           At(p) == CHOOSE i \in Pairs(t) : Address(t, i) = p
<1>1. /\ \A i \in Pairs(t) : Time(t, i) = m[Address(t, i)]
      /\ {Address(t, i) : i \in Pairs(t)} = DOMAIN m
  BY TextPairs
<1> HIDE DEF t
<1>2. \A p \in DOMAIN m : At(p) \in Pairs(t) /\ Address(t, At(p)) = p
  BY <1>1
<1>3. AnalysisMap(t) = [p \in DOMAIN m |-> Time(t, At(p))]
  BY <1>1 DEF AnalysisMap
<1>4. m = [p \in DOMAIN m |-> m[p]]
  BY DEF Maps
<1>5. AnalysisMap(t) = [p \in DOMAIN m |-> m[p]]
  BY <1>1, <1>2, <1>3
<1> QED
  BY <1>4, <1>5 DEF t

\* A beginning of a text, cut or not, holds no more than the text.
LEMMA BeginningHolds ==
  ASSUME NEW t \in Seq(Fields), NEW m \in Maps, Holds(t, m),
         NEW n \in 0..Len(t), NEW b \in Beginning(t, n)
  PROVE  b \in Seq(Fields) /\ Holds(b, m)
<1>1. b \in Seq(Fields) /\ Len(b) = n /\ \A k \in 1..n : b[k] = t[k] \/ (k = n /\ b[k] = Cut)
  <2> DEFINE s == SubSeq(t, 1, n)
  <2>1. s \in Seq(Fields) /\ Len(s) = n /\ \A k \in 1..n : s[k] = t[k]
    OBVIOUS
  <2>2. b = s \/ (n # 0 /\ b = [s EXCEPT ![n] = Cut])
    BY DEF Beginning
  <2> HIDE DEF s
  <2>3. CASE b = s
    BY <2>1, <2>3
  <2>4. CASE n # 0 /\ b = [s EXCEPT ![n] = Cut]
    BY <2>1, <2>4 DEF Fields
  <2> QED
    BY <2>2, <2>3, <2>4
<1>2. ASSUME NEW i \in Pairs(b)
      PROVE  Address(b, i) \in DOMAIN m /\ Time(b, i) \in {m[Address(b, i)], Cut}
  <2>1. n \in Nat /\ n <= Len(t) /\ i \in Nat /\ 1 <= i /\ i <= n \div 2 /\ Len(t) \in Nat
    BY <1>1 DEF Pairs
  <2>2. 2 * i <= n /\ i <= Len(t) \div 2
    BY <2>1
  <2>3. i \in Pairs(t) /\ 2 * i - 1 \in 1..n /\ 2 * i \in 1..n /\ 2 * i - 1 # n
    BY <2>1, <2>2 DEF Pairs
  <2>4. Address(b, i) = Address(t, i)
    BY <1>1, <2>3 DEF Address
  <2>5. Time(b, i) \in {Time(t, i), Cut}
    BY <1>1, <2>3 DEF Time
  <2> QED
    BY <2>3, <2>4, <2>5 DEF Holds
<1> QED
  BY <1>1, <1>2 DEF Holds

LEMMA TextEmpty ==
  /\ Empty \in Maps
  /\ Text(Empty) = <<>>
  /\ <<>> \in Seq(Fields)
  /\ \A m \in Maps : Holds(<<>>, m)
<1>1. Empty \in Maps /\ DOMAIN Empty = {}
  BY DEF Maps, Empty
<1>2. Text(Empty) \in Seq(Fields) /\ Len(Text(Empty)) = 0
  <2>1. Cardinality(DOMAIN Empty) = 0
    BY <1>1, FS_EmptySet
  <2>2. Text(Empty) \in Seq(Fields) /\ Len(Text(Empty)) = 2 * Cardinality(DOMAIN Empty)
    BY <1>1, TextPairs, Zenon
  <2> QED
    BY <2>1, <2>2
<1>3. \A m \in Maps : Holds(<<>>, m)
  BY DEF Holds, Pairs
<1> QED
  BY <1>1, <1>2, <1>3

\* What GetMap may return of a text that holds a map, and of a whole one.
LEMMA GetHeld ==
  ASSUME NEW t \in Seq(Fields), NEW m \in Maps, Holds(t, m), NEW g \in GetMap(t)
  PROVE  /\ g \in Maps
         /\ DOMAIN g \subseteq DOMAIN m
         /\ \A p \in DOMAIN g : g[p] \in {m[p], Cut}
<1>1. CASE Len(t) <= BUF
  BY <1>1, ReadHeld DEF GetMap
<1>2. CASE ~(Len(t) <= BUF)
  <2>1. BUF \in 0..Len(t)
    BY <1>2, StartUpAssumption
  <2>2. PICK b \in Beginning(t, BUF) : g = AnalysisMap(b)
    BY <1>2 DEF GetMap
  <2>3. Holds(b, m)
    BY <2>1, BeginningHolds
  <2> QED
    BY <2>2, <2>3, ReadHeld
<1> QED
  BY <1>1, <1>2

LEMMA GetSaved ==
  ASSUME NEW m \in Maps, Fits(m), NEW g \in GetMap(Text(m))
  PROVE  g = m
<1>1. Len(Text(m)) <= BUF
  BY TextPairs DEF Fits
<1> QED
  BY <1>1, RoundTrip DEF GetMap

\* What a power failure leaves holds some map.
LEMMA RemainsHold ==
  ASSUME NEW t \in Remains
  PROVE  t \in Seq(Fields) /\ \E m \in Maps : Holds(t, m)
<1>1. PICK m \in Maps : t \in UNION {Beginning(Text(m), n) : n \in 0..Len(Text(m))}
  BY DEF Remains
<1>2. PICK n \in 0..Len(Text(m)) : t \in Beginning(Text(m), n)
  BY <1>1
<1>3. Text(m) \in Seq(Fields) /\ Holds(Text(m), m)
  BY TextPairs
<1> QED
  BY <1>2, <1>3, BeginningHolds

\* Nothing is left behind a text that is written into an empty file.
LEMMA WriteEmpty ==
  ASSUME NEW t \in Seq(Fields), text = <<>>
  PROVE  WriteFrom0(t) = t
<1>1. Len(t) \in Nat /\ SubSeq(text, Len(t) + 1, Len(text)) = <<>>
  OBVIOUS
<1> QED
  BY <1>1 DEF WriteFrom0
-----------------------------------------------------------------------------
(***************************************************************************)
(* The inductive invariant.                                                *)
(***************************************************************************)

\* What runs in which phase of Start.
BootInv ==
  /\ gpio_config_flag = 1 <=> phase \in {"tasks", "run"}
  /\ receiving <=> phase \in {"config", "tasks", "run"}
  /\ tasks => phase = "run"
  /\ phase = "bind" => basedevice_ID
  /\ phase \in {"off", "connect"} => job = "none" /\ DOMAIN sessionmap = {}
  /\ job = "write" => receiving

\* Which ports the sessions have.
PortInv ==
  /\ base_port = PortAt(created)
  /\ \A p \in DOMAIN sessionmap :
       IF p = Master THEN sessionmap[p] = MASTER_PORT
       ELSE \E k \in Nat : k < created /\ sessionmap[p] = PortAt(k)

\* What the file holds: part of some map, of the one that was saved last when
\* the power did not fail.
FileInv ==
  /\ \E m \in Maps : Holds(text, m)
  /\ ~blackout => Holds(text, saved)
  /\ blackout => torn
  /\ job = "write" /\ mapOpen => text = <<>> /\ saved = newmap
  /\ ~torn /\ ~(job = "write" /\ mapOpen) => text = Text(saved)

\* What a master that starts has done for the members it read.
ResumeInv ==
  phase = "bind" =>
    /\ ~torn /\ Fits(saved) => newmap = saved
    /\ DOMAIN sessionmap \cup todo = DOMAIN newmap
    /\ job = "none" => todo = {}

Inv == TypeOK /\ BootInv /\ PortInv /\ FileInv /\ ResumeInv

\* Everything that ends a process by the same way out.
LEMMA StopsBoot ==
  ASSUME NEW c, Stops(c)
  PROVE  /\ BootInv'
         /\ ResumeInv'
         /\ BASE = PortAt(0) => PortInv'
<1>1. DOMAIN sessionmap' = {}
  BY DEF Stops, Empty
<1>2. BootInv' /\ ResumeInv'
  BY <1>1 DEF Stops, BootInv, ResumeInv
<1>3. BASE = PortAt(0) => PortInv'
  BY <1>1 DEF Stops, PortInv
<1> QED
  BY <1>2, <1>3

LEMMA StopsTypes ==
  ASSUME TypeOK, NEW c \in {"gpio", "port", "overflow", "killed"}, Stops(c),
         newmap' \in Maps, saved' \in Maps, torn' \in BOOLEAN, blackout' \in BOOLEAN,
         text' \in Seq(Members \cup Times \cup {Cut})
  PROVE  TypeOK'
<1>1. DOMAIN sessionmap' = {}
  BY DEF Stops, Empty
<1>2. /\ DOMAIN sessionmap' \subseteq Members \cup {Master}
      /\ \A p \in DOMAIN sessionmap' : sessionmap'[p] \in Nat
  BY <1>1
<1>3. base_port' \in 0..(PORTS - 1) /\ created' \in 0..MaxSessions
  BY StartUpAssumption DEF Stops
<1> QED
  BY <1>2, <1>3 DEF TypeOK, Stops
-----------------------------------------------------------------------------
(***************************************************************************)
(* Types.                                                                  *)
(***************************************************************************)

LEMMA ModType ==
  ASSUME NEW n \in Nat
  PROVE  n % PORTS \in 0..(PORTS - 1)
BY StartUpAssumption

LEMMA EndTypes ==
  ASSUME TypeOK, FileInv, NEW c \in {"gpio", "port", "overflow", "killed"}
  PROVE  /\ Exits(c) => TypeOK'
         /\ Killed => TypeOK'
         /\ PowerFails => TypeOK'
<1>1. /\ saved \in Maps /\ text \in Seq(Fields)
      /\ torn \in BOOLEAN /\ blackout \in BOOLEAN /\ Empty \in Maps
  BY TextEmpty DEF TypeOK, Fields
<1>2. ASSUME Exits(c) PROVE TypeOK'
  BY <1>1, <1>2, StopsTypes DEF Exits, Fields
<1>3. ASSUME Killed PROVE TypeOK'
  BY <1>1, <1>3, StopsTypes DEF Killed, Exits, Fields
<1>4. ASSUME PowerFails PROVE TypeOK'
  <2>1. text' \in Seq(Fields)
    BY <1>4, RemainsHold DEF PowerFails
  <2> QED
    BY <1>1, <1>4, <2>1, StopsTypes DEF PowerFails, Fields
<1> QED
  BY <1>2, <1>3, <1>4

LEMMA SessionTypes ==
  ASSUME TypeOK, FileInv, RtpSessionCreate
  PROVE  TypeOK'
<1>1. CASE CreateSession
  <2>1. PICK p \in todo :
          \/ Exits("port")
          \/ /\ sessionmap' = With(sessionmap, p, base_port)
             /\ base_port' = NextPort(base_port)
             /\ created' = created + 1
             /\ todo' = todo \ {p}
             /\ UNCHANGED <<bootVars, job, newmap, fileVars, starts>>
    BY <1>1 DEF CreateSession
  <2>2. CASE Exits("port")
    BY <2>2, EndTypes
  <2>3. CASE ~Exits("port")
    <3>1. p \in Members /\ newmap \in Maps
      BY DEF TypeOK, Maps
    <3>2. base_port \in Nat /\ base_port' \in 0..(PORTS - 1)
      <4>1. base_port \in Nat /\ base_port + STEP \in Nat
        BY StartUpAssumption DEF TypeOK
      <4>2. (base_port + STEP) % PORTS \in 0..(PORTS - 1)
        BY <4>1, ModType
      <4> QED
        BY <2>1, <2>3, <4>1, <4>2 DEF NextPort
    <3>3. /\ DOMAIN sessionmap' \subseteq Members \cup {Master}
          /\ \A q \in DOMAIN sessionmap' : sessionmap'[q] \in Nat
      BY <2>1, <2>3, <3>1, <3>2 DEF With, TypeOK
    <3>4. created' \in 0..MaxSessions
      BY <1>1, <2>1, <2>3, StartUpAssumption DEF CreateSession, TypeOK
    <3> QED
      BY <2>1, <2>3, <3>2, <3>3, <3>4 DEF TypeOK, bootVars, fileVars
  <2> QED
    BY <2>2, <2>3
<1>2. CASE MasterSession
  <2>1. CASE Exits("port")
    BY <2>1, EndTypes
  <2>2. CASE ~Exits("port")
    <3>1. sessionmap' = With(sessionmap, Master, MASTER_PORT)
      BY <1>2, <2>2 DEF MasterSession
    <3>2. /\ DOMAIN sessionmap' \subseteq Members \cup {Master}
          /\ \A q \in DOMAIN sessionmap' : sessionmap'[q] \in Nat
      BY <3>1, PortAssumption DEF With, TypeOK
    <3> QED
      BY <1>2, <2>2, <3>2 DEF MasterSession, TypeOK, bootVars, jobVars, fileVars
  <2> QED
    BY <2>1, <2>2
<1>3. CASE CloseSessions
  <2>1. /\ DOMAIN sessionmap' \subseteq Members \cup {Master}
        /\ \A q \in DOMAIN sessionmap' : sessionmap'[q] \in Nat
    BY <1>3 DEF CloseSessions, TypeOK
  <2> QED
    BY <1>3, <2>1 DEF CloseSessions, TypeOK, bootVars, fileVars
<1> QED
  BY <1>1, <1>2, <1>3 DEF RtpSessionCreate

LEMMA MapTypes ==
  ASSUME TypeOK, FileInv, OnSlaveMap
  PROVE  TypeOK'
<1>1. ASSUME NEW m \in Maps, SaveMap(m) PROVE TypeOK'
  <2>1. CASE Stops("overflow") /\ UNCHANGED fileVars
    BY <1>1, <2>1, StopsTypes DEF SaveMap, fileVars, TypeOK
  <2>2. CASE ~(Stops("overflow") /\ UNCHANGED fileVars)
    <3>1. text' \in Seq(Fields)
      BY <1>1, <2>2, TextEmpty DEF SaveMap, TypeOK, fileVars, Fields
    <3>2. /\ newmap' = m /\ todo' = NeedSession(m) /\ job' \in {"sessions", "write"}
          /\ saved' \in Maps /\ torn' \in BOOLEAN /\ blackout' \in BOOLEAN
          /\ UNCHANGED <<bootVars, sessionVars, starts>>
      BY <1>1, <2>2 DEF SaveMap, TypeOK, fileVars
    <3> QED
      BY <3>1, <3>2 DEF NeedSession, TypeOK, bootVars, sessionVars, Fields
  <2> QED
    BY <2>1, <2>2
<1>2. CASE WriteMap
  <2>1. text' \in Seq(Fields)
    <3>1. text \in Seq(Fields) /\ newmap \in Maps
      BY DEF TypeOK, Fields
    <3>2. mapOpen => text' = Text(newmap)
      BY <1>2, <3>1, TextPairs, WriteEmpty DEF FileInv, WriteMap
    <3> QED
      BY <1>2, <3>1, <3>2, TextPairs DEF WriteMap
  <2> QED
    BY <1>2, <2>1 DEF WriteMap, TypeOK, bootVars, sessionVars, Fields
<1> QED
  BY <1>1, <1>2 DEF OnSlaveMap

LEMMA StartTypes ==
  ASSUME TypeOK, FileInv, Start
  PROVE  TypeOK'
<1>1. ASSUME NEW config \in Configs, ReadConfig(config) PROVE TypeOK'
  BY <1>1, StartUpAssumption
  DEF ReadConfig, IsMaster, OpensMap, TypeOK, jobVars, sessionVars, fileVars
<1>2. CASE MasterReadsMap
  <2>1. text \in Seq(Fields) /\ \E m \in Maps : Holds(text, m)
    BY DEF TypeOK, FileInv, Fields
  <2>2. newmap' \in Maps /\ todo' \subseteq DOMAIN newmap' /\ job' \in {"none", "sessions"}
    BY <1>2, <2>1, GetHeld DEF MasterReadsMap, NeedSession
  <2> QED
    BY <1>2, <2>2 DEF MasterReadsMap, TypeOK, sessionVars, fileVars
<1>3. CASE Connect
  BY <1>3 DEF Connect, InitSocket, TypeOK, jobVars, sessionVars, fileVars
<1>4. CASE ConfigHw
  <2>1. CASE Exits("port")
    BY <2>1, EndTypes
  <2>2. CASE ~Exits("port")
    BY <1>4, <2>2 DEF ConfigHw, ConfigGpio, TypeOK, jobVars, sessionVars, fileVars
  <2> QED
    BY <2>1, <2>2
<1>5. CASE TaskStart
  BY <1>5 DEF TaskStart, TypeOK, jobVars, sessionVars, fileVars
<1> QED
  BY <1>1, <1>2, <1>3, <1>4, <1>5 DEF Start

LEMMA StepTypes ==
  ASSUME TypeOK, FileInv, [Next]_vars
  PROVE  TypeOK'
<1>1. CASE UNCHANGED vars
  BY <1>1 DEF TypeOK, vars, bootVars, jobVars, sessionVars, fileVars
<1>2. CASE UseGpio
  BY <1>2, EndTypes DEF UseGpio
<1> QED
  BY <1>1, <1>2, EndTypes, SessionTypes, MapTypes, StartTypes DEF Next
-----------------------------------------------------------------------------
(***************************************************************************)
(* What runs in which phase.                                               *)
(***************************************************************************)

LEMMA StepBoot ==
  ASSUME TypeOK, BootInv, [Next]_vars
  PROVE  BootInv'
<1>1. CASE UNCHANGED vars
  BY <1>1 DEF BootInv, vars, bootVars, jobVars, sessionVars
<1>2. ASSUME NEW c, Exits(c) PROVE BootInv'
  BY <1>2, StopsBoot DEF Exits
<1>3. CASE UseGpio
  BY <1>2, <1>3 DEF UseGpio
<1>4. CASE Killed
  BY <1>2, <1>4 DEF Killed
<1>5. CASE PowerFails
  BY <1>5, StopsBoot DEF PowerFails
<1>6. CASE OnSlaveMap
  <2>1. ASSUME NEW m \in Maps, SaveMap(m), ~Stops("overflow") PROVE BootInv'
    <3>1. /\ receiving /\ phase \in {"config", "tasks", "run"}
          /\ UNCHANGED <<phase, basedevice_ID, gpio_config_flag, receiving, tasks, sessionmap>>
      BY <2>1 DEF SaveMap, BootInv, bootVars, sessionVars
    <3> QED
      BY <3>1 DEF BootInv
  <2>2. CASE WriteMap
    BY <2>2 DEF WriteMap, BootInv, bootVars, sessionVars
  <2> QED
    BY <1>6, <2>1, <2>2, StopsBoot DEF OnSlaveMap
<1>7. CASE RtpSessionCreate
  <2>1. ASSUME CreateSession, ~Exits("port") PROVE BootInv'
    BY <2>1 DEF CreateSession, BootInv, bootVars
  <2>2. ASSUME MasterSession, ~Exits("port") PROVE BootInv'
    BY <2>2 DEF MasterSession, BootInv, bootVars, jobVars
  <2>3. CASE CloseSessions
    BY <2>3 DEF CloseSessions, BootInv, bootVars
  <2> QED
    BY <1>2, <1>7, <2>1, <2>2, <2>3 DEF RtpSessionCreate
<1>8. CASE Start
  <2>1. ASSUME NEW config, ReadConfig(config) PROVE BootInv'
    BY <2>1 DEF ReadConfig, BootInv, jobVars, sessionVars
  <2>2. CASE MasterReadsMap
    BY <2>2 DEF MasterReadsMap, BootInv, sessionVars
  <2>3. CASE Connect
    BY <2>3 DEF Connect, InitSocket, BootInv, jobVars, sessionVars
  <2>4. ASSUME ConfigHw, ~Exits("port") PROVE BootInv'
    <3>1. phase = "config" /\ receiving /\ ~tasks
      BY <2>4 DEF ConfigHw, BootInv
    <3>2. phase' = "tasks" /\ gpio_config_flag' = 1
      BY <2>4 DEF ConfigHw, ConfigGpio
    <3>3. receiving' = receiving /\ tasks' = tasks
      BY <2>4 DEF ConfigHw
    <3> QED
      BY <3>1, <3>2, <3>3 DEF BootInv
  <2>5. CASE TaskStart
    <3>1. phase = "tasks" /\ gpio_config_flag = 1 /\ receiving
      BY <2>5 DEF TaskStart, BootInv
    <3>2. phase' = "run" /\ tasks' /\ gpio_config_flag' = 1 /\ receiving'
      BY <2>5, <3>1 DEF TaskStart
    <3> QED
      BY <3>1, <3>2 DEF BootInv
  <2>6. CASE ConfigHw
    BY <1>2, <2>4, <2>6
  <2> QED
    BY <1>8, <2>1, <2>2, <2>3, <2>5, <2>6 DEF Start
<1> QED
  BY <1>1, <1>3, <1>4, <1>5, <1>6, <1>7, <1>8 DEF Next
-----------------------------------------------------------------------------
(***************************************************************************)
(* Ports.                                                                  *)
(***************************************************************************)

LEMMA MulGrows ==
  ASSUME NEW n \in Nat \ {0}, NEW d \in Int, NEW e \in Int, d >= e + 1
  PROVE  n * d >= n * e + n
<1>1. n * (d - e) >= n
  <2>1. ASSUME NEW x \in Nat \ {0} PROVE n * x >= n
    OBVIOUS
  <2> QED
    BY <2>1
<1>2. n * (d - e) = n * d - n * e
  OBVIOUS
<1> QED
  BY <1>1, <1>2

LEMMA ModUnique ==
  ASSUME NEW n \in Nat \ {0}, NEW q \in Int, NEW r \in Nat, r < n
  PROVE  (n * q + r) % n = r
<1> DEFINE a == n * q + r
           d == a \div n
           s == a % n
<1>1. a \in Int /\ d \in Int /\ s \in Nat /\ s < n /\ a = n * d + s
  OBVIOUS
<1> HIDE DEF a, d, s
<1>2. n * d + s = n * q + r
  BY <1>1 DEF a
<1>3. n * d \in Int /\ n * q \in Int
  BY <1>1
<1>4. ~(d >= q + 1)
  BY <1>1, <1>2, <1>3, MulGrows
<1>5. ~(q >= d + 1)
  BY <1>1, <1>2, <1>3, MulGrows
<1>6. d = q
  BY <1>1, <1>4, <1>5
<1>7. s = r
  BY <1>1, <1>2, <1>3, <1>6
<1> QED
  BY <1>7 DEF s, a

LEMMA ModAdd ==
  ASSUME NEW n \in Nat \ {0}, NEW a \in Int, NEW b \in Int
  PROVE  ((a % n) + b) % n = (a + b) % n
<1> DEFINE d == a \div n
           e == (a + b) \div n
           r == (a + b) % n
<1>1. d \in Int /\ a % n \in Int /\ a = n * d + (a % n)
  OBVIOUS
<1>2. e \in Int /\ r \in Nat /\ r < n /\ a + b = n * e + r
  OBVIOUS
<1> HIDE DEF d, e, r
<1>3. n * (e - d) = n * e - n * d /\ n * e \in Int /\ n * d \in Int
  BY <1>1, <1>2
<1>4. (a % n) + b = n * (e - d) + r
  BY <1>1, <1>2, <1>3
<1>5. (n * (e - d) + r) % n = r
  BY <1>1, <1>2, ModUnique
<1> QED
  BY <1>4, <1>5 DEF r

\* The counter follows PortAt, although it only ever adds to itself.
LEMMA PortFollows ==
  /\ PortAt(0) = BASE
  /\ \A k \in Nat : NextPort(PortAt(k)) = PortAt(k + 1)
<1>1. PortAt(0) = BASE
  <2>1. (PORTS * 0 + BASE) % PORTS = BASE
    BY ModUnique, StartUpAssumption
  <2>2. PORTS * 0 + BASE = BASE + STEP * 0
    BY StartUpAssumption
  <2> QED
    BY <2>1, <2>2 DEF PortAt
<1>2. ASSUME NEW k \in Nat PROVE NextPort(PortAt(k)) = PortAt(k + 1)
  <2> DEFINE a == BASE + STEP * k
  <2>1. a \in Nat /\ STEP \in Nat /\ a + STEP = BASE + STEP * (k + 1)
    BY StartUpAssumption
  <2> HIDE DEF a
  <2>2. PORTS \in Nat \ {0} /\ a \in Int /\ STEP \in Int
    BY <2>1, StartUpAssumption
  <2>3. ((a % PORTS) + STEP) % PORTS = (a + STEP) % PORTS
    BY <2>2, ModAdd, Zenon
  <2> QED
    BY <2>1, <2>3 DEF NextPort, PortAt, a
<1> QED
  BY <1>1, <1>2

\* Before a process has made LAP sessions, every port it asks for is free.
LEMMA PortsFree ==
  ASSUME TypeOK, PortInv, created < LAP
  PROVE  /\ Uses(base_port) \cap InUse = {}
         /\ Master \notin DOMAIN sessionmap => Uses(MASTER_PORT) \cap InUse = {}
         /\ phase = "config" => Uses(RECV_PORT) \cap InUse = {}
<1> USE DEF Reserved
<1>1. created \in Nat /\ base_port = PortAt(created)
  BY StartUpAssumption DEF TypeOK, PortInv
<1>2. \A k \in Nat : k < LAP => Uses(PortAt(k)) \cap Reserved = {}
  BY PortAssumption
<1>3. \A k \in Nat : k < created => Uses(PortAt(created)) \cap Uses(PortAt(k)) = {}
  BY <1>1, PortAssumption
<1>4. /\ Uses(MASTER_PORT) \cap (Uses(RECV_PORT) \cup {CONTROL_PORT}) = {}
      /\ CONTROL_PORT \notin Uses(RECV_PORT)
  BY PortAssumption
<1>5. ASSUME NEW p \in DOMAIN sessionmap
      PROVE  IF p = Master THEN sessionmap[p] = MASTER_PORT
             ELSE \E k \in Nat : k < created /\ k < LAP /\ sessionmap[p] = PortAt(k)
  BY <1>1, PortAssumption DEF PortInv
<1> HIDE DEF Reserved
<1>6. Reserved = {0, CONTROL_PORT} \cup Uses(MASTER_PORT) \cup Uses(RECV_PORT)
  BY DEF Reserved
<1>7. ASSUME NEW S, \A p \in DOMAIN sessionmap : S \cap Uses(sessionmap[p]) = {},
             receiving => CONTROL_PORT \notin S,
             phase \in {"tasks", "run"} => S \cap Uses(RECV_PORT) = {}
      PROVE  S \cap InUse = {}
  <2> DEFINE A == UNION {Uses(sessionmap[p]) : p \in DOMAIN sessionmap}
             B == IF receiving THEN {CONTROL_PORT} ELSE {}
             C == IF phase \in {"tasks", "run"} THEN Uses(RECV_PORT) ELSE {}
  <2>1. S \cap A = {}
    BY <1>7
  <2>2. S \cap B = {}
    BY <1>7
  <2>3. S \cap C = {}
    BY <1>7
  <2>4. InUse = A \cup B \cup C
    BY DEF InUse
  <2> QED
    BY <2>1, <2>2, <2>3, <2>4
<1>8. Uses(base_port) \cap InUse = {}
  <2>1. ASSUME NEW p \in DOMAIN sessionmap PROVE Uses(base_port) \cap Uses(sessionmap[p]) = {}
    BY <1>1, <1>2, <1>3, <1>5, <1>6
  <2>2. Uses(base_port) \cap Reserved = {}
    BY <1>1, <1>2
  <2> QED
    BY <1>6, <1>7, <2>1, <2>2
<1>9. ASSUME NEW p \in DOMAIN sessionmap
      PROVE  /\ Uses(RECV_PORT) \cap Uses(sessionmap[p]) = {}
             /\ p # Master => Uses(MASTER_PORT) \cap Uses(sessionmap[p]) = {}
  BY <1>2, <1>4, <1>5, <1>6
<1> QED
  BY <1>4, <1>7, <1>8, <1>9

LEMMA StepPorts ==
  ASSUME TypeOK, PortInv, [Next]_vars
  PROVE  PortInv'
<1>1. created \in Nat /\ BASE = PortAt(0)
  BY PortFollows, StartUpAssumption DEF TypeOK
<1>2. ASSUME UNCHANGED sessionVars PROVE PortInv'
  BY <1>2 DEF sessionVars, PortInv
<1>3. ASSUME NEW c, Stops(c) PROVE PortInv'
  BY <1>1, <1>3, StopsBoot
<1>4. CASE Next /\ ~RtpSessionCreate
  <2>1. (\E c \in {"gpio", "port", "overflow", "killed"} : Stops(c)) \/ UNCHANGED sessionVars
    BY <1>4 DEF Next, Start, ReadConfig, MasterReadsMap, Connect, ConfigHw, TaskStart, UseGpio,
                OnSlaveMap, SaveMap, WriteMap, Exits, Killed, PowerFails
  <2> QED
    BY <1>2, <1>3, <2>1
<1>5. CASE CreateSession
  <2>1. PICK p \in todo :
          \/ Stops("port")
          \/ /\ sessionmap' = With(sessionmap, p, base_port)
             /\ base_port' = NextPort(base_port)
             /\ created' = created + 1
    BY <1>5 DEF CreateSession, Exits
  <2>2. CASE ~Stops("port")
    <3>1. p # Master
      BY StartUpAssumption DEF TypeOK, Maps
    <3>2. base_port' = PortAt(created')
      BY <1>1, <2>1, <2>2, PortFollows DEF PortInv
    <3>3. ASSUME NEW q \in DOMAIN sessionmap'
          PROVE  IF q = Master THEN sessionmap'[q] = MASTER_PORT
                 ELSE \E k \in Nat : k < created' /\ sessionmap'[q] = PortAt(k)
      <4>1. CASE q = p
        BY <1>1, <2>1, <2>2, <3>1, <4>1 DEF With, PortInv
      <4>2. CASE q # p
        BY <1>1, <2>1, <2>2, <4>2 DEF With, PortInv
      <4> QED
        BY <4>1, <4>2
    <3> QED
      BY <3>2, <3>3 DEF PortInv
  <2> QED
    BY <1>3, <2>2
<1>6. CASE MasterSession
  <2>1. \/ Stops("port")
        \/ sessionmap' = With(sessionmap, Master, MASTER_PORT) /\ UNCHANGED <<base_port, created>>
    BY <1>6 DEF MasterSession, Exits
  <2>2. CASE ~Stops("port")
    BY <2>1, <2>2 DEF With, PortInv
  <2> QED
    BY <1>3, <2>2
<1>7. CASE CloseSessions
  BY <1>7 DEF CloseSessions, PortInv
<1>8. CASE UNCHANGED vars
  BY <1>2, <1>8 DEF vars
<1> QED
  BY <1>4, <1>5, <1>6, <1>7, <1>8 DEF RtpSessionCreate
-----------------------------------------------------------------------------
(***************************************************************************)
(* The file.                                                               *)
(***************************************************************************)

LEMMA StepFile ==
  ASSUME TypeOK, BootInv, FileInv, [Next]_vars
  PROVE  FileInv'
<1>1. saved \in Maps /\ newmap \in Maps /\ text \in Seq(Fields)
  BY DEF TypeOK, Fields
<1>2. ASSUME UNCHANGED fileVars, job' # "write", job # "write" PROVE FileInv'
  BY <1>2 DEF fileVars, FileInv
<1>3. ASSUME UNCHANGED <<fileVars, job, mapOpen, newmap>> PROVE FileInv'
  BY <1>3 DEF fileVars, FileInv
<1>4. ASSUME NEW c, Exits(c) PROVE FileInv'
  BY <1>4 DEF Exits, Stops, FileInv
<1>5. CASE UNCHANGED vars
  BY <1>3, <1>5 DEF vars, bootVars, jobVars
<1>6. CASE UseGpio
  BY <1>4, <1>6 DEF UseGpio
<1>7. CASE Killed
  BY <1>4, <1>7 DEF Killed
<1>8. CASE PowerFails
  <2>1. \E m \in Maps : Holds(text', m)
    BY <1>8, RemainsHold DEF PowerFails
  <2> QED
    BY <1>8, <2>1 DEF PowerFails, Stops, FileInv
<1>9. ASSUME NEW m \in Maps, SaveMap(m) PROVE FileInv'
  <2>1. job = "none" /\ text = text /\ newmap' = m
    BY <1>9 DEF SaveMap
  <2>2. CASE Stops("overflow") /\ UNCHANGED fileVars
    BY <1>2, <2>1, <2>2 DEF Stops
  <2>3. CASE ~(Stops("overflow") /\ UNCHANGED fileVars)
    <3>1. /\ mapOpen' = mapOpen
          /\ job' = IF m = Empty THEN "sessions" ELSE "write"
          /\ IF mapOpen THEN text' = <<>> /\ saved' = m /\ torn' = FALSE /\ blackout' = FALSE
                        ELSE UNCHANGED fileVars
      BY <1>9, <2>3 DEF SaveMap, bootVars
    <3>2. CASE mapOpen
      BY <2>1, <3>1, <3>2, TextEmpty DEF FileInv
    <3>3. CASE ~mapOpen
      BY <3>1, <3>3 DEF FileInv, fileVars
    <3> QED
      BY <3>2, <3>3
  <2> QED
    BY <2>2, <2>3
<1>10. CASE WriteMap
  <2>1. job = "write" /\ job' = "sessions" /\ UNCHANGED <<newmap, saved, torn, blackout, mapOpen>>
    BY <1>10 DEF WriteMap, bootVars
  <2>2. CASE mapOpen
    <3>1. text = <<>> /\ saved = newmap
      BY <2>1, <2>2 DEF FileInv
    <3>2. text' = Text(saved)
      BY <1>1, <1>10, <2>2, <3>1, TextPairs, WriteEmpty DEF WriteMap
    <3> QED
      BY <1>1, <2>1, <3>2, TextPairs DEF FileInv
  <2>3. CASE ~mapOpen
    BY <1>10, <2>1, <2>3 DEF WriteMap, FileInv
  <2> QED
    BY <2>2, <2>3
<1>11. CASE RtpSessionCreate
  <2>1. job = "sessions"
    BY <1>11 DEF RtpSessionCreate, CreateSession, MasterSession, CloseSessions
  <2>2. Exits("port") \/ (UNCHANGED fileVars /\ job' \in {"none", "sessions"})
    BY <1>11, <2>1
    DEF RtpSessionCreate, CreateSession, MasterSession, CloseSessions, jobVars
  <2> QED
    BY <1>2, <1>4, <2>1, <2>2
<1>12. CASE Start
  <2>1. ASSUME NEW config, ReadConfig(config) PROVE FileInv'
    <3>1. job = "none"
      BY <2>1 DEF ReadConfig, BootInv
    <3> QED
      BY <1>2, <2>1, <3>1 DEF ReadConfig, jobVars
  <2>2. CASE MasterReadsMap
    <3>1. job = "none"
      BY <2>2 DEF MasterReadsMap, BootInv
    <3> QED
      BY <1>2, <2>2, <3>1 DEF MasterReadsMap
  <2>3. CASE Connect \/ TaskStart
    BY <1>3, <2>3 DEF Connect, TaskStart, jobVars
  <2>4. CASE ConfigHw
    <3>1. Exits("port") \/ UNCHANGED <<fileVars, job, mapOpen, newmap>>
      BY <2>4 DEF ConfigHw, jobVars
    <3> QED
      BY <1>3, <1>4, <3>1
  <2> QED
    BY <1>12, <2>1, <2>2, <2>3, <2>4 DEF Start
<1> QED
  BY <1>5, <1>6, <1>7, <1>8, <1>9, <1>10, <1>11, <1>12 DEF Next, OnSlaveMap
-----------------------------------------------------------------------------
(***************************************************************************)
(* A master that starts.                                                   *)
(***************************************************************************)

LEMMA StepResume ==
  ASSUME TypeOK, BootInv, FileInv, ResumeInv, [Next]_vars
  PROVE  ResumeInv'
<1>1. ASSUME NEW c, Stops(c) PROVE ResumeInv'
  BY <1>1, StopsBoot
<1>2. ASSUME phase' # "bind" PROVE ResumeInv'
  BY <1>2 DEF ResumeInv
<1>3. CASE UNCHANGED vars
  BY <1>3 DEF ResumeInv, Fits, vars, bootVars, jobVars, sessionVars, fileVars
<1>4. CASE OnSlaveMap
  <2>1. \A m \in Maps : SaveMap(m) => receiving /\ (Stops("overflow") \/ phase' = phase)
    BY DEF SaveMap, bootVars
  <2>2. WriteMap => job = "write" /\ phase' = phase
    BY DEF WriteMap, bootVars
  <2>3. receiving \/ job = "write" => phase # "bind"
    BY DEF BootInv
  <2> QED
    BY <1>1, <1>2, <1>4, <2>1, <2>2, <2>3 DEF OnSlaveMap
<1>5. CASE CreateSession
  <2>1. CASE Stops("port")
    BY <1>1, <2>1
  <2>2. CASE ~Stops("port")
    <3>1. PICK p \in todo :
            /\ sessionmap' = With(sessionmap, p, base_port)
            /\ todo' = todo \ {p}
            /\ UNCHANGED <<bootVars, job, newmap, fileVars>>
      BY <1>5, <2>2 DEF CreateSession, Exits
    <3>2. DOMAIN sessionmap' = DOMAIN sessionmap \cup {p} /\ job = "sessions"
      BY <1>5, <3>1 DEF With, CreateSession
    <3> QED
      BY <3>1, <3>2 DEF ResumeInv, Fits, bootVars, fileVars
  <2> QED
    BY <2>1, <2>2
<1>6. CASE MasterSession
  <2>1. (Stops("port") \/ phase' = phase) /\ ~basedevice_ID
    BY <1>6 DEF MasterSession, Exits, bootVars
  <2> QED
    BY <1>1, <1>2, <2>1 DEF BootInv
<1>7. CASE CloseSessions
  <2>1. /\ todo = {} /\ todo' = {}
        /\ UNCHANGED <<bootVars, newmap, fileVars>>
    BY <1>7 DEF CloseSessions
  <2>2. DOMAIN sessionmap \subseteq DOMAIN newmap => DOMAIN sessionmap' = DOMAIN sessionmap
    BY <1>7 DEF CloseSessions
  <2> QED
    BY <2>1, <2>2 DEF ResumeInv, Fits, bootVars, fileVars
<1>8. CASE MasterReadsMap
  <2>1. PICK m \in GetMap(text) :
          /\ newmap' = m
          /\ todo' = NeedSession(m)
          /\ job' = IF m = Empty THEN "none" ELSE "sessions"
    BY <1>8 DEF MasterReadsMap
  <2>2. /\ phase = "connect" /\ basedevice_ID
        /\ UNCHANGED <<sessionmap, saved, torn>>
    BY <1>8 DEF MasterReadsMap, sessionVars, fileVars
  <2>3. saved \in Maps /\ text \in Seq(Fields) /\ job = "none" /\ DOMAIN sessionmap = {}
    BY <2>2 DEF TypeOK, BootInv, Fields
  <2>4. Master \notin DOMAIN m
    <3>1. m \in Maps
      BY <2>3, GetHeld DEF FileInv
    <3> QED
      BY <3>1, StartUpAssumption DEF Maps
  <2>5. todo' = DOMAIN m
    BY <2>1, <2>2, <2>3, <2>4 DEF NeedSession, Own
  <2>6. m = Empty => DOMAIN m = {}
    BY DEF Empty
  <2>7. ~torn /\ Fits(saved) => m = saved
    BY <2>3, GetSaved DEF FileInv
  <2>8. ~torn' /\ Fits(saved)' => newmap' = saved'
    BY <2>1, <2>2, <2>7 DEF Fits
  <2> QED
    BY <2>1, <2>2, <2>3, <2>5, <2>6, <2>8 DEF ResumeInv
<1>9. ASSUME UseGpio \/ Killed \/ PowerFails PROVE ResumeInv'
  BY <1>1, <1>9 DEF UseGpio, Killed, PowerFails, Exits
<1>10. ASSUME NEW config, ReadConfig(config) PROVE ResumeInv'
  BY <1>2, <1>10 DEF ReadConfig
<1>11. ASSUME Connect \/ ConfigHw \/ TaskStart PROVE ResumeInv'
  BY <1>1, <1>2, <1>11 DEF Connect, ConfigHw, TaskStart, Exits
<1> QED
  BY <1>3, <1>4, <1>5, <1>6, <1>7, <1>8, <1>9, <1>10, <1>11 DEF Next, Start, RtpSessionCreate
-----------------------------------------------------------------------------
(***************************************************************************)
(* The theorems.                                                           *)
(***************************************************************************)

LEMMA InitInv == Init => Inv
<1> SUFFICES ASSUME Init PROVE Inv
  OBVIOUS
<1>1. DOMAIN Empty = {} /\ Empty \in Maps
  BY TextEmpty DEF Empty
<1>2. TypeOK
  <2>1. /\ BASE \in 0..(PORTS - 1) /\ 0 \in 0..MaxSessions /\ 0 \in 0..MaxStarts
        /\ <<>> \in Seq(Members \cup Times \cup {Cut})
    BY StartUpAssumption
  <2>2. /\ DOMAIN sessionmap \subseteq Members \cup {Master}
        /\ \A p \in DOMAIN sessionmap : sessionmap[p] \in Nat
    BY <1>1 DEF Init
  <2> QED
    BY <1>1, <2>1, <2>2 DEF Init, TypeOK
<1>3. BootInv /\ ResumeInv
  BY <1>1 DEF Init, BootInv, ResumeInv
<1>4. PortInv
  BY <1>1, PortFollows DEF Init, PortInv
<1>5. FileInv
  BY <1>1, TextEmpty DEF Init, FileInv
<1> QED
  BY <1>2, <1>3, <1>4, <1>5 DEF Inv

LEMMA StepInv == Inv /\ [Next]_vars => Inv'
BY StepTypes, StepBoot, StepPorts, StepFile, StepResume DEF Inv

\* The invariant of every reachable state.
THEOREM StartUpInv == Spec => []Inv
BY InitInv, StepInv, PTL DEF Spec

\* Port numbers never leave 16 bits, sessions belong to members or the master,
\* and only members of the map wait for one, whatever is started, sent, killed
\* or cut off from power (MyRepeater.cpp:1711-1793).
THEOREM StartUpTypes == Spec => []TypeOK
<1>1. Inv => TypeOK
  BY DEF Inv
<1> QED
  BY <1>1, StartUpInv, PTL

\* Unless the power failed since, GetMap never finds in /opt/map a member that
\* was not in the map SaveMap wrote last, however often the process died while
\* it wrote, and finds that map when the save was not interrupted and the text
\* fits (MFile.cpp:84-91, 655-703).
THEOREM FileIsReadBack == Spec => []FileReadsBack
<1>1. ASSUME Inv PROVE FileReadsBack
  <2> SUFFICES ASSUME ~blackout, NEW m \in GetMap(text)
      PROVE  /\ DOMAIN m \subseteq DOMAIN saved
             /\ \A p \in DOMAIN m : m[p] \in {saved[p], Cut}
             /\ ~torn /\ job # "write" /\ Fits(saved) => m = saved
    BY DEF FileReadsBack
  <2>1. text \in Seq(Fields) /\ saved \in Maps /\ Holds(text, saved)
    BY <1>1 DEF Inv, TypeOK, FileInv, Fields
  <2>2. ASSUME ~torn, job # "write", Fits(saved) PROVE m = saved
    BY <1>1, <2>1, <2>2, GetSaved DEF Inv, FileInv
  <2> QED
    BY <2>1, <2>2, GetHeld
<1> QED
  BY <1>1, StartUpInv, PTL

\* The process ends by itself only by a datagram about the channel that comes
\* before config_GPIO, by a map SaveMap has no room for, or after LAP sessions
\* (GPIO_App.cpp:402, MFile.cpp:691, Myrtp.cpp:70).
THEOREM OnlyThreeEnds == Spec => StaysUp
<1>1. ASSUME Inv, [Next]_vars, phase # "off", phase' = "off"
      PROVE  \/ exit' = "killed"
             \/ exit' = "gpio" /\ phase = "config" /\ ~tasks
             \/ exit' = "overflow" /\ ~Fits(newmap')
             \/ exit' = "port" /\ created >= LAP
  <2>1. CASE UNCHANGED vars
    BY <1>1, <2>1 DEF vars, bootVars
  <2>2. CASE UseGpio
    <3>1. exit' = "gpio" /\ gpio_config_flag # 1 /\ (tasks \/ receiving)
      BY <2>2 DEF UseGpio, Exits, Stops
    <3>2. ~tasks /\ phase = "config"
      BY <1>1, <3>1 DEF Inv, BootInv
    <3> QED
      BY <3>1, <3>2
  <2>3. CASE Killed \/ PowerFails
    BY <2>3 DEF Killed, PowerFails, Exits, Stops
  <2>4. CASE OnSlaveMap
    <3>1. ASSUME NEW m \in Maps, SaveMap(m) PROVE exit' = "overflow" /\ ~Fits(newmap')
      <4>1. Stops("overflow") \/ phase' = phase
        BY <3>1 DEF SaveMap, bootVars
      <4>2. newmap' = m /\ ~Fits(m)
        BY <1>1, <3>1 DEF SaveMap, bootVars
      <4>3. exit' = "overflow"
        BY <1>1, <4>1 DEF Stops
      <4> QED
        BY <4>2, <4>3
    <3>2. ~WriteMap
      BY <1>1 DEF WriteMap, bootVars
    <3> QED
      BY <2>4, <3>1, <3>2 DEF OnSlaveMap
  <2>5. ASSUME Exits("port") PROVE exit' = "port"
    BY <2>5 DEF Exits, Stops
  <2>6. created \in Nat /\ LAP \in Nat
    BY <1>1, StartUpAssumption, PortAssumption DEF Inv, TypeOK
  <2>7. TypeOK /\ PortInv
    BY <1>1 DEF Inv
  <2>8. CASE RtpSessionCreate
    <3>1. Exits("port")
      BY <1>1, <2>8
      DEF RtpSessionCreate, CreateSession, MasterSession, CloseSessions, bootVars
    <3>2. ~CloseSessions
      BY <1>1 DEF CloseSessions, bootVars
    <3>3. \/ Uses(base_port) \cap InUse # {}
          \/ Master \notin DOMAIN sessionmap /\ Uses(MASTER_PORT) \cap InUse # {}
      BY <1>1, <2>8, <3>2 DEF RtpSessionCreate, CreateSession, MasterSession, bootVars
    <3> QED
      BY <2>5, <2>6, <2>7, <3>1, <3>3, PortsFree
  <2>9. CASE Start
    <3>1. ConfigHw
      BY <1>1, <2>9 DEF Start, ReadConfig, MasterReadsMap, Connect, TaskStart
    <3>2. Exits("port") /\ phase = "config" /\ Uses(RECV_PORT) \cap InUse # {}
      BY <1>1, <3>1 DEF ConfigHw
    <3> QED
      BY <2>5, <2>6, <2>7, <3>2, PortsFree
  <2> QED
    BY <1>1, <2>1, <2>2, <2>3, <2>4, <2>8, <2>9 DEF Next
<1>2. Inv /\ [Next]_vars =>
        (phase # "off" /\ phase' = "off" =>
           \/ exit' = "killed"
           \/ exit' = "gpio" /\ phase = "config" /\ ~tasks
           \/ exit' = "overflow" /\ ~Fits(newmap')
           \/ exit' = "port" /\ created >= LAP)
  BY <1>1
<1> QED
  BY <1>2, StartUpInv, PTL DEF StaysUp, Spec

\* A master that starts from a file that was not torn has a session to every
\* member it saved before its receive thread runs (MyRepeater.cpp:584-604).
THEOREM MasterResumes == Spec => Resumes
<1>1. ASSUME Inv, Connect, basedevice_ID, ~torn, Fits(saved)
      PROVE  DOMAIN sessionmap = DOMAIN saved
  BY <1>1 DEF Inv, ResumeInv, Connect
<1>2. Inv /\ [Next]_vars =>
        (Connect /\ basedevice_ID /\ ~torn /\ Fits(saved) => DOMAIN sessionmap = DOMAIN saved)
  BY <1>1
<1> QED
  BY <1>2, StartUpInv, PTL DEF Resumes, Spec
-----------------------------------------------------------------------------
(***************************************************************************)
(* The ports of the code.                                                  *)
(***************************************************************************)

LEMMA Turn ==
  ASSUME PORTS = 65536, BASE = 10000, STEP = 20, NEW i \in Nat, i < 15884
  PROVE  \E p \in Nat : /\ p < 5 /\ PortAt(i) = 10000 + 20 * i - 65536 * p
                        /\ PortAt(i) \in Nat /\ PortAt(i) < 65536
<1> DEFINE x == 10000 + 20 * i
<1>1. PICK p \in Nat : p < 5 /\ 65536 * p <= x /\ x < 65536 * p + 65536
  <2>1. \/ 65536 * 0 <= x /\ x < 65536 * 0 + 65536
        \/ 65536 * 1 <= x /\ x < 65536 * 1 + 65536
        \/ 65536 * 2 <= x /\ x < 65536 * 2 + 65536
        \/ 65536 * 3 <= x /\ x < 65536 * 3 + 65536
        \/ 65536 * 4 <= x /\ x < 65536 * 4 + 65536
    BY SMT
  <2> QED
    BY <2>1, SMT
<1>2. PICK r \in Nat : r = x - 65536 * p /\ r < 65536
  BY <1>1, SMT
<1>3. \A n \in Nat \ {0} : r < n => (n * p + r) % n = r
  BY <1>1, <1>2, ModUnique, SMT
<1>4. (PORTS * p + r) % PORTS = r
  BY <1>2, <1>3, SMT
<1>5. PORTS * p + r = BASE + STEP * i
  BY <1>2, SMT
<1>6. PortAt(i) = r
  BY <1>4, <1>5, SMT DEF PortAt
<1> QED
  BY <1>1, <1>2, <1>6, SMT

\* The ports of the code keep PortAssumption with LAP = 15884: the counter comes
\* round four times before a session meets a port that is taken or port 0
\* (MyRepeater.cpp:1737; session 15884 would get port 0).
THEOREM RealPorts ==
  ASSUME PORTS = 65536, BASE = 10000, STEP = 20,
         MASTER_PORT = 4000, RECV_PORT = 8000, CONTROL_PORT = 9000,
         NEW i \in Nat, i < 15884, NEW j \in Nat, j < 15884
  PROVE  /\ Uses(PortAt(i)) \cap Reserved = {}
         /\ i # j => Uses(PortAt(i)) \cap Uses(PortAt(j)) = {}
<1>1. PICK p \in Nat : p < 5 /\ PortAt(i) = 10000 + 20 * i - 65536 * p /\ PortAt(i) \in Nat
  BY Turn, SMT
<1>2. PICK q \in Nat : q < 5 /\ PortAt(j) = 10000 + 20 * j - 65536 * q /\ PortAt(j) \in Nat
  BY Turn, SMT
<1>3. Reserved = {0, 9000, 4000, 4001, 8000, 8001}
  BY SMT DEF Reserved, Uses
<1>4. /\ PortAt(i) \notin {0, 9000, 4000, 4001, 8000, 8001}
      /\ PortAt(i) + 1 \notin {0, 9000, 4000, 4001, 8000, 8001}
  BY <1>1, SMTT(60)
<1>5. i # j => /\ PortAt(i) # PortAt(j)
               /\ PortAt(i) + 1 # PortAt(j) /\ PortAt(j) + 1 # PortAt(i)
  BY <1>1, <1>2, SMTT(60)
<1> QED
  BY <1>1, <1>2, <1>3, <1>4, <1>5, SMT DEF Uses
=============================================================================
