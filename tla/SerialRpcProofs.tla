--------------------------- MODULE SerialRpcProofs ---------------------------
(***************************************************************************)
(* Theorems about SerialRpc, for every number of calls and of errors, if    *)
(* the errors are some that the protocol can tell from what was sent.       *)
(***************************************************************************)
EXTENDS SerialRpc, SequenceTheorems, TLAPS

Byte == 0..255

\* A request may be damaged in any way.  A NAK may become any byte, and that of the server
\* may be lost; of an answer, what follows its length may be garbled; an ACK arrives.
Survivable ==
  ({"request"} \X (1..5) \X (Byte \cup {Lost}))
  \cup ({"refuse"} \X {1} \X (Byte \cup {Lost}))
  \cup ({"refused"} \X {1} \X Byte)
  \cup ({"answer"} \X (3..5) \X Byte)

\* And no drive is slower than the client is patient.
Forgiving == Errors \subseteq Survivable /\ Slow = {}

\* What the line may make of a request, and of an answer.
Damaged(d) ==
  {Packet(SOH, d)}
  \cup { ReplaceAt(Packet(SOH, d), i, b) : i \in 1..5, b \in Byte }
  \cup { RemoveAt(Packet(SOH, d), i) : i \in 1..5 }

DamagedAnswer(d) ==
  {Packet(STX, d)} \cup { ReplaceAt(Packet(STX, d), i, b) : i \in 3..5, b \in Byte }

Bytes == Seq(Nat)

\* No packet that begins in these bytes is complete.
Dead(s) == \A p \in 1..Len(s) - 1 : s[p] = SOH => Len(s) - p < s[p + 1] + 2

\* A request, and an answer.
Request == {OPEN, CLOSE, PWRITE, PROPERTIES} \X (1..31)
Answer == {OK, Failed} \X (1..31)

\* The bytes that follow an SOH hold no packet but this one, and then nothing else.
Holds(s, d) ==
  Complete(s) =>
    /\ Dead(AfterPacket(s))
    /\ Intact(s) => AfterPacket(s) = << >> /\ Body(s) = d
-------------------------------------------------------------------------------
\* Facts about sequences, for bytes.
LEMMA Joined ==
  ASSUME NEW s \in Bytes, NEW t \in Bytes
  PROVE  /\ s \o t \in Bytes /\ Len(s \o t) = Len(s) + Len(t)
         /\ \A i \in 1..Len(s) : (s \o t)[i] = s[i]
         /\ \A i \in Len(s) + 1..Len(s) + Len(t) : (s \o t)[i] = t[i - Len(s)]
  BY ConcatProperties DEF Bytes

LEMMA Same ==
  ASSUME NEW s \in Bytes, NEW t \in Bytes, Len(s) = Len(t), \A i \in 1..Len(s) : s[i] = t[i]
  PROVE  s = t
  BY SeqEqual DEF Bytes

LEMMA Cut ==
  ASSUME NEW s \in Bytes, NEW n \in 0..Len(s)
  PROVE  /\ SubSeq(s, n + 1, Len(s)) \in Bytes
         /\ Len(SubSeq(s, n + 1, Len(s))) = Len(s) - n
         /\ \A i \in 1..Len(s) - n : SubSeq(s, n + 1, Len(s))[i] = s[i + n]
<1> DEFINE m == n + 1
           k == Len(s)
<1>1. m \in Int /\ k \in Int /\ \A i \in m..k : s[i] \in Nat
  BY DEF Bytes
<1>2. k - m + 1 = k - n
  BY <1>1
<1> HIDE DEF m, k
<1>3. /\ SubSeq(s, m, k) \in Seq(Nat)
      /\ Len(SubSeq(s, m, k)) = IF m <= k THEN k - m + 1 ELSE 0
      /\ \A i \in 1..k - m + 1 : SubSeq(s, m, k)[i] = s[m + i - 1]
  BY <1>1, SubSeqProperties
<1>4. ASSUME NEW i \in 1..k - n PROVE SubSeq(s, m, k)[i] = s[i + n]
  <2>1. m + i - 1 = i + n
    BY <1>1 DEF m
  <2> QED
    BY <1>2, <1>3, <2>1
<1>5. (IF m <= k THEN k - m + 1 ELSE 0) = k - n
  BY <1>1 DEF m, k
<1>6. SubSeq(s, m, k) \in Bytes /\ Len(SubSeq(s, m, k)) = k - n
  BY <1>3, <1>5 DEF Bytes
<1> QED
  BY <1>4, <1>6 DEF m, k

LEMMA Rest ==
  ASSUME NEW s \in Bytes, s # << >>
  PROVE  /\ Head(s) = s[1] /\ Len(s) > 0 /\ Tail(s) \in Bytes /\ Len(Tail(s)) = Len(s) - 1
         /\ \A i \in 1..Len(s) - 1 : Tail(s)[i] = s[i + 1]
<1>1. Head(s) \in Nat /\ Tail(s) \in Seq(Nat) /\ Len(Tail(s)) = Len(s) - 1
      /\ \A i \in 1..Len(Tail(s)) : Tail(s)[i] = s[i + 1]
  BY HeadTailProperties DEF Bytes
<1>2. Head(s) = s[1] /\ Len(s) > 0
  BY DEF Bytes
<1> QED
  BY <1>1, <1>2 DEF Bytes

LEMMA Changed ==
  ASSUME NEW s \in Bytes, NEW i \in 1..Len(s), NEW b \in Nat
  PROVE  /\ ReplaceAt(s, i, b) \in Bytes /\ Len(ReplaceAt(s, i, b)) = Len(s)
         /\ \A j \in 1..Len(s) : ReplaceAt(s, i, b)[j] = IF j = i THEN b ELSE s[j]
<1>1. /\ [s EXCEPT ![i] = b] \in Seq(Nat) /\ Len([s EXCEPT ![i] = b]) = Len(s)
      /\ \A j \in 1..Len(s) : [s EXCEPT ![i] = b][j] = IF j = i THEN b ELSE s[j]
  BY ExceptSeq DEF Bytes
<1> QED
  BY <1>1 DEF ReplaceAt, Bytes

LEMMA Removed ==
  ASSUME NEW s \in Bytes, NEW i \in 1..Len(s)
  PROVE  /\ RemoveAt(s, i) \in Bytes /\ Len(RemoveAt(s, i)) = Len(s) - 1
         /\ \A j \in 1..Len(s) - 1 : RemoveAt(s, i)[j] = IF j < i THEN s[j] ELSE s[j + 1]
<1> DEFINE u == SubSeq(s, 1, i - 1)
           v == SubSeq(s, i + 1, Len(s))
<1>1. u \in Bytes /\ Len(u) = i - 1 /\ \A j \in 1..i - 1 : u[j] = s[j]
  <2> DEFINE k == i - 1
  <2>1. k \in Nat /\ \A j \in 1..k : s[j] \in Nat
    BY DEF Bytes
  <2> HIDE DEF k
  <2>2. SubSeq(s, 1, k) \in Seq(Nat) /\ Len(SubSeq(s, 1, k)) = (IF 1 <= k THEN k - 1 + 1 ELSE 0)
        /\ \A j \in 1..k - 1 + 1 : SubSeq(s, 1, k)[j] = s[1 + j - 1]
    BY <2>1, SubSeqProperties
  <2> QED
    BY <2>1, <2>2 DEF k, Bytes
<1>2. v \in Bytes /\ Len(v) = Len(s) - i /\ \A j \in 1..Len(s) - i : v[j] = s[j + i]
  <2>1. i \in 0..Len(s)
    BY DEF Bytes
  <2> QED
    BY <2>1, Cut
<1> HIDE DEF u, v
<1>3. /\ u \o v \in Bytes /\ Len(u \o v) = Len(u) + Len(v)
      /\ \A j \in 1..Len(u) : (u \o v)[j] = u[j]
      /\ \A j \in Len(u) + 1..Len(u) + Len(v) : (u \o v)[j] = v[j - Len(u)]
  BY <1>1, <1>2, Joined
<1>4. Len(s) \in Nat
  BY DEF Bytes
<1>5. ASSUME NEW j \in 1..Len(s) - 1
      PROVE  (u \o v)[j] = IF j < i THEN s[j] ELSE s[j + 1]
  <2>1. CASE j < i
    BY <1>1, <1>3, <1>4, <2>1
  <2>2. CASE ~(j < i)
    <3>1. (u \o v)[j] = v[j - Len(u)]
      BY <1>1, <1>2, <1>3, <1>4, <2>2
    <3> QED
      BY <1>1, <1>2, <1>4, <2>2, <3>1
  <2> QED
    BY <2>1, <2>2
<1>6. RemoveAt(s, i) = u \o v
  BY DEF RemoveAt, u, v
<1>7. Len(u \o v) = Len(s) - 1
  BY <1>1, <1>2, <1>3, <1>4
<1> QED
  BY <1>3, <1>5, <1>6, <1>7
-------------------------------------------------------------------------------
LEMMA PacketIs ==
  ASSUME NEW start \in Nat, NEW f \in Nat, NEW p \in Nat
  PROVE  /\ Packet(start, << f, p >>) \in Bytes /\ Len(Packet(start, << f, p >>)) = 5
         /\ Packet(start, << f, p >>)[1] = start /\ Packet(start, << f, p >>)[2] = 2
         /\ Packet(start, << f, p >>)[3] = f /\ Packet(start, << f, p >>)[4] = p
         /\ Packet(start, << f, p >>)[5] = 1000 + 32 * f + p
<1> DEFINE d == << f, p >>
<1>1. Len(d) = 2 /\ d[1] = f /\ d[2] = p
  OBVIOUS
<1>2. Crc(d) = 1000 + 32 * f + p
  BY <1>1 DEF Crc
<1> DEFINE c == 1000 + 32 * f + p
<1>3. Packet(start, d) = << start, 2 >> \o << f, p >> \o << c >>
  BY <1>1, <1>2 DEF Packet
<1>4. c \in Nat
  OBVIOUS
<1> HIDE DEF d, c
<1>5. LET s == << start, 2 >> \o << f, p >> \o << c >>
      IN s \in Bytes /\ Len(s) = 5 /\ s[1] = start /\ s[2] = 2 /\ s[3] = f /\ s[4] = p /\ s[5] = c
  BY <1>4 DEF Bytes
<1>6. LET s == Packet(start, d)
      IN s \in Bytes /\ Len(s) = 5 /\ s[1] = start /\ s[2] = 2 /\ s[3] = f /\ s[4] = p /\ s[5] = c
  BY <1>3, <1>5, Zenon
<1> QED
  BY <1>6 DEF d, c
-------------------------------------------------------------------------------
\* A request as it arrives: the SOH of another packet would come to nothing in it, its CRC
\* is its last byte, and it is the CRC of nothing else.
Arrives(r, d) ==
  /\ r \in Bytes /\ Len(r) \in 4..5
  /\ \A j \in 2..Len(r) - 1 : r[j] = SOH => Len(r) - j < r[j + 1] + 2
  /\ \A j \in 1..Len(r) - 1 : r[j] < 1000
  /\ /\ r[Len(r) - 3] = 2
     /\ r[Len(r)] = 1000 + 32 * r[Len(r) - 2] + r[Len(r) - 1]
     => r[Len(r) - 2] = d[1] /\ r[Len(r) - 1] = d[2]

LEMMA RequestArrives ==
  ASSUME NEW d \in Request, NEW r \in Damaged(d)
  PROVE  Arrives(r, d)
<1>1. PICK f \in {OPEN, CLOSE, PWRITE, PROPERTIES}, p \in 1..31 : d = << f, p >>
  BY DEF Request
<1>2. f \in 100..108 /\ f \in Nat /\ p \in Nat /\ d[1] = f /\ d[2] = p
  BY <1>1 DEF OPEN, CLOSE, PWRITE, PROPERTIES
<1>3. PICK s : /\ s = Packet(SOH, d)
               /\ s \in Bytes /\ Len(s) = 5 /\ s[1] = 1 /\ s[2] = 2 /\ s[3] = f /\ s[4] = p
               /\ s[5] = 1000 + 32 * f + p
  <2>1. SOH = 1 /\ SOH \in Nat
    BY DEF SOH
  <2> QED
    <3> DEFINE t == Packet(SOH, << f, p >>)
    <3>1. /\ t \in Bytes /\ Len(t) = 5 /\ t[1] = SOH /\ t[2] = 2 /\ t[3] = f /\ t[4] = p
          /\ t[5] = 1000 + 32 * f + p
      BY <1>2, <2>1, PacketIs
    <3>2. Packet(SOH, d) = t
      BY <1>1
    <3> HIDE DEF t
    <3> QED
      BY <2>1, <3>1, <3>2
<1>4. CASE r = s
  <2>1. s[1] < 1000 /\ s[2] < 1000 /\ s[3] < 1000 /\ s[4] < 1000
    BY <1>2, <1>3
  <2>2. \A j \in 2..4 : s[j] = SOH => 5 - j < s[j + 1] + 2
    BY <1>2, <1>3 DEF SOH
  <2> QED
    <3>1. Len(r) = 5 /\ Len(r) - 1 = 4 /\ Len(r) - 2 = 3 /\ Len(r) - 3 = 2
      BY <1>3, <1>4
    <3>2. \A j \in 1..Len(r) - 1 : r[j] < 1000
      BY <1>4, <2>1, <3>1
    <3>3. r[Len(r) - 2] = d[1] /\ r[Len(r) - 1] = d[2]
      <4>1. r[3] = d[1] /\ r[4] = d[2]
        <5>1. s[3] = f /\ s[4] = p
          BY ONLY <1>3
        <5>2. d[1] = f /\ d[2] = p
          BY ONLY <1>2
        <5> QED
          BY ONLY <1>4, <5>1, <5>2
      <4> QED
        BY ONLY <3>1, <4>1
    <3>4. \A j \in 2..Len(r) - 1 : r[j] = SOH => Len(r) - j < r[j + 1] + 2
      BY <1>4, <2>2, <3>1
    <3>5. r \in Bytes /\ Len(r) \in 4..5
      BY <1>3, <1>4
    <3> QED
      BY <3>2, <3>3, <3>4, <3>5, Zenon DEF Arrives
<1>5. ASSUME NEW i \in 1..5, NEW b \in Byte, r = ReplaceAt(s, i, b)
      PROVE  Arrives(r, d)
  <2>1. /\ r \in Bytes /\ Len(r) = 5
        /\ \A j \in 1..5 : r[j] = IF j = i THEN b ELSE s[j]
    <3>1. i \in 1..Len(s) /\ b \in Nat
      BY <1>3 DEF Byte
    <3> QED
      <4>1. /\ ReplaceAt(s, i, b) \in Bytes /\ Len(ReplaceAt(s, i, b)) = Len(s)
            /\ \A j \in 1..Len(s) : ReplaceAt(s, i, b)[j] = IF j = i THEN b ELSE s[j]
        <5>1. s \in Bytes /\ i \in 1..Len(s) /\ b \in Nat
          BY <1>3, <3>1
        <5> QED
          BY <5>1, Changed
      <4> QED
        BY <1>3, <1>5, <4>1
  <2>2. b \in 0..255
    BY DEF Byte
  <2>3. /\ \A j \in 2..4 : r[j] = SOH => 5 - j < r[j + 1] + 2
        /\ \A j \in 1..4 : r[j] < 1000
    BY <1>2, <1>3, <2>1, <2>2 DEF SOH
  <2>4. ASSUME r[2] = 2, r[5] = 1000 + 32 * r[3] + r[4]
        PROVE  r[3] = f /\ r[4] = p
    <3>1. r[3] \in Nat /\ r[4] \in Nat
      BY <1>2, <1>3, <2>1, <2>2
    <3>2. i # 5
      BY <2>1, <2>2, <2>4, <3>1
    <3>3. r[5] = 1000 + 32 * f + p
      BY <1>3, <2>1, <3>2
    <3>4. r[3] = f \/ r[4] = p
      BY <1>3, <2>1
    <3> QED
      BY <1>2, <2>4, <3>1, <3>3, <3>4
  <2> QED
    BY <1>2, <2>1, <2>3, <2>4 DEF Arrives
<1>6. ASSUME NEW i \in 1..5, r = RemoveAt(s, i)
      PROVE  Arrives(r, d)
  <2>1. /\ r \in Bytes /\ Len(r) = 4
        /\ \A j \in 1..4 : r[j] = IF j < i THEN s[j] ELSE s[j + 1]
    <3>1. i \in 1..Len(s) /\ Len(s) - 1 = 4
      BY <1>3
    <3> QED
      <4>1. /\ RemoveAt(s, i) \in Bytes /\ Len(RemoveAt(s, i)) = Len(s) - 1
            /\ \A j \in 1..Len(s) - 1 : RemoveAt(s, i)[j] = IF j < i THEN s[j] ELSE s[j + 1]
        <5>1. s \in Bytes /\ i \in 1..Len(s)
          BY <1>3, <3>1
        <5> QED
          BY <5>1, Removed
      <4> QED
        BY <1>3, <1>6, <3>1, <4>1
  <2>2. /\ r[1] = (IF i = 1 THEN 2 ELSE 1) /\ r[2] = (IF i <= 2 THEN f ELSE 2)
        /\ r[3] = (IF i <= 3 THEN p ELSE f)
        /\ r[4] = (IF i <= 4 THEN 1000 + 32 * f + p ELSE p)
    BY <1>3, <2>1
  <2>3. /\ \A j \in 2..3 : r[j] = SOH => 4 - j < r[j + 1] + 2
        /\ \A j \in 1..3 : r[j] < 1000
    BY <1>2, <2>2 DEF SOH
  <2>4. ASSUME r[1] = 2, r[4] = 1000 + 32 * r[2] + r[3]
        PROVE  r[2] = f /\ r[3] = p
    BY <2>2, <2>4
  <2> QED
    BY <1>2, <2>1, <2>3, <2>4 DEF Arrives
<1> QED
  BY <1>3, <1>4, <1>5, <1>6 DEF Damaged

LEMMA CompleteIs ==
  ASSUME NEW s \in Bytes
  PROVE  /\ Complete(s) <=> Len(s) > 0 /\ Len(s) >= s[1] + 2
         /\ Len(s) \in Nat /\ \A i \in 1..Len(s) : s[i] \in Nat
  BY DEF Complete, Bytes

\* What follows a packet that is complete, and when the packet is accepted.
LEMMA AfterIs ==
  ASSUME NEW s \in Bytes, Complete(s)
  PROVE  /\ AfterPacket(s) \in Bytes /\ Len(AfterPacket(s)) = Len(s) - (s[1] + 2)
         /\ \A i \in 1..Len(s) - (s[1] + 2) : AfterPacket(s)[i] = s[i + (s[1] + 2)]
         /\ Intact(s) => /\ s[1] = 2 /\ s[4] = 1000 + 32 * s[2] + s[3]
                         /\ Body(s) = << s[2], s[3] >>
<1> DEFINE n == s[1] + 2
<1>1. n \in 0..Len(s) /\ Len(s) \in Nat /\ s[1] \in Nat /\ s[n] \in Nat
  BY CompleteIs
<1>2. AfterPacket(s) = SubSeq(s, n + 1, Len(s))
  <2>1. n + 1 = s[1] + 3
    BY <1>1
  <2> QED
    BY <2>1 DEF AfterPacket
<1>3. /\ AfterPacket(s) \in Bytes /\ Len(AfterPacket(s)) = Len(s) - n
      /\ \A i \in 1..Len(s) - n : AfterPacket(s)[i] = s[i + n]
  <2> HIDE DEF n
  <2> QED
    BY <1>1, <1>2, Cut
<1>4. Intact(s) => s[1] = 2 /\ s[4] = 1000 + 32 * s[2] + s[3] /\ Body(s) = << s[2], s[3] >>
  <2> SUFFICES ASSUME Intact(s)
               PROVE  s[1] = 2 /\ s[4] = 1000 + 32 * s[2] + s[3] /\ Body(s) = << s[2], s[3] >>
    OBVIOUS
  <2> DEFINE k == s[1] + 1
  <2>1. /\ \A j \in 2..k : s[j] \in Nat
        /\ k \in Int
    BY <1>1, CompleteIs
  <2> HIDE DEF k
  <2>2. /\ SubSeq(s, 2, k) \in Seq(Nat)
        /\ Len(SubSeq(s, 2, k)) = (IF 2 <= k THEN k - 2 + 1 ELSE 0)
        /\ \A i \in 1..k - 2 + 1 : SubSeq(s, 2, k)[i] = s[2 + i - 1]
    BY <2>1, SubSeqProperties
  <2> DEFINE b == SubSeq(s, 2, k)
  <2>3. Body(s) = b /\ s[n] = Crc(b)
    BY DEF Intact, Body, k
  <2>4. Len(b) = s[1]
    BY <1>1, <2>1, <2>2 DEF k
  <2> HIDE DEF b, n
  <2>5. Len(b) = 2
    BY <1>1, <2>3 DEF Crc
  <2>6. s[1] = 2 /\ k = 3 /\ n = 4
    BY <2>4, <2>5 DEF k, n
  <2>7. b \in Seq(Nat) /\ b[1] = s[2] /\ b[2] = s[3]
    BY <2>2, <2>6 DEF b
  <2>8. b = << s[2], s[3] >>
    BY <2>5, <2>7
  <2> QED
    BY <2>3, <2>5, <2>6, <2>7, <2>8 DEF Crc
<1> QED
  BY <1>3, <1>4 DEF n
\* Bytes that are not yet a packet, and a request after them.
LEMMA Appended ==
  ASSUME NEW d, Len(d) = 2, d = << d[1], d[2] >>, NEW x \in Bytes, ~Complete(x),
         NEW r, Arrives(r, d)
  PROVE  x \o r \in Bytes /\ Holds(x \o r, d)
<1> DEFINE s == x \o r
           m == Len(x)
           k == Len(r)
<1>1. /\ r \in Bytes /\ k \in 4..5 /\ m \in Nat
      /\ \A j \in 2..k - 1 : r[j] = SOH => k - j < r[j + 1] + 2
      /\ \A j \in 1..k - 1 : r[j] < 1000
      /\ r[k - 3] = 2 /\ r[k] = 1000 + 32 * r[k - 2] + r[k - 1]
         => r[k - 2] = d[1] /\ r[k - 1] = d[2]
      /\ m > 0 => m < x[1] + 2 /\ x[1] \in Nat
  BY CompleteIs DEF Arrives
<1>2. /\ s \in Bytes /\ Len(s) = m + k /\ \A i \in 1..m : s[i] = x[i]
      /\ \A i \in m + 1..m + k : s[i] = r[i - m]
  BY <1>1, Joined
<1> SUFFICES ASSUME Complete(s)
             PROVE  /\ Dead(AfterPacket(s))
                    /\ Intact(s) => AfterPacket(s) = << >> /\ Body(s) = d
  BY <1>2 DEF Holds
<1> HIDE DEF s, m, k
<1> DEFINE n == s[1] + 2
           a == AfterPacket(s)
<1>3. s[1] \in Nat /\ s[1] + 2 <= m + k
  BY <1>1, <1>2, CompleteIs, SMTT(30)
<1>4. /\ a \in Bytes /\ Len(a) = Len(s) - n
      /\ \A i \in 1..Len(s) - n : a[i] = s[i + n]
      /\ Intact(s) => s[1] = 2 /\ s[4] = 1000 + 32 * s[2] + s[3] /\ Body(s) = << s[2], s[3] >>
  BY <1>2, AfterIs
<1>5. n \in Nat /\ n >= 2 /\ n <= m + k /\ n > m
  <2>1. m > 0 => s[1] = x[1]
    BY <1>1, <1>2
  <2> QED
    BY <1>1, <1>3, <2>1
<1>7. n = s[1] + 2
  OBVIOUS
<1> HIDE DEF n
<1>8. Dead(a)
  <2> SUFFICES ASSUME NEW p \in 1..Len(a) - 1, a[p] = SOH
               PROVE  Len(a) - p < a[p + 1] + 2
    BY DEF Dead
  <2> DEFINE j == (p + n) - m
  <2>0. Len(a) = (m + k) - n /\ p \in Nat /\ p >= 1 /\ p + 1 <= Len(a)
    BY <1>1, <1>2, <1>4, <1>5
  <2> DEFINE la == Len(a)
  <2>6. /\ k \in Nat /\ m \in Nat /\ n \in Nat /\ p \in Nat /\ la \in Int /\ la = (m + k) - n
        /\ n > m /\ p >= 1 /\ p + 1 <= la
    <3>1. k \in Nat /\ m \in Nat
      BY <1>1
    <3>2. n \in Nat /\ n > m
      BY <1>5
    <3> QED
      BY <2>0, <3>1, <3>2
  <2>7. Len(a) = la
    OBVIOUS
  <2> HIDE DEF la
  <2>1. j \in 2..k - 1 /\ k - j = Len(a) - p /\ j + 1 = (p + 1 + n) - m
    BY ONLY <2>6, <2>7
  <2>2. a[p] = s[p + n] /\ a[p + 1] = s[p + 1 + n]
    BY <1>1, <1>2, <1>4, <1>5, <2>0, SMTT(30)
  <2>3. p + n \in m + 1..m + k /\ p + 1 + n \in m + 1..m + k
    BY ONLY <2>6
  <2>4. s[p + n] = r[(p + n) - m] /\ s[p + 1 + n] = r[(p + 1 + n) - m]
    BY <1>2, <2>3
  <2>5. a[p] = r[j] /\ a[p + 1] = r[j + 1]
    BY <2>1, <2>2, <2>4
  <2> HIDE DEF j
  <2> QED
    BY <1>1, <2>1, <2>5
<1>6. ASSUME Intact(s)
      PROVE  a = << >> /\ Body(s) = d
  <2>1. s[1] = 2 /\ n = 4 /\ s[4] = 1000 + 32 * s[2] + s[3] /\ Body(s) = << s[2], s[3] >>
    BY <1>4, <1>6, <1>7
  <2>2. s[2] \in Nat /\ s[3] \in Nat /\ m + k >= 4
    <3>1. \A i \in 1..Len(s) : s[i] \in Nat
      BY <1>2, CompleteIs
    <3> QED
      BY <1>1, <1>2, <1>5, <2>1, <3>1
  <2>3. s[4] >= 1000
    BY <2>1, <2>2
  <2>4. 4 - m = k
    <3>1. 4 \in m + 1..m + k /\ 4 - m \in 1..k
      BY <1>1, <1>5, <2>1, <2>2
    <3>2. s[4] = r[4 - m]
      BY <1>2, <3>1
    <3>3. 4 - m \in 1..k - 1 => r[4 - m] < 1000
      BY <1>1
    <3>4. \A z \in Nat : z >= 1000 => ~(z < 1000)
      OBVIOUS
    <3> QED
      BY <1>1, <2>1, <2>2, <2>3, <3>1, <3>2, <3>3
  <2>5. m = 0 /\ k = 4
    BY <1>1, <2>4
  <2>6. s[1] = r[1] /\ s[2] = r[2] /\ s[3] = r[3] /\ s[4] = r[4]
    BY <1>2, <2>5
  <2>7. r[2] = d[1] /\ r[3] = d[2]
    BY <1>1, <2>1, <2>5, <2>6
  <2>8. a = << >>
    BY <1>2, <1>4, <2>1, <2>5 DEF Bytes
  <2> QED
    BY <2>1, <2>6, <2>7, <2>8
<1> QED
  BY <1>2, <1>6, <1>8 DEF s

\* A request whose SOH has been read.
LEMMA Begun ==
  ASSUME NEW d, Len(d) = 2, d = << d[1], d[2] >>, NEW r, Arrives(r, d)
  PROVE  /\ Tail(r) \in Bytes
         /\ Head(r) = SOH => Holds(Tail(r), d)
         /\ Dead(Tail(r))
<1> DEFINE s == Tail(r)
           k == Len(r)
<1>1. /\ r \in Bytes /\ k \in 4..5
      /\ \A j \in 2..k - 1 : r[j] = SOH => k - j < r[j + 1] + 2
      /\ \A j \in 1..k - 1 : r[j] < 1000
      /\ r[k - 3] = 2 /\ r[k] = 1000 + 32 * r[k - 2] + r[k - 1]
         => r[k - 2] = d[1] /\ r[k - 1] = d[2]
  BY DEF Arrives
<1>2. r # << >>
  BY <1>1, EmptySeq DEF Bytes
<1>3. s \in Bytes /\ Len(s) = k - 1 /\ Head(r) = r[1] /\ \A i \in 1..k - 1 : s[i] = r[i + 1]
  BY <1>1, <1>2, Rest
<1> HIDE DEF s, k
<1>4. Dead(s)
  <2> SUFFICES ASSUME NEW p \in 1..Len(s) - 1, s[p] = SOH
               PROVE  Len(s) - p < s[p + 1] + 2
    BY DEF Dead
  <2>1. s[p] = r[p + 1] /\ s[p + 1] = r[p + 1 + 1] /\ p + 1 \in 2..k - 1
    BY <1>1, <1>3
  <2> QED
    BY <1>1, <1>3, <2>1
<1>5. ASSUME Head(r) = SOH PROVE Holds(s, d)
  <2> SUFFICES ASSUME Complete(s)
               PROVE  /\ Dead(AfterPacket(s))
                      /\ Intact(s) => AfterPacket(s) = << >> /\ Body(s) = d
    BY DEF Holds
  <2> DEFINE n == s[1] + 2
             a == AfterPacket(s)
  <2>0. s[1] \in Nat /\ s[1] + 2 <= Len(s) /\ \A i \in 1..Len(s) : s[i] \in Nat
    BY <1>3, CompleteIs
  <2>1. s[1] \in Nat /\ n <= k - 1 /\ n >= 2 /\ n \in Nat /\ n = s[1] + 2
    BY <1>1, <1>3, <2>0
  <2>2. /\ AfterPacket(s) \in Bytes /\ Len(AfterPacket(s)) = Len(s) - (s[1] + 2)
        /\ \A i \in 1..Len(s) - (s[1] + 2) : AfterPacket(s)[i] = s[i + (s[1] + 2)]
        /\ Intact(s) => s[1] = 2 /\ s[4] = 1000 + 32 * s[2] + s[3] /\ Body(s) = << s[2], s[3] >>
    BY <1>3, AfterIs
  <2>5. Len(a) = Len(s) - n /\ \A i \in 1..Len(s) - n : a[i] = s[i + n]
    BY <2>2
  <2> HIDE DEF n, a
  <2>3. Dead(a)
    <3> SUFFICES ASSUME NEW p \in 1..Len(a) - 1, a[p] = SOH
                 PROVE  Len(a) - p < a[p + 1] + 2
      BY DEF Dead
    <3>1. p \in Nat /\ p >= 1 /\ p + 1 <= Len(a) /\ Len(a) = (k - 1) - n
      BY <1>1, <1>3, <2>1, <2>5
    <3>2. p \in 1..Len(s) - n /\ p + 1 \in 1..Len(s) - n
      BY <1>1, <1>3, <2>1, <3>1
    <3>3. a[p] = s[p + n] /\ a[p + 1] = s[p + 1 + n]
      BY <2>5, <3>2
    <3>4. /\ p + n \in 1..Len(s) - 1 /\ Len(s) - (p + n) = Len(a) - p
          /\ p + 1 + n = p + n + 1
      <4> DEFINE ls == Len(s)
                 la == Len(a)
      <4>1. /\ ls \in Nat /\ la = ls - n /\ n \in Nat /\ p \in Nat /\ p >= 1 /\ p + 1 <= la
        BY <1>1, <1>3, <2>1, <3>1
      <4> HIDE DEF ls, la
      <4>2. /\ p + n \in 1..ls - 1 /\ ls - (p + n) = la - p /\ p + 1 + n = p + n + 1
        BY ONLY <4>1
      <4> QED
        BY <4>2 DEF ls, la
    <3>5. s[p + n] = SOH => Len(s) - (p + n) < s[p + n + 1] + 2
      BY <1>4, <3>4 DEF Dead
    <3> QED
      BY <3>3, <3>4, <3>5
  <2>4. ASSUME Intact(s)
        PROVE  a = << >> /\ Body(s) = d
    <3>1. s[1] = 2 /\ n = 4 /\ s[4] = 1000 + 32 * s[2] + s[3] /\ Body(s) = << s[2], s[3] >>
      BY <2>1, <2>2, <2>4
    <3>2. k = 5 /\ s[1] = r[2] /\ s[2] = r[3] /\ s[3] = r[4] /\ s[4] = r[5]
      BY <1>1, <1>3, <2>1, <3>1
    <3>3. r[3] = d[1] /\ r[4] = d[2]
      BY <1>1, <3>1, <3>2
    <3>4. a = << >>
      BY <1>3, <2>2, <2>5, <3>1, <3>2 DEF Bytes, a
    <3> QED
      BY <3>1, <3>2, <3>3, <3>4
  <2> QED
    BY <2>3, <2>4 DEF a
<1> QED
  BY <1>3, <1>4, <1>5 DEF s

\* Bytes that hold no packet are read without one.
LEMMA DeadRest ==
  ASSUME NEW s \in Bytes, Dead(s), s # << >>
  PROVE  /\ Tail(s) \in Bytes /\ Dead(Tail(s)) /\ (Head(s) = SOH => ~Complete(Tail(s)))
<1> DEFINE t == Tail(s)
<1>1. /\ Head(s) = s[1] /\ Len(s) \in Nat /\ Len(s) > 0 /\ t \in Bytes /\ Len(t) = Len(s) - 1
      /\ \A i \in 1..Len(s) - 1 : t[i] = s[i + 1]
  BY Rest, CompleteIs
<1> HIDE DEF t
<1>2. Dead(t)
  <2> SUFFICES ASSUME NEW p \in 1..Len(t) - 1, t[p] = SOH
               PROVE  Len(t) - p < t[p + 1] + 2
    BY DEF Dead
  <2>1. t[p] = s[p + 1] /\ t[p + 1] = s[p + 1 + 1] /\ p + 1 \in 1..Len(s) - 1
        /\ Len(s) - (p + 1) = Len(t) - p
    BY <1>1
  <2> QED
    BY <2>1 DEF Dead
<1>3. ASSUME Head(s) = SOH PROVE ~Complete(t)
  <2> SUFFICES ASSUME Complete(t) PROVE FALSE
    OBVIOUS
  <2>1. Len(t) > 0 /\ Len(t) >= t[1] + 2 /\ t[1] \in Nat
    BY <1>1, CompleteIs
  <2>2. t[1] = s[2] /\ 1 \in 1..Len(s) - 1 /\ s[1 + 1] = s[2]
    BY <1>1, <2>1
  <2>3. Len(s) - 1 < s[1 + 1] + 2
    BY <1>1, <1>3, <2>2 DEF Dead
  <2> QED
    BY <1>1, <2>1, <2>2, <2>3
<1> QED
  BY <1>1, <1>2, <1>3 DEF t

LEMMA TailJoined ==
  ASSUME NEW s \in Bytes, NEW t \in Bytes, s # << >>
  PROVE  s \o t # << >> /\ Head(s \o t) = Head(s) /\ Tail(s \o t) = Tail(s) \o t
<1> DEFINE u == s \o t
           v == Tail(s)
<1>1. /\ u \in Bytes /\ Len(u) = Len(s) + Len(t) /\ Len(s) \in Nat /\ Len(t) \in Nat
      /\ \A i \in 1..Len(s) : u[i] = s[i]
      /\ \A i \in Len(s) + 1..Len(s) + Len(t) : u[i] = t[i - Len(s)]
  BY Joined, CompleteIs
<1>2. Head(s) = s[1] /\ Len(s) > 0 /\ v \in Bytes /\ Len(v) = Len(s) - 1
      /\ \A i \in 1..Len(s) - 1 : v[i] = s[i + 1]
  BY Rest
<1>3. /\ v \o t \in Bytes /\ Len(v \o t) = Len(v) + Len(t)
      /\ \A i \in 1..Len(v) : (v \o t)[i] = v[i]
      /\ \A i \in Len(v) + 1..Len(v) + Len(t) : (v \o t)[i] = t[i - Len(v)]
  <2> HIDE DEF v
  <2> QED
    BY <1>2, Joined
<1> HIDE DEF u, v
<1>4. u # << >>
  BY <1>1, <1>2
<1>5. Head(u) = u[1] /\ Tail(u) \in Bytes /\ Len(Tail(u)) = Len(u) - 1
      /\ \A i \in 1..Len(u) - 1 : Tail(u)[i] = u[i + 1]
  BY <1>1, <1>4, Rest
<1>6. Head(u) = Head(s)
  BY <1>1, <1>2, <1>5
<1> DEFINE w == Tail(u)
           z == v \o t
<1>7. ASSUME NEW i \in 1..Len(w) PROVE w[i] = z[i]
  <2>1. CASE i < Len(s)
    BY <1>1, <1>2, <1>3, <1>5, <2>1
  <2>2. CASE ~(i < Len(s))
    <3>1. w[i] = t[i + 1 - Len(s)]
      BY <1>1, <1>2, <1>5, <2>2
    <3>2. z[i] = t[i - Len(v)] /\ i - Len(v) = i + 1 - Len(s)
      BY <1>1, <1>2, <1>3, <1>5, <2>2
    <3> QED
      BY <3>1, <3>2
  <2> QED
    BY <2>1, <2>2
<1>8. Len(w) = Len(z) /\ w \in Bytes /\ z \in Bytes
  BY <1>1, <1>2, <1>3, <1>5
<1> HIDE DEF w, z
<1>9. w = z
  BY <1>7, <1>8, Same
<1> QED
  BY <1>4, <1>6, <1>9 DEF u, v, w, z
\* An answer that is five bytes long, and begins as it was sent, is read whole.
LEMMA AnswerRead ==
  ASSUME NEW d, NEW a \in Bytes, Len(a) = 5, a[1] = STX, a[2] = 2,
         a[5] = 1000 + 32 * a[3] + a[4] => << a[3], a[4] >> = d
  PROVE  /\ a # << >> /\ Head(a) = STX /\ Tail(a) \in Bytes
         /\ Complete(Tail(a)) /\ AfterPacket(Tail(a)) = << >>
         /\ Intact(Tail(a)) => Body(Tail(a)) = d
<1>1. a \in Bytes /\ Len(a) = 5
  OBVIOUS
<1>2. a[1] = STX /\ a[2] = 2
  OBVIOUS
<1>3. a[5] = 1000 + 32 * a[3] + a[4] => << a[3], a[4] >> = d
  OBVIOUS
<1>4. Len(a) \in Nat /\ Len(a) # 0
  BY ONLY <1>1
<1>5. a # << >>
  BY ONLY <1>4, EmptySeq
<1> DEFINE t == Tail(a)
<1>6. t \in Bytes /\ Len(t) = 4 /\ Head(a) = a[1] /\ \A i \in 1..4 : t[i] = a[i + 1]
  <2>1. /\ Head(a) = a[1] /\ Tail(a) \in Bytes /\ Len(Tail(a)) = Len(a) - 1
        /\ \A i \in 1..Len(a) - 1 : Tail(a)[i] = a[i + 1]
    BY <1>1, <1>5, Rest
  <2>2. Len(a) - 1 = 4
    BY ONLY <1>1
  <2> QED
    BY ONLY <2>1, <2>2, Zenon
<1> HIDE DEF t
<1>7. t[1] = 2 /\ t[2] = a[3] /\ t[3] = a[4] /\ t[4] = a[5]
  <2>1. t[1] = a[1 + 1] /\ t[2] = a[2 + 1] /\ t[3] = a[3 + 1] /\ t[4] = a[4 + 1]
    BY ONLY <1>6
  <2> QED
    BY ONLY <1>2, <2>1
<1>8. t \in Bytes /\ Len(t) = 4
  BY ONLY <1>6
<1>9. t[1] = 2
  BY ONLY <1>7
<1>10. Complete(t)
  <2>1. Complete(t) <=> Len(t) > 0 /\ Len(t) >= t[1] + 2
    BY ONLY <1>8, CompleteIs, Zenon
  <2>2. Len(t) > 0 /\ Len(t) >= t[1] + 2
    BY ONLY <1>8, <1>9
  <2> QED
    BY ONLY <2>1, <2>2
<1>11. /\ AfterPacket(t) \in Bytes /\ Len(AfterPacket(t)) = Len(t) - (t[1] + 2)
       /\ Intact(t) => /\ t[1] = 2 /\ t[4] = 1000 + 32 * t[2] + t[3]
                       /\ Body(t) = << t[2], t[3] >>
  BY ONLY <1>8, <1>10, AfterIs, ZenonT(40)
<1>12. AfterPacket(t) = << >>
  <2>1. AfterPacket(t) \in Bytes /\ Len(AfterPacket(t)) = 0
    BY ONLY <1>11, <1>8, <1>9
  <2> QED
    BY ONLY <2>1, EmptySeq DEF Bytes
<1>13. Intact(t) => Body(t) = d
  <2> SUFFICES ASSUME Intact(t) PROVE Body(t) = d
    OBVIOUS
  <2>1. t[4] = 1000 + 32 * t[2] + t[3] /\ Body(t) = << t[2], t[3] >>
    BY ONLY <1>11, Intact(t)
  <2>2. a[5] = 1000 + 32 * a[3] + a[4]
    BY ONLY <1>7, <2>1
  <2>3. << a[3], a[4] >> = d
    BY ONLY <1>3, <2>2
  <2> QED
    BY ONLY <1>7, <2>1, <2>3
<1> QED
  BY ONLY <1>1, <1>2, <1>5, <1>6, <1>10, <1>12, <1>13 DEF t

LEMMA AnswerArrives ==
  ASSUME NEW d \in Answer, NEW a \in DamagedAnswer(d)
  PROVE  /\ a \in Bytes /\ a # << >> /\ Head(a) = STX /\ Tail(a) \in Bytes
         /\ Complete(Tail(a)) /\ AfterPacket(Tail(a)) = << >>
         /\ Intact(Tail(a)) => Body(Tail(a)) = d
<1>1. PICK f \in {OK, Failed}, p \in 1..31 : d = << f, p >>
  BY DEF Answer
<1>2. f \in {0, 50} /\ f \in Nat /\ p \in Nat
  BY <1>1 DEF OK, Failed
<1>3. PICK s : /\ s = Packet(STX, d)
               /\ s \in Bytes /\ Len(s) = 5 /\ s[1] = STX /\ s[2] = 2 /\ s[3] = f /\ s[4] = p
               /\ s[5] = 1000 + 32 * f + p
  <2> DEFINE t == Packet(STX, << f, p >>)
  <2>1. STX \in Nat
    BY DEF STX
  <2>2. /\ t \in Bytes /\ Len(t) = 5 /\ t[1] = STX /\ t[2] = 2 /\ t[3] = f /\ t[4] = p
        /\ t[5] = 1000 + 32 * f + p
    BY <1>2, <2>1, PacketIs
  <2>3. Packet(STX, d) = t
    BY <1>1
  <2> HIDE DEF t
  <2> QED
    BY <2>2, <2>3
<1>4. /\ a \in Bytes /\ Len(a) = 5 /\ a[1] = STX /\ a[2] = 2
      /\ a[5] = 1000 + 32 * a[3] + a[4] => a[3] = f /\ a[4] = p
  <2>1. CASE a = s
    BY <1>3, <2>1
  <2>2. ASSUME NEW i \in 3..5, NEW b \in Byte, a = ReplaceAt(s, i, b)
        PROVE  /\ a \in Bytes /\ Len(a) = 5 /\ a[1] = STX /\ a[2] = 2
               /\ a[5] = 1000 + 32 * a[3] + a[4] => a[3] = f /\ a[4] = p
    <3>1. s \in Bytes /\ i \in 1..Len(s) /\ b \in Nat
      BY <1>3 DEF Byte
    <3>2. /\ ReplaceAt(s, i, b) \in Bytes /\ Len(ReplaceAt(s, i, b)) = Len(s)
          /\ \A j \in 1..Len(s) : ReplaceAt(s, i, b)[j] = IF j = i THEN b ELSE s[j]
      BY <3>1, Changed
    <3>3. /\ a \in Bytes /\ Len(a) = 5 /\ \A j \in 1..5 : a[j] = IF j = i THEN b ELSE s[j]
      BY <1>3, <2>2, <3>2
    <3>4. b \in 0..255
      BY DEF Byte
    <3>5. ASSUME a[5] = 1000 + 32 * a[3] + a[4] PROVE a[3] = f /\ a[4] = p
      <4>1. a[3] \in Nat /\ a[4] \in Nat
        BY <1>2, <1>3, <3>3, <3>4
      <4>2. i # 5
        BY <3>3, <3>4, <3>5, <4>1
      <4>3. a[5] = 1000 + 32 * f + p
        BY <1>3, <3>3, <4>2
      <4>4. a[3] = f \/ a[4] = p
        BY <1>3, <3>3
      <4> QED
        BY <1>2, <3>5, <4>1, <4>3, <4>4
    <3> QED
      BY <1>3, <3>3, <3>5
  <2> QED
    BY <1>3, <2>1, <2>2 DEF DamagedAnswer
<1>5. << f, p >> = d
  BY <1>1
<1> QED
  BY <1>4, <1>5, AnswerRead
-------------------------------------------------------------------------------
\* What comes out of the line.
LEMMA RequestSent ==
  ASSUME Forgiving, NEW d, NEW got \in Received("request", Packet(SOH, d))
  PROVE  got \in Damaged(d)
<1>1. CASE got = Packet(SOH, d)
  BY <1>1 DEF Damaged
<1>2. ASSUME NEW e \in Errors, e[1] = "request",
             got = IF e[3] = Lost THEN RemoveAt(Packet(SOH, d), e[2])
                   ELSE ReplaceAt(Packet(SOH, d), e[2], e[3])
      PROVE  got \in Damaged(d)
  <2>1. e \in {"request"} \X (1..5) \X (Byte \cup {Lost})
    BY <1>2 DEF Forgiving, Survivable
  <2>2. e[2] \in 1..5 /\ (e[3] # Lost => e[3] \in Byte)
    BY <2>1
  <2> QED
    BY <1>2, <2>2 DEF Damaged
<1> QED
  BY <1>1, <1>2 DEF Received

LEMMA AnswerSent ==
  ASSUME Forgiving, NEW d, NEW got \in Received("answer", Packet(STX, d))
  PROVE  got \in DamagedAnswer(d)
<1>1. CASE got = Packet(STX, d)
  BY <1>1 DEF DamagedAnswer
<1>2. ASSUME NEW e \in Errors, e[1] = "answer",
             got = IF e[3] = Lost THEN RemoveAt(Packet(STX, d), e[2])
                   ELSE ReplaceAt(Packet(STX, d), e[2], e[3])
      PROVE  got \in DamagedAnswer(d)
  <2>1. e \in {"answer"} \X (3..5) \X Byte
    BY <1>2 DEF Forgiving, Survivable
  <2>2. e[2] \in 3..5 /\ e[3] \in Byte /\ e[3] # Lost
    BY <2>1 DEF Byte, Lost
  <2> QED
    BY <1>2, <2>2 DEF DamagedAnswer
<1> QED
  BY <1>1, <1>2 DEF Received

LEMMA AckSent ==
  ASSUME Forgiving, NEW kind \in {"accept", "accepted"}, NEW bytes,
         NEW got \in Received(kind, bytes)
  PROVE  got = bytes
<1>1. \A e \in Errors : e[1] # kind
  BY DEF Forgiving, Survivable
<1> QED
  BY <1>1 DEF Received

LEMMA ByteLost == RemoveAt(<< NAK >>, 1) = << >>
<1>1. NAK \in Nat
  BY DEF NAK
<1> DEFINE s == << NAK >>
<1>2. s \in Bytes /\ Len(s) = 1
  BY <1>1 DEF Bytes
<1> HIDE DEF s
<1>3. RemoveAt(s, 1) \in Bytes /\ Len(RemoveAt(s, 1)) = Len(s) - 1
  BY <1>2, Removed, SMTT(30)
<1>4. RemoveAt(s, 1) = << >>
  BY <1>2, <1>3 DEF Bytes
<1> QED
  BY <1>4 DEF s

LEMMA ByteChanged == \A b \in Nat : ReplaceAt(<< NAK >>, 1, b) = << b >>
  BY DEF ReplaceAt

LEMMA NakSent ==
  ASSUME Forgiving, NEW kind \in {"refuse", "refused"}, NEW got \in Received(kind, << NAK >>)
  PROVE  \/ kind = "refuse" /\ got = << >>
         \/ \E x \in Byte : got = << x >>
<1>1. CASE got = << NAK >>
  BY <1>1 DEF NAK, Byte
<1>2. ASSUME NEW e \in Errors, e[1] = kind,
             got = IF e[3] = Lost THEN RemoveAt(<< NAK >>, e[2])
                   ELSE ReplaceAt(<< NAK >>, e[2], e[3])
      PROVE  \/ kind = "refuse" /\ got = << >>
             \/ \E x \in Byte : got = << x >>
  <2>1. \/ kind = "refuse" /\ e \in {"refuse"} \X {1} \X (Byte \cup {Lost})
        \/ kind = "refused" /\ e \in {"refused"} \X {1} \X Byte
    BY <1>2 DEF Forgiving, Survivable
  <2>2. e[2] = 1 /\ e[3] \in Byte \cup {Lost} /\ (kind = "refused" => e[3] # Lost)
    BY <2>1 DEF Byte, Lost
  <2>3. CASE e[3] = Lost
    BY <1>2, <2>2, <2>3, ByteLost
  <2>4. CASE e[3] # Lost
    <3>1. e[3] \in Byte /\ e[3] \in Nat
      BY <2>2, <2>4 DEF Byte
    <3>2. got = << e[3] >>
      BY <1>2, <2>2, <2>4, <3>1, ByteChanged
    <3> QED
      BY <3>1, <3>2
  <2> QED
    BY <2>3, <2>4
<1> QED
  BY <1>1, <1>2 DEF Received

\* The line counts its errors.
LEMMA ErrorsCounted ==
  ASSUME NEW kind, NEW bytes, errors \in 0..MaxErrors,
         ToServer(kind, bytes) \/ ToClient(kind, bytes)
  PROVE  errors' \in 0..MaxErrors
<1>1. PICK got \in Received(kind, bytes) : errors' = IF got = bytes THEN errors ELSE errors + 1
  BY DEF ToServer, ToClient
<1>2. got # bytes => errors < MaxErrors
  BY DEF Received
<1> QED
  BY <1>1, <1>2, RpcAssumption
-------------------------------------------------------------------------------
\* The client waits for ACK, and nothing is on its way to it.
AskedFor == client = "ack" /\ toClient = << >>

\* The last call has not been performed.
Pending == \A i \in 1..Len(performed) : performed[i] < calls

\* The server has not accepted the call, or is through with it: nothing reaches the client
\* but the NAK, which may have it wait for an answer in vain.
Requesting ==
  /\ client \in {"idle", "ack", "stx"}
  /\ toClient = << >> \/ (client = "ack" /\ \E x \in Byte : toClient = << x >>)
  /\ client = "ack" => Pending

\* The server looks for SOH: in what holds no packet, or in front of the request.
Seeking ==
  /\ Requesting /\ toServer \in Bytes
  /\ \/ Dead(toServer) /\ (client = "idle" => toServer = << >>)
     \/ AskedFor /\ \E l \in Bytes, r \in Damaged(request) : Dead(l) /\ toServer = l \o r

\* It has read SOH: what follows is no packet until the client has sent the request.
Reading ==
  /\ Requesting /\ toServer \in Bytes
  /\ Complete(toServer) => AskedFor
  /\ Holds(toServer, request)

\* It has accepted the call, and sent ACK.
Accepting ==
  /\ toServer = << >>
  /\ \/ client = "ack" /\ toClient = << ACK >>
     \/ client = "stx" /\ toClient = << >>

\* It has performed the call, and holds its answer.
Done ==
  /\ client # "idle" /\ data = << data[1], Params[calls] >> /\ data[1] \in {OK, Failed}
  /\ Contains(performed, calls)
  /\ request[1] = OPEN /\ data[1] = OK => nRefCount > 0

\* The answer is on its way, or the byte that asks for it again.
Replying ==
  \/ /\ toServer = << >>
     /\ \E a \in DamagedAnswer(data) :
          \/ client = "ack" /\ toClient = << ACK >> \o a
          \/ client = "stx" /\ toClient = a
          \/ client = "answer" /\ toClient = Tail(a)
  \/ client = "stx" /\ toClient = << >> /\ \E x \in Byte : toServer = << x >>

\* The client has taken the answer, and perhaps made its next call.
Acknowledging ==
  /\ toClient = << >>
  /\ \/ client = "idle" /\ toServer = << ACK >>
     \/ /\ client = "ack" /\ Pending
        /\ \E r \in Damaged(request) : toServer = << ACK >> \o r

\* What each state of the server says of the line, the client and the answer: one of the
\* two machines at most has a packet under way.
Phases ==
  /\ server = "soh" => Seeking
  /\ server = "packet" => Reading
  /\ server = "executing" => Accepting /\ data = request /\ Pending
  /\ server = "answering" => Accepting /\ Done
  /\ server = "reply" => (Replying /\ Done) \/ Acknowledging
  /\ server = "gone" =>
       toClient = << >> /\ client \in {"idle", "ack", "stx"} /\ (client = "ack" => Pending)

\* The calls, and the drives that they hold open.
Counts ==
  /\ performed \in Seq(Nat) /\ \A i \in 1..Len(performed) : performed[i] \in 1..calls
  /\ nRefCount \in 0..calls /\ (client # "idle" /\ Pending => nRefCount < calls)
  /\ client # "idle" =>
       calls > 0 /\ request = << request[1], Params[calls] >> /\ request[1] \in Function
  /\ client # "idle" /\ request[1] = CLOSE /\ Pending => nRefCount > 0
  /\ DriveHeld

IInv == TypeOK /\ Phases /\ Counts
-------------------------------------------------------------------------------
LEMMA Empty ==
  /\ << >> \in Bytes /\ Len(<< >>) = 0 /\ Dead(<< >>) /\ ~Complete(<< >>)
  /\ \A t \in Bytes : << >> \o t = t
<1>1. << >> \in Bytes /\ Len(<< >>) = 0
  BY EmptySeq DEF Bytes
<1>2. Dead(<< >>)
  BY <1>1 DEF Dead
<1>3. \A t \in Bytes : << >> \o t = t
  BY ConcatEmptySeq DEF Bytes
<1> QED
  BY <1>1, <1>2, <1>3 DEF Complete

LEMMA OneByte ==
  ASSUME NEW x \in Nat
  PROVE  /\ << x >> \in Bytes /\ Len(<< x >>) = 1 /\ << x >> # << >> /\ Head(<< x >>) = x
         /\ Tail(<< x >>) = << >>
<1> DEFINE s == << x >>
<1>1. s \in Bytes /\ Len(s) = 1 /\ s[1] = x
  BY DEF Bytes
<1> HIDE DEF s
<1>2. s # << >>
  BY ONLY <1>1, Empty
<1>3. Head(s) = s[1] /\ Tail(s) \in Bytes /\ Len(Tail(s)) = Len(s) - 1
  BY ONLY <1>1, <1>2, Rest
<1>4. Len(Tail(s)) = 0
  BY ONLY <1>1, <1>3
<1>5. Tail(s) = << >>
  BY ONLY <1>3, <1>4, EmptySeq DEF Bytes
<1> QED
  BY <1>1, <1>2, <1>3, <1>5 DEF s

\* Bytes that follow ACK.
LEMMA AckFirst ==
  ASSUME NEW t \in Bytes
  PROVE  /\ << ACK >> \o t \in Bytes /\ << ACK >> \o t # << >>
         /\ Head(<< ACK >> \o t) = ACK /\ Tail(<< ACK >> \o t) = t
<1>1. ACK \in Nat
  BY DEF ACK
<1> DEFINE s == << ACK >>
<1>2. s \in Bytes /\ s # << >> /\ Head(s) = ACK /\ Tail(s) = << >>
  BY <1>1, OneByte
<1> HIDE DEF s
<1>3. s \o t \in Bytes
  BY <1>2, Joined
<1>4. s \o t # << >> /\ Head(s \o t) = Head(s) /\ Tail(s \o t) = Tail(s) \o t
  BY <1>2, TailJoined
<1>5. << >> \o t = t
  BY Empty
<1> QED
  BY <1>2, <1>3, <1>4, <1>5 DEF s

\* A call in progress.
LEMMA Waits ==
  ASSUME IInv, client # "idle"
  PROVE  /\ request \in Request /\ Len(request) = 2 /\ request = << request[1], request[2] >>
         /\ calls \in 1..MaxCalls /\ request[2] = Params[calls]
<1>1. /\ calls \in 0..MaxCalls /\ calls > 0 /\ session \in {"closed", "opening", "open"}
      /\ request = << request[1], Params[calls] >> /\ request[1] \in Function
  BY DEF IInv, TypeOK, Counts
<1>2. calls \in 1..MaxCalls
  BY <1>1, RpcAssumption
<1>3. Params[calls] \in 1..31
  BY <1>2, RpcAssumption
<1>4. request[1] \in {OPEN, CLOSE, PWRITE, PROPERTIES}
  BY <1>1 DEF Function
<1> DEFINE f == request[1]
           p == Params[calls]
<1>5. request = << f, p >>
  BY <1>1
<1> HIDE DEF f, p
<1>6. request \in Request /\ Len(request) = 2 /\ request = << request[1], request[2] >>
      /\ request[2] = p
  BY <1>3, <1>4, <1>5 DEF Request, f, p
<1> QED
  BY <1>2, <1>6 DEF p

LEMMA RequestAsSent ==
  ASSUME IInv, client # "idle", NEW r \in Damaged(request)
  PROVE  Arrives(r, request) /\ r \in Bytes
<1>1. request \in Request
  BY Waits
<1>2. Arrives(r, request)
  BY <1>1, RequestArrives
<1> QED
  BY <1>2 DEF Arrives

\* The answer that the server holds.
LEMMA Answered ==
  ASSUME IInv, Done
  PROVE  data \in Answer /\ data[2] = Params[calls]
<1>1. calls \in 1..MaxCalls
  BY Waits DEF Done
<1>2. Params[calls] \in 1..31 /\ data[1] \in {OK, Failed} /\ data = << data[1], Params[calls] >>
  BY <1>1, RpcAssumption DEF Done
<1> DEFINE f == data[1]
           p == Params[calls]
<1>3. data = << f, p >> /\ f \in {OK, Failed} /\ p \in 1..31
  BY <1>2
<1> HIDE DEF f, p
<1>4. data \in Answer /\ data[2] = p
  BY <1>3 DEF Answer
<1> QED
  BY <1>4 DEF p

LEMMA AnswerAsSent ==
  ASSUME IInv, Done, NEW a \in DamagedAnswer(data)
  PROVE  /\ a \in Bytes /\ a # << >> /\ Head(a) = STX /\ Tail(a) \in Bytes
         /\ Complete(Tail(a)) /\ AfterPacket(Tail(a)) = << >>
         /\ Intact(Tail(a)) => Body(Tail(a)) = data
  BY Answered, AnswerArrives

\* The parameter tells which call a packet is for.
LEMMA Numbered ==
  ASSUME calls \in 1..MaxCalls
  PROVE  (CHOOSE n \in 1..MaxCalls : Params[n] = Params[calls]) = calls
<1>1. \A n \in 1..MaxCalls : Params[n] = Params[calls] => n = calls
  BY RpcAssumption
<1> QED
  BY <1>1
-------------------------------------------------------------------------------
\* Each action keeps the invariant.
LEMMA CallKeeps ==
  ASSUME IInv, Forgiving, NEW function \in Function, Call(function)
  PROVE  IInv'
<1>1. /\ client = "idle" /\ calls < MaxCalls /\ calls' = calls + 1 /\ client' = "ack"
      /\ request' = << function, Params[calls + 1] >>
      /\ toClient' = toClient /\ session' = session /\ answered' = answered
      /\ server' = server /\ data' = data /\ nRefCount' = nRefCount /\ performed' = performed
      /\ ToServer("request", Packet(SOH, request'))
  BY DEF Call, serverVars
<1>2. PICK got \in Received("request", Packet(SOH, request')) : toServer' = toServer \o got
  BY <1>1 DEF ToServer
<1>3. got \in Damaged(request')
  BY RequestSent
<1>4. TypeOK'
  <2>1. errors \in 0..MaxErrors
    BY DEF IInv, TypeOK
  <2>2. errors' \in 0..MaxErrors
    BY <1>1, <2>1, ErrorsCounted
  <2>3. calls' \in 0..MaxCalls
    BY <1>1, RpcAssumption DEF IInv, TypeOK
  <2> QED
    BY <1>1, <2>2, <2>3 DEF IInv, TypeOK
<1>5. Counts'
  <2>1. calls \in Nat /\ Function' = Function
    BY <1>1, RpcAssumption DEF IInv, TypeOK, Function
  <2>2. request'[1] = function /\ request' = << request'[1], Params[calls'] >>
    BY <1>1
  <2>3. /\ performed' \in Seq(Nat)
        /\ \A i \in 1..Len(performed') : performed'[i] \in 1..calls'
    BY <1>1, <2>1 DEF IInv, Counts
  <2>4. nRefCount' \in 0..calls' /\ nRefCount' < calls' /\ calls' > 0
    BY <1>1, <2>1 DEF IInv, Counts
  <2>5. function = CLOSE => session = "open"
    BY DEF Function, OPEN, CLOSE, PROPERTIES, IInv, TypeOK
  <2>6. session # "closed" => nRefCount > 0
    BY <1>1 DEF IInv, Counts, DriveHeld
  <2> QED
    BY <1>1, <2>1, <2>2, <2>3, <2>4, <2>5, <2>6 DEF Counts, DriveHeld
<1>6. IInv /\ client # "idle" => FALSE
  BY <1>1
<1>7. Pending'
  <2>1. calls \in Nat
    BY RpcAssumption DEF IInv, TypeOK
  <2>2. \A i \in 1..Len(performed) : performed[i] \in 1..calls
    BY DEF IInv, Counts
  <2> QED
    BY <1>1, <2>1, <2>2 DEF Pending
<1>8. /\ Len(request') = 2 /\ request' = << request'[1], request'[2] >>
      /\ Arrives(got, request') /\ got \in Bytes
  <2>0. calls + 1 \in 1..MaxCalls
    BY <1>1, RpcAssumption DEF IInv, TypeOK
  <2>1. Params[calls + 1] \in 1..31
    BY <2>0, RpcAssumption
  <2>2. function \in {OPEN, CLOSE, PWRITE, PROPERTIES}
    BY DEF Function, IInv, TypeOK
  <2>3. /\ request' \in Request /\ Len(request') = 2
        /\ request' = << request'[1], request'[2] >>
    BY <1>1, <2>1, <2>2 DEF Request
  <2>4. Arrives(got, request')
    BY <1>3, <2>3, RequestArrives
  <2> QED
    BY <2>3, <2>4 DEF Arrives
<1>9. Phases'
  <2>1. ASSUME server = "soh" PROVE Seeking'
    <3>1. toServer = << >> /\ toClient = << >>
      BY <1>1, <2>1 DEF IInv, Phases, Seeking, Requesting, AskedFor
    <3>2. toServer' \in Bytes /\ << >> \in Bytes /\ Dead(<< >>)
      BY <1>2, <1>8, <3>1, Empty
    <3> QED
      BY <1>1, <1>2, <1>3, <1>7, <3>1, <3>2 DEF Seeking, Requesting, AskedFor
  <2>2. ASSUME server = "packet" PROVE Reading'
    <3>1. toServer \in Bytes /\ ~Complete(toServer) /\ toClient = << >>
      BY <1>1, <2>2 DEF IInv, Phases, Reading, Requesting, AskedFor
    <3>2. toServer' \in Bytes /\ Holds(toServer', request')
      BY <1>2, <1>8, <3>1, Appended
    <3> QED
      BY <1>1, <1>7, <3>1, <3>2 DEF Reading, Requesting, AskedFor
  <2>3. server \notin {"executing", "answering"}
    BY <1>1 DEF IInv, Phases, Accepting
  <2>4. ASSUME server = "reply" PROVE Acknowledging'
    <3>1. toServer = << ACK >> /\ toClient = << >>
      BY <1>1, <2>4 DEF IInv, Phases, Done, Acknowledging
    <3> QED
      BY <1>1, <1>2, <1>3, <1>7, <3>1 DEF Acknowledging
  <2>5. server = "gone" => toClient' = << >>
    BY <1>1 DEF IInv, Phases
  <2> QED
    BY <1>1, <1>7, <2>1, <2>2, <2>3, <2>4, <2>5 DEF Phases
<1> QED
  BY <1>4, <1>5, <1>9 DEF IInv

LEMMA AcceptedKeeps ==
  ASSUME IInv, Accepted
  PROVE  IInv'
<1>1. /\ client = "ack" /\ toClient # << >> /\ Head(toClient) = ACK /\ client' = "stx"
      /\ toClient' = Tail(toClient) /\ toServer' = toServer /\ errors' = errors
      /\ calls' = calls /\ session' = session /\ request' = request /\ answered' = answered
      /\ server' = server /\ data' = data /\ nRefCount' = nRefCount /\ performed' = performed
  BY DEF Accepted, serverVars
<1>2. TypeOK'
  BY <1>1 DEF IInv, TypeOK
<1>3. Counts'
  BY <1>1 DEF IInv, Counts, Pending, Function, DriveHeld
<1>4. Done => Done'
  BY <1>1 DEF Done
<1>5. ACK \in Nat
  BY DEF ACK
<1>6. Phases'
  <2>1. Requesting => Requesting'
    <3> SUFFICES ASSUME NEW x \in Byte, toClient = << x >> PROVE Requesting'
      BY <1>1 DEF Requesting
    <3>1. x \in Nat
      BY DEF Byte
    <3>2. toClient' = << >>
      BY <1>1, <3>1, OneByte
    <3> QED
      BY <1>1, <3>2 DEF Requesting
  <2>2. server # "gone"
    BY <1>1 DEF IInv, Phases
  <2>6. server = "soh" => Seeking'
    BY <1>1, <2>1 DEF IInv, Phases, Seeking, AskedFor
  <2>7. server = "packet" => Reading'
    BY <1>1, <2>1 DEF IInv, Phases, Reading, AskedFor
  <2>3. Accepting => Accepting'
    <3>1. Tail(<< ACK >>) = << >>
      BY <1>5, OneByte
    <3> QED
      BY <1>1, <3>1 DEF Accepting
  <2>4. ASSUME server = "reply" PROVE Replying' /\ Done'
    <3>1. Done /\ toServer = << >>
          /\ \E a \in DamagedAnswer(data) : toClient = << ACK >> \o a
      BY <1>1, <2>4 DEF IInv, Phases, Acknowledging, Replying
    <3>2. PICK a \in DamagedAnswer(data) : toClient = << ACK >> \o a
      BY <3>1
    <3>3. a \in Bytes
      BY <3>1, AnswerAsSent
    <3>4. toClient' = a
      BY <1>1, <3>2, <3>3, AckFirst
    <3> QED
      BY <1>1, <1>4, <3>1, <3>4 DEF Replying
  <2>5. Pending => Pending'
    BY <1>1 DEF Pending
  <2> QED
    BY <1>1, <1>4, <2>2, <2>3, <2>4, <2>5, <2>6, <2>7 DEF IInv, Phases
<1> QED
  BY <1>2, <1>3, <1>6 DEF IInv

LEMMA ResendsKeeps ==
  ASSUME IInv, Forgiving, Resends
  PROVE  IInv'
<1>1. /\ client = "ack" /\ toClient # << >> /\ Head(toClient) # ACK /\ client' = client
      /\ calls' = calls /\ session' = session /\ request' = request /\ answered' = answered
      /\ server' = server /\ data' = data /\ nRefCount' = nRefCount /\ performed' = performed
      /\ ToServer("request", Packet(SOH, request))
  BY DEF Resends, clientVars, serverVars
<1>2. PICK got \in Received("request", Packet(SOH, request)) : toServer' = toServer \o got
  BY <1>1 DEF ToServer
<1>3. got \in Damaged(request)
  BY RequestSent
<1>4. /\ Arrives(got, request) /\ got \in Bytes /\ Len(request) = 2
      /\ request = << request[1], request[2] >>
  BY <1>1, <1>3, RequestAsSent, Waits
<1>5. TypeOK'
  <2>1. errors \in 0..MaxErrors
    BY DEF IInv, TypeOK
  <2>2. errors' \in 0..MaxErrors
    BY <1>1, <2>1, ErrorsCounted
  <2> QED
    BY <1>1, <2>2 DEF IInv, TypeOK
<1>6. Counts'
  BY <1>1 DEF IInv, Counts, Pending, Function, DriveHeld
<1>7. Phases'
  <2>0. ACK \in Nat
    BY DEF ACK
  <2>1. ~Accepting
    BY <1>1, <2>0, OneByte DEF Accepting
  <2>2. ~Acknowledging
    BY <1>1 DEF Acknowledging
  <2>3. ~(Replying /\ Done)
    <3> SUFFICES ASSUME Done, NEW a \in DamagedAnswer(data), toClient = << ACK >> \o a
                 PROVE  FALSE
      BY <1>1 DEF Replying
    <3>1. a \in Bytes
      BY AnswerAsSent
    <3> QED
      BY <1>1, <3>1, AckFirst
  <2>4. server \in {"soh", "packet"} /\ Requesting
    BY <1>1, <2>1, <2>2, <2>3 DEF IInv, TypeOK, Phases, Seeking, Reading
  <2>5. toClient' = << >>
    <3>1. PICK x \in Byte : toClient = << x >>
      BY <1>1, <2>4 DEF Requesting
    <3>2. x \in Nat
      BY DEF Byte
    <3>3. PICK n \in 1..Len(toClient) : toClient' = SubSeq(toClient, n + 1, Len(toClient))
      BY DEF Resends
    <3>4. toClient \in Bytes /\ Len(toClient) = 1
      BY <3>1, <3>2, OneByte
    <3>5. n = 1 /\ n \in 0..Len(toClient)
      BY <3>3, <3>4
    <3>6. toClient' \in Bytes /\ Len(toClient') = Len(toClient) - n
      BY <3>3, <3>4, <3>5, Cut
    <3>7. Len(toClient') = 0
      BY <3>4, <3>5, <3>6
    <3> QED
      BY <3>6, <3>7, EmptySeq DEF Bytes
  <2>6. Requesting' /\ AskedFor'
    BY <1>1, <2>4, <2>5 DEF Requesting, AskedFor, Pending
  <2>7. ASSUME server = "soh" PROVE Seeking'
    <3>1. toServer \in Bytes /\ Dead(toServer)
      BY <1>1, <2>7 DEF IInv, Phases, Seeking, AskedFor
    <3>2. toServer' \in Bytes
      BY <1>2, <1>4, <3>1, Joined
    <3> QED
      BY <1>1, <1>2, <1>3, <2>6, <3>1, <3>2 DEF Seeking
  <2>8. ASSUME server = "packet" PROVE Reading'
    <3>1. toServer \in Bytes /\ ~Complete(toServer)
      BY <1>1, <2>8 DEF IInv, Phases, Reading, AskedFor
    <3>2. toServer' \in Bytes /\ Holds(toServer', request)
      BY <1>2, <1>4, <3>1, Appended
    <3> QED
      BY <1>1, <2>6, <3>2 DEF Reading
  <2> QED
    BY <1>1, <2>4, <2>7, <2>8 DEF Phases
<1> QED
  BY <1>5, <1>6, <1>7 DEF IInv

LEMMA SeeksSTXKeeps ==
  ASSUME IInv, SeeksSTX
  PROVE  IInv'
<1>1. /\ client = "stx" /\ toClient # << >>
      /\ client' = IF Head(toClient) = STX THEN "answer" ELSE "stx"
      /\ toClient' = Tail(toClient) /\ toServer' = toServer /\ errors' = errors
      /\ calls' = calls /\ session' = session /\ request' = request /\ answered' = answered
      /\ server' = server /\ data' = data /\ nRefCount' = nRefCount /\ performed' = performed
  BY DEF SeeksSTX, serverVars
<1>2. client' \in {"stx", "answer"}
  BY <1>1
<1>3. TypeOK'
  BY <1>1, <1>2 DEF IInv, TypeOK
<1>4. Counts'
  BY <1>1, <1>2 DEF IInv, Counts, Pending, Function, DriveHeld
<1>5. Done => Done'
  BY <1>1, <1>2 DEF Done
<1>6. Phases'
  <2>1. server = "reply" /\ Replying /\ Done
    BY <1>1 DEF IInv, TypeOK, Phases, Seeking, Reading, Requesting, Accepting, Acknowledging
  <2>2. PICK a \in DamagedAnswer(data) : toClient = a /\ toServer = << >>
    BY <1>1, <2>1 DEF Replying
  <2>3. Head(a) = STX
    BY <2>1, AnswerAsSent
  <2>4. Replying'
    BY <1>1, <2>2, <2>3 DEF Replying
  <2> QED
    BY <1>1, <1>5, <2>1, <2>4 DEF Phases
<1> QED
  BY <1>3, <1>4, <1>6 DEF IInv

\* The client takes or refuses a packet only when it is the answer to its call.
LEMMA AnswerThere ==
  ASSUME IInv, client = "answer"
  PROVE  /\ server = "reply" /\ Done /\ toServer = << >>
         /\ Complete(toClient) /\ AfterPacket(toClient) = << >>
         /\ Intact(toClient) => Body(toClient) = data
<1>1. server = "reply" /\ Replying /\ Done
  BY DEF IInv, TypeOK, Phases, Seeking, Reading, Requesting, Accepting, Acknowledging
<1>2. PICK a \in DamagedAnswer(data) : toClient = Tail(a) /\ toServer = << >>
  BY <1>1 DEF Replying
<1> QED
  BY <1>1, <1>2, AnswerAsSent

LEMMA TakesAnswerKeeps ==
  ASSUME IInv, Forgiving, TakesAnswer
  PROVE  IInv' /\ answered' = calls /\ Contains(performed, calls)
<1>1. /\ client = "answer" /\ Intact(toClient) /\ client' = "idle"
      /\ AfterCall(Body(toClient)[1] # OK)
      /\ answered' = (CHOOSE n \in 1..MaxCalls : Params[n] = Body(toClient)[2])
      /\ toClient' = AfterPacket(toClient) /\ ToServer("accepted", << ACK >>)
      /\ calls' = calls /\ request' = request
      /\ server' = server /\ data' = data /\ nRefCount' = nRefCount /\ performed' = performed
  BY DEF TakesAnswer, serverVars
<1>2. /\ server = "reply" /\ Done /\ toServer = << >> /\ AfterPacket(toClient) = << >>
      /\ Body(toClient) = data
  BY <1>1, AnswerThere
<1>3. toServer' = << ACK >>
  <2>1. PICK got \in Received("accepted", << ACK >>) : toServer' = toServer \o got
    BY <1>1 DEF ToServer
  <2>2. got = << ACK >>
    BY AckSent
  <2>3. << ACK >> \in Bytes
    BY OneByte DEF ACK
  <2> QED
    BY <1>2, <2>1, <2>2, <2>3, Empty
<1>4. calls \in 1..MaxCalls /\ answered' = calls
  <2>1. calls \in 1..MaxCalls
    BY <1>2, Waits DEF Done
  <2>2. data[2] = Params[calls]
    BY <1>2, Answered
  <2>3. (CHOOSE n \in 1..MaxCalls : Params[n] = Params[calls]) = calls
    BY <2>1, Numbered
  <2> QED
    BY <1>1, <1>2, <2>1, <2>2, <2>3
<1>5. session' \in {"closed", "opening", "open"}
  BY <1>1 DEF AfterCall, IInv, TypeOK
<1>6. TypeOK'
  <2>1. errors \in 0..MaxErrors
    BY DEF IInv, TypeOK
  <2>2. errors' \in 0..MaxErrors
    BY <1>1, <2>1, ErrorsCounted
  <2>3. answered' \in 0..MaxCalls
    BY <1>4, RpcAssumption
  <2> QED
    BY <1>1, <1>5, <2>2, <2>3 DEF IInv, TypeOK
<1>7. DriveHeld'
  <2>1. request[1] = CLOSE => session' = "closed"
    BY <1>1 DEF AfterCall, CLOSE, OPEN, PROPERTIES
  <2>2. ASSUME request[1] # CLOSE, session' # "closed" PROVE nRefCount > 0
    <3>1. CASE request[1] = OPEN
      <4>1. data[1] = OK
        BY <1>1, <1>2, <2>2, <3>1 DEF AfterCall
      <4> QED
        BY <1>2, <3>1, <4>1 DEF Done
    <3>2. CASE request[1] # OPEN
      <4>1. session # "closed"
        <5>1. request[1] \in Function
          BY <1>1 DEF IInv, Counts
        <5> QED
          BY <3>2, <5>1 DEF Function
      <4> QED
        BY <2>2, <4>1 DEF IInv, Counts, DriveHeld
    <3> QED
      BY <3>1, <3>2
  <2> QED
    BY <1>1, <2>1, <2>2 DEF DriveHeld
<1>8. Counts'
  BY <1>1, <1>7 DEF IInv, Counts
<1>9. Phases'
  <2>1. Acknowledging'
    BY <1>1, <1>2, <1>3 DEF Acknowledging
  <2> QED
    BY <1>1, <1>2, <2>1 DEF Phases
<1> QED
  BY <1>2, <1>4, <1>6, <1>8, <1>9 DEF IInv, Done

LEMMA RefusesAnswerKeeps ==
  ASSUME IInv, Forgiving, RefusesAnswer
  PROVE  IInv'
<1>1. /\ client = "answer" /\ client' = "stx"
      /\ toClient' = AfterPacket(toClient) /\ ToServer("refused", << NAK >>)
      /\ calls' = calls /\ session' = session /\ request' = request /\ answered' = answered
      /\ server' = server /\ data' = data /\ nRefCount' = nRefCount /\ performed' = performed
  BY DEF RefusesAnswer, serverVars
<1>2. /\ server = "reply" /\ Done /\ toServer = << >> /\ AfterPacket(toClient) = << >>
  BY <1>1, AnswerThere
<1>3. \E x \in Byte : toServer' = << x >>
  <2>1. PICK got \in Received("refused", << NAK >>) : toServer' = toServer \o got
    BY <1>1 DEF ToServer
  <2>2. PICK x \in Byte : got = << x >>
    BY NakSent
  <2>3. << x >> \in Bytes
    BY OneByte DEF Byte
  <2> QED
    BY <1>2, <2>1, <2>2, <2>3, Empty
<1>4. TypeOK'
  <2>1. errors \in 0..MaxErrors
    BY DEF IInv, TypeOK
  <2>2. errors' \in 0..MaxErrors
    BY <1>1, <2>1, ErrorsCounted
  <2> QED
    BY <1>1, <2>2 DEF IInv, TypeOK
<1>5. Counts'
  BY <1>1 DEF IInv, Counts, Pending, Function, DriveHeld
<1>6. Phases'
  <2>1. Done'
    BY <1>1, <1>2 DEF Done
  <2>2. Replying'
    BY <1>1, <1>2, <1>3 DEF Replying
  <2> QED
    BY <1>1, <1>2, <2>1, <2>2 DEF Phases
<1> QED
  BY <1>4, <1>5, <1>6 DEF IInv

LEMMA GivesUpKeeps ==
  ASSUME IInv, Forgiving, GivesUp
  PROVE  IInv'
<1>1. /\ client # "idle" /\ Starved /\ client' = "idle" /\ toClient' = << >>
      /\ AfterCall(TRUE) /\ answered' = TimedOut
      /\ toServer' = toServer /\ errors' = errors /\ calls' = calls /\ request' = request
      /\ server' = server /\ data' = data /\ nRefCount' = nRefCount /\ performed' = performed
  BY DEF GivesUp, serverVars, Forgiving
<1>2. TypeOK'
  <2>1. session' \in {"closed", "opening", "open"}
    BY <1>1 DEF AfterCall, IInv, TypeOK
  <2> QED
    BY <1>1, <2>1, RpcAssumption DEF IInv, TypeOK, TimedOut
<1>3. Counts'
  <2>1. ASSUME session' # "closed" PROVE nRefCount > 0
    <3>1. request[1] # CLOSE /\ session' = session
      BY <1>1, <2>1 DEF AfterCall
    <3> QED
      BY <2>1, <3>1 DEF IInv, Counts, DriveHeld
  <2> QED
    BY <1>1, <2>1 DEF IInv, Counts, DriveHeld
<1>4. Phases'
  <2>1. ASSUME server = "soh" PROVE Seeking'
    <3>1. toServer = << >>
      BY <1>1, <2>1 DEF Starved
    <3> QED
      BY <1>1, <3>1, Empty DEF Seeking, Requesting
  <2>2. ASSUME server = "packet" PROVE Reading'
    <3>1. toServer \in Bytes /\ ~Complete(toServer)
      BY <1>1, <2>2 DEF Starved, IInv, Phases, Reading
    <3> QED
      BY <1>1, <3>1 DEF Reading, Requesting, Holds
  <2>3. server # "reply"
    <3> SUFFICES ASSUME server = "reply" PROVE FALSE
      OBVIOUS
    <3>1. toServer = << >>
      BY <1>1 DEF Starved
    <3>2. \A x \in Byte : << x >> # << >>
      BY OneByte DEF Byte
    <3>3. ~Acknowledging
      <4> SUFFICES ASSUME NEW r \in Damaged(request), toServer = << ACK >> \o r PROVE FALSE
        BY <1>1 DEF Acknowledging
      <4>1. r \in Bytes
        BY <1>1, RequestAsSent
      <4> QED
        BY <3>1, <4>1, AckFirst
    <3>4. Replying /\ Done
      BY <3>3 DEF IInv, Phases
    <3>5. PICK a \in DamagedAnswer(data) :
            \/ client = "ack" /\ toClient = << ACK >> \o a
            \/ client = "stx" /\ toClient = a
            \/ client = "answer" /\ toClient = Tail(a)
      BY <3>1, <3>2, <3>4 DEF Replying
    <3>6. a \in Bytes /\ a # << >> /\ Complete(Tail(a))
      BY <3>4, AnswerAsSent
    <3>7. << ACK >> \o a # << >>
      BY <3>6, AckFirst
    <3> QED
      BY <3>5, <3>6, <3>7 DEF GivesUp
  <2> QED
    BY <1>1, <2>1, <2>2, <2>3 DEF Starved, Phases
<1> QED
  BY <1>2, <1>3, <1>4 DEF IInv
-------------------------------------------------------------------------------
LEMMA SeeksSOHKeeps ==
  ASSUME IInv, Forgiving, SeeksSOH
  PROVE  IInv'
<1>1. /\ server = "soh" /\ toServer # << >>
      /\ server' = IF Head(toServer) = SOH THEN "packet" ELSE "soh"
      /\ toServer' = Tail(toServer) /\ toClient' = toClient /\ errors' = errors
      /\ calls' = calls /\ client' = client /\ session' = session /\ request' = request
      /\ answered' = answered /\ data' = data /\ nRefCount' = nRefCount
      /\ performed' = performed
  BY DEF SeeksSOH, clientVars
<1>2. TypeOK'
  BY <1>1 DEF IInv, TypeOK
<1>3. Counts'
  BY <1>1 DEF IInv, Counts, Pending, Function, DriveHeld
<1>4. Seeking
  BY <1>1 DEF IInv, Phases
<1>5. client # "idle" /\ toServer \in Bytes
  <2>1. CASE Dead(toServer) /\ (client = "idle" => toServer = << >>)
    BY <1>1, <1>4, <2>1 DEF Seeking, Requesting
  <2>2. CASE AskedFor
    BY <1>4, <2>2 DEF Seeking, AskedFor
  <2> QED
    BY <1>4, <2>1, <2>2 DEF Seeking
<1>6. Requesting' /\ (AskedFor => AskedFor')
  BY <1>1, <1>4 DEF Seeking, Requesting, AskedFor, Pending
<1>7. CASE Dead(toServer)
  <2>1. /\ toServer' \in Bytes /\ Dead(toServer')
        /\ Head(toServer) = SOH => ~Complete(toServer')
    BY <1>1, <1>5, <1>7, DeadRest
  <2>2. Head(toServer) = SOH => Reading'
    BY <1>6, <2>1 DEF Reading, Holds
  <2>3. Seeking'
    BY <1>1, <1>5, <1>6, <2>1 DEF Seeking
  <2> QED
    BY <1>1, <1>2, <1>3, <2>2, <2>3 DEF IInv, Phases
<1>8. ASSUME AskedFor, NEW l \in Bytes, NEW r \in Damaged(request), Dead(l),
             toServer = l \o r
      PROVE  IInv'
  <2>1. /\ Arrives(r, request) /\ r \in Bytes /\ Len(request) = 2
        /\ request = << request[1], request[2] >>
    BY <1>5, RequestAsSent, Waits
  <2>2. CASE l = << >>
    <3>1. toServer = r
      BY <1>8, <2>1, <2>2, Empty
    <3>2. /\ toServer' \in Bytes /\ Dead(toServer')
          /\ Head(toServer) = SOH => Holds(toServer', request)
      BY <1>1, <2>1, <3>1, Begun
    <3>3. Head(toServer) = SOH => Reading'
      BY <1>1, <1>6, <1>8, <3>2 DEF Reading
    <3>4. Seeking'
      BY <1>1, <1>5, <1>6, <3>2 DEF Seeking
    <3> QED
      BY <1>1, <1>2, <1>3, <3>3, <3>4 DEF IInv, Phases
  <2>3. CASE l # << >>
    <3>1. Head(toServer) = Head(l) /\ toServer' = Tail(l) \o r
      BY <1>1, <1>8, <2>1, <2>3, TailJoined
    <3>2. Tail(l) \in Bytes /\ Dead(Tail(l)) /\ (Head(l) = SOH => ~Complete(Tail(l)))
      BY <1>8, <2>3, DeadRest
    <3>3. toServer' \in Bytes
      BY <2>1, <3>1, <3>2, Joined
    <3>4. Head(toServer) = SOH => Reading'
      <4>1. ASSUME Head(toServer) = SOH PROVE Holds(toServer', request')
        BY <1>1, <2>1, <3>1, <3>2, <4>1, Appended
      <4> QED
        BY <1>6, <1>8, <3>3, <4>1 DEF Reading
    <3>5. Seeking'
      BY <1>1, <1>6, <1>8, <3>1, <3>2, <3>3 DEF Seeking
    <3> QED
      BY <1>1, <1>2, <1>3, <3>4, <3>5 DEF IInv, Phases
  <2> QED
    BY <2>2, <2>3
<1> QED
  BY <1>4, <1>7, <1>8 DEF Seeking

LEMMA TakesPacketKeeps ==
  ASSUME IInv, Forgiving, TakesPacket
  PROVE  IInv'
<1>1. /\ server = "packet" /\ Complete(toServer) /\ Intact(toServer)
      /\ data' = Body(toServer) /\ server' = "executing" /\ toServer' = AfterPacket(toServer)
      /\ ToClient("accept", << ACK >>)
      /\ calls' = calls /\ client' = client /\ session' = session /\ request' = request
      /\ answered' = answered /\ nRefCount' = nRefCount /\ performed' = performed
  BY DEF TakesPacket, clientVars
<1>2. /\ AskedFor /\ AfterPacket(toServer) = << >> /\ Body(toServer) = request /\ Pending
  BY <1>1 DEF IInv, Phases, Reading, Holds, Requesting, AskedFor
<1>3. toClient' = << ACK >>
  <2>1. PICK got \in Received("accept", << ACK >>) : toClient' = toClient \o got
    BY <1>1 DEF ToClient
  <2>2. got = << ACK >>
    BY AckSent
  <2>3. << ACK >> \in Bytes
    BY OneByte DEF ACK
  <2> QED
    BY <1>2, <2>1, <2>2, <2>3, Empty DEF AskedFor
<1>4. TypeOK'
  <2>1. errors \in 0..MaxErrors
    BY DEF IInv, TypeOK
  <2>2. errors' \in 0..MaxErrors
    BY <1>1, <2>1, ErrorsCounted
  <2> QED
    BY <1>1, <2>2 DEF IInv, TypeOK
<1>5. Counts'
  BY <1>1 DEF IInv, Counts, Pending, Function, DriveHeld
<1>6. Phases'
  <2>1. Accepting' /\ Pending'
    BY <1>1, <1>2, <1>3 DEF Accepting, AskedFor, Pending
  <2> QED
    BY <1>1, <1>2, <2>1 DEF Phases
<1> QED
  BY <1>4, <1>5, <1>6 DEF IInv

LEMMA RefusesPacketKeeps ==
  ASSUME IInv, Forgiving, RefusesPacket
  PROVE  IInv'
<1>1. /\ server = "packet" /\ Complete(toServer)
      /\ data' = data /\ server' = "soh" /\ toServer' = AfterPacket(toServer)
      /\ ToClient("refuse", << NAK >>)
      /\ calls' = calls /\ client' = client /\ session' = session /\ request' = request
      /\ answered' = answered /\ nRefCount' = nRefCount /\ performed' = performed
  BY DEF RefusesPacket, clientVars
<1>2. AskedFor /\ Dead(AfterPacket(toServer)) /\ Pending /\ AfterPacket(toServer) \in Bytes
  BY <1>1, AfterIs DEF IInv, Phases, Reading, Holds, Requesting, AskedFor
<1>3. toClient' = << >> \/ \E x \in Byte : toClient' = << x >>
  <2>1. PICK got \in Received("refuse", << NAK >>) : toClient' = toClient \o got
    BY <1>1 DEF ToClient
  <2>2. got = << >> \/ \E x \in Byte : got = << x >>
    BY NakSent
  <2>3. ASSUME NEW x \in Byte PROVE << x >> \in Bytes
    BY OneByte DEF Byte
  <2>4. got \in Bytes
    BY <2>2, <2>3, Empty
  <2>5. toClient' = got
    BY <1>2, <2>1, <2>4, Empty DEF AskedFor
  <2> QED
    BY <2>2, <2>5
<1>4. TypeOK'
  <2>1. errors \in 0..MaxErrors
    BY DEF IInv, TypeOK
  <2>2. errors' \in 0..MaxErrors
    BY <1>1, <2>1, ErrorsCounted
  <2> QED
    BY <1>1, <2>2 DEF IInv, TypeOK
<1>5. Counts'
  BY <1>1 DEF IInv, Counts, Pending, Function, DriveHeld
<1>6. Phases'
  <2>1. Requesting' /\ client' = "ack"
    BY <1>1, <1>2, <1>3 DEF Requesting, AskedFor, Pending
  <2>2. Seeking'
    BY <1>1, <1>2, <2>1 DEF Seeking
  <2> QED
    BY <1>1, <2>2 DEF Phases
<1> QED
  BY <1>4, <1>5, <1>6 DEF IInv

LEMMA ExecutesKeeps ==
  ASSUME IInv, Executes
  PROVE  /\ IInv' /\ client # "idle" /\ ~Contains(performed, calls)
         /\ performed' = Append(performed, calls)
<1>1. PICK err \in {OK, Failed} :
        /\ server = "executing" /\ nRefCount' = Refs(data[1], err)
        /\ data' = << err, data[2] >> /\ server' = "answering"
        /\ performed' = Append(performed, CHOOSE n \in 1..MaxCalls : Params[n] = data[2])
        /\ toServer' = toServer /\ toClient' = toClient /\ errors' = errors
        /\ calls' = calls /\ client' = client /\ session' = session /\ request' = request
        /\ answered' = answered
  <2>1. \E err \in IF data[1] = PROPERTIES THEN {OK} ELSE {OK, Failed} :
          nRefCount' = Refs(data[1], err) /\ data' = << err, data[2] >>
    BY DEF Executes
  <2> QED
    BY <2>1 DEF Executes, line, clientVars
<1>2. Accepting /\ data = request /\ Pending /\ client # "idle"
  BY <1>1 DEF IInv, Phases, Accepting
<1>3. calls \in 1..MaxCalls /\ calls \in Nat /\ request[2] = Params[calls]
  BY <1>2, Waits
<1>4. performed' = Append(performed, calls)
  BY <1>1, <1>2, <1>3, Numbered
<1>5. /\ performed \in Seq(Nat) /\ Len(performed) \in Nat
      /\ \A i \in 1..Len(performed) : performed[i] \in 1..calls
  BY DEF IInv, Counts
<1>6. /\ performed' \in Seq(Nat) /\ Len(performed') = Len(performed) + 1
      /\ performed'[Len(performed) + 1] = calls
      /\ \A i \in 1..Len(performed) : performed'[i] = performed[i]
  BY <1>3, <1>4, <1>5
<1>7. ~Contains(performed, calls)
  BY <1>2, <1>3, <1>5 DEF Pending, Contains
<1>8. Contains(performed', calls') /\ ~Pending'
  <2> DEFINE n == Len(performed) + 1
  <2>1. n \in 1..Len(performed')
    BY <1>5, <1>6
  <2>2. performed'[n] = calls' /\ calls' = calls
    BY <1>1, <1>6
  <2> HIDE DEF n
  <2>3. Contains(performed', calls')
    BY <2>1, <2>2 DEF Contains
  <2>4. ~(performed'[n] < calls')
    BY <1>3, <2>2
  <2> QED
    BY <2>1, <2>3, <2>4 DEF Pending
<1>9. /\ nRefCount \in 0..calls /\ nRefCount < calls /\ (request[1] = CLOSE => nRefCount > 0)
      /\ (session # "closed" /\ request[1] # CLOSE => nRefCount > 0)
  BY <1>2 DEF IInv, Counts, DriveHeld
<1>10. /\ nRefCount' \in 0..calls
       /\ request[1] = OPEN /\ err = OK => nRefCount' > 0
       /\ session # "closed" /\ request[1] # CLOSE => nRefCount' > 0
  <2>1. CASE request[1] = OPEN /\ err = OK
    <3>1. nRefCount' = nRefCount + 1
      BY <1>1, <1>2, <2>1 DEF Refs, OPEN, CLOSE
    <3> QED
      BY <1>3, <1>9, <3>1
  <2>2. CASE request[1] = CLOSE
    <3>1. nRefCount' = nRefCount - 1
      BY <1>1, <1>2, <2>2 DEF Refs, OPEN, CLOSE
    <3> QED
      BY <1>3, <1>9, <2>2, <3>1 DEF OPEN, CLOSE
  <2>3. CASE ~(request[1] = OPEN /\ err = OK) /\ request[1] # CLOSE
    <3>1. nRefCount' = nRefCount
      BY <1>1, <1>2, <2>3 DEF Refs
    <3> QED
      BY <1>9, <2>3, <3>1
  <2> QED
    BY <2>1, <2>2, <2>3
<1>11. TypeOK'
  <2>1. nRefCount' \in 0..MaxCalls
    BY <1>3, <1>10, RpcAssumption
  <2> QED
    BY <1>1, <2>1 DEF IInv, TypeOK
<1>12. Counts'
  <2>1. ASSUME NEW i \in 1..Len(performed') PROVE performed'[i] \in 1..calls
    <3>1. i \in 1..Len(performed) \/ i = Len(performed) + 1
      BY <1>5, <1>6
    <3>2. calls \in 1..calls
      BY <1>3
    <3> QED
      BY <1>5, <1>6, <3>1, <3>2
  <2>2. Function' = Function
    BY <1>1 DEF Function
  <2> QED
    BY <1>1, <1>2, <1>6, <1>8, <1>10, <2>1, <2>2 DEF IInv, Counts, DriveHeld
<1>13. Phases'
  <2>1. Accepting'
    BY <1>1, <1>2 DEF Accepting
  <2>2. data'[1] = err /\ data' = << data'[1], Params[calls'] >>
    BY <1>1, <1>2, <1>3
  <2>3. Done'
    BY <1>1, <1>2, <1>8, <1>10, <2>2 DEF Done
  <2> QED
    BY <1>1, <2>1, <2>3 DEF Phases
<1> QED
  BY <1>2, <1>4, <1>7, <1>11, <1>12, <1>13 DEF IInv

LEMMA AnswersKeeps ==
  ASSUME IInv, Forgiving, Answers
  PROVE  IInv'
<1>1. /\ server = "answering" /\ server' = "reply" /\ ToClient("answer", Packet(STX, data))
      /\ toServer' = toServer /\ data' = data
      /\ calls' = calls /\ client' = client /\ session' = session /\ request' = request
      /\ answered' = answered /\ nRefCount' = nRefCount /\ performed' = performed
  BY DEF Answers, clientVars
<1>2. Accepting /\ Done
  BY <1>1 DEF IInv, Phases
<1>3. PICK got \in Received("answer", Packet(STX, data)) : toClient' = toClient \o got
  BY <1>1 DEF ToClient
<1>4. got \in DamagedAnswer(data)
  BY AnswerSent
<1>5. got \in Bytes
  BY <1>2, <1>4, AnswerAsSent
<1>6. TypeOK'
  <2>1. errors \in 0..MaxErrors
    BY DEF IInv, TypeOK
  <2>2. errors' \in 0..MaxErrors
    BY <1>1, <2>1, ErrorsCounted
  <2> QED
    BY <1>1, <2>2 DEF IInv, TypeOK
<1>7. Counts'
  BY <1>1 DEF IInv, Counts, Pending, Function, DriveHeld
<1>8. Phases'
  <2>1. Done'
    BY <1>1, <1>2 DEF Done
  <2>2. << >> \o got = got
    BY <1>5, Empty
  <2>3. Replying'
    BY <1>1, <1>2, <1>3, <1>4, <2>2 DEF Accepting, Replying
  <2> QED
    BY <1>1, <2>1, <2>3 DEF Phases
<1> QED
  BY <1>6, <1>7, <1>8 DEF IInv

\* Which bytes reach a server that has sent its answer.
LEMMA AckThere ==
  ASSUME IInv, server = "reply", toServer # << >>
  PROVE  /\ toClient = << >>
         /\ \/ client = "stx" /\ Tail(toServer) = << >> /\ Done
            \/ /\ Head(toServer) = ACK
               /\ \/ client = "idle" /\ Tail(toServer) = << >>
                  \/ /\ client = "ack" /\ Pending
                     /\ \E r \in Damaged(request) : r \in Bytes /\ Tail(toServer) = r
<1>1. CASE Replying /\ Done
  <2>1. client = "stx" /\ toClient = << >> /\ \E x \in Byte : toServer = << x >>
    BY <1>1 DEF Replying
  <2>2. PICK x \in Byte : toServer = << x >>
    BY <2>1
  <2>3. x \in Nat
    BY DEF Byte
  <2>4. Tail(toServer) = << >>
    BY <2>2, <2>3, OneByte
  <2> QED
    BY <1>1, <2>1, <2>4
<1>2. CASE Acknowledging
  <2>1. CASE client = "idle" /\ toServer = << ACK >>
    <3>1. ACK \in Nat
      BY DEF ACK
    <3>2. Head(toServer) = ACK /\ Tail(toServer) = << >>
      BY <2>1, <3>1, OneByte
    <3> QED
      BY <1>2, <2>1, <3>2 DEF Acknowledging
  <2>2. ASSUME client = "ack", Pending, NEW r \in Damaged(request), toServer = << ACK >> \o r
        PROVE  /\ Head(toServer) = ACK
               /\ \E q \in Damaged(request) : q \in Bytes /\ Tail(toServer) = q
    <3>1. r \in Bytes
      BY <2>2, RequestAsSent
    <3> QED
      BY <2>2, <3>1, AckFirst
  <2> QED
    BY <1>2, <2>1, <2>2 DEF Acknowledging
<1> QED
  BY <1>1, <1>2 DEF IInv, Phases

LEMMA AcknowledgedKeeps ==
  ASSUME IInv, Acknowledged
  PROVE  IInv'
<1>1. /\ server = "reply" /\ toServer # << >> /\ Head(toServer) = ACK
      /\ toServer' = Tail(toServer) /\ server' \in {"gone", "soh"}
      /\ toClient' = toClient /\ errors' = errors /\ data' = data
      /\ calls' = calls /\ client' = client /\ session' = session /\ request' = request
      /\ answered' = answered /\ nRefCount' = nRefCount /\ performed' = performed
  BY DEF Acknowledged, Serves, clientVars
<1>2. /\ toClient = << >>
      /\ \/ client \in {"idle", "stx"} /\ Tail(toServer) = << >>
         \/ /\ client = "ack" /\ Pending
            /\ \E r \in Damaged(request) : r \in Bytes /\ Tail(toServer) = r
  BY <1>1, AckThere
<1>3. TypeOK'
  BY <1>1 DEF IInv, TypeOK
<1>4. Counts'
  BY <1>1 DEF IInv, Counts, Pending, Function, DriveHeld
<1>5. Pending => Pending'
  BY <1>1 DEF Pending
<1>6. Phases'
  <2>1. Requesting'
    BY <1>1, <1>2, <1>5 DEF Requesting
  <2>2. Seeking'
    <3>1. CASE client \in {"idle", "stx"} /\ Tail(toServer) = << >>
      BY <1>1, <2>1, <3>1, Empty DEF Seeking
    <3>2. ASSUME client = "ack", NEW r \in Damaged(request), r \in Bytes, Tail(toServer) = r
          PROVE  Seeking'
      <4>1. /\ << >> \in Bytes /\ Dead(<< >>) /\ r = << >> \o r
        BY <3>2, Empty
      <4> QED
        BY <1>1, <1>2, <2>1, <3>2, <4>1 DEF Seeking, AskedFor
    <3> QED
      BY <1>2, <3>1, <3>2
  <2> QED
    BY <1>1, <1>2, <1>5, <2>2 DEF Phases
<1> QED
  BY <1>3, <1>4, <1>6 DEF IInv

LEMMA AnswersAgainKeeps ==
  ASSUME IInv, Forgiving, AnswersAgain
  PROVE  IInv'
<1>1. /\ server = "reply" /\ toServer # << >> /\ Head(toServer) # ACK
      /\ toServer' = Tail(toServer) /\ ToClient("answer", Packet(STX, data))
      /\ calls' = calls /\ client' = client /\ session' = session /\ request' = request
      /\ answered' = answered /\ server' = server /\ data' = data /\ nRefCount' = nRefCount
      /\ performed' = performed
  BY DEF AnswersAgain, clientVars, serverVars
<1>2. Tail(toServer) = << >> /\ Done /\ client = "stx" /\ toClient = << >>
  BY <1>1, AckThere
<1>3. PICK got \in Received("answer", Packet(STX, data)) : toClient' = toClient \o got
  BY <1>1 DEF ToClient
<1>4. got \in DamagedAnswer(data)
  BY AnswerSent
<1>5. got \in Bytes
  BY <1>2, <1>4, AnswerAsSent
<1>6. TypeOK'
  <2>1. errors \in 0..MaxErrors
    BY DEF IInv, TypeOK
  <2>2. errors' \in 0..MaxErrors
    BY <1>1, <2>1, ErrorsCounted
  <2> QED
    BY <1>1, <2>2 DEF IInv, TypeOK
<1>7. Counts'
  BY <1>1 DEF IInv, Counts, Pending, Function, DriveHeld
<1>8. Phases'
  <2>1. Done'
    BY <1>1, <1>2 DEF Done
  <2>2. toClient' = got
    BY <1>2, <1>3, <1>5, Empty
  <2>3. Replying'
    BY <1>1, <1>2, <1>4, <2>2 DEF Replying
  <2> QED
    BY <1>1, <2>1, <2>3 DEF Phases
<1> QED
  BY <1>6, <1>7, <1>8 DEF IInv

LEMMA LosesPatienceKeeps ==
  ASSUME IInv, LosesPatience
  PROVE  IInv'
<1>1. /\ client = "idle" /\ Starved /\ server # "gone"
      /\ server # "reply" => server' = "gone"
      /\ toClient' = toClient /\ errors' = errors /\ data' = data
      /\ calls' = calls /\ client' = client /\ session' = session /\ request' = request
      /\ answered' = answered /\ nRefCount' = nRefCount /\ performed' = performed
  BY DEF LosesPatience, clientVars
<1>2. server # "reply"
  <2> SUFFICES ASSUME server = "reply" PROVE FALSE
    OBVIOUS
  <2>1. toServer = << >>
    BY <1>1 DEF Starved
  <2>2. << ACK >> # << >>
    BY OneByte DEF ACK
  <2> QED
    BY <1>1, <2>1, <2>2 DEF IInv, Phases, Done, Acknowledging
<1>3. server' = "gone" /\ toClient = << >>
  BY <1>1, <1>2 DEF Starved, IInv, Phases, Seeking, Reading, Requesting
<1>4. TypeOK'
  BY <1>1, <1>3 DEF IInv, TypeOK
<1>5. Counts'
  BY <1>1 DEF IInv, Counts, Pending, Function, DriveHeld
<1>6. Phases'
  BY <1>1, <1>3 DEF Phases
<1> QED
  BY <1>4, <1>5, <1>6 DEF IInv
-------------------------------------------------------------------------------
LEMMA InitHolds == Init => IInv
<1> SUFFICES ASSUME Init PROVE IInv
  OBVIOUS
<1>1. TypeOK
  BY RpcAssumption DEF Init, TypeOK, TimedOut
<1>2. Seeking
  BY Empty DEF Init, Seeking, Requesting
<1>3. Phases
  BY <1>2 DEF Init, Phases
<1>4. Counts
  <2>1. << >> \in Seq(Nat) /\ Len(<< >>) = 0
    BY EmptySeq
  <2> QED
    BY <2>1 DEF Init, Counts, DriveHeld
<1> QED
  BY <1>1, <1>3, <1>4 DEF IInv

LEMMA NextKeeps == IInv /\ Forgiving /\ [Next]_vars => IInv'
<1> SUFFICES ASSUME IInv, Forgiving, [Next]_vars PROVE IInv'
  OBVIOUS
<1>1. ASSUME NEW function \in Function, Call(function) PROVE IInv'
  BY <1>1, CallKeeps
<1>2. CASE ClientStep
  BY <1>2, AcceptedKeeps, ResendsKeeps, SeeksSTXKeeps, TakesAnswerKeeps, RefusesAnswerKeeps,
     GivesUpKeeps DEF ClientStep
<1>3. CASE ServerStep
  BY <1>3, SeeksSOHKeeps, TakesPacketKeeps, RefusesPacketKeeps, ExecutesKeeps, AnswersKeeps,
     AcknowledgedKeeps, AnswersAgainKeeps DEF ServerStep
<1>4. CASE LosesPatience
  BY <1>4, LosesPatienceKeeps
<1>5. CASE UNCHANGED vars
  <2>1. /\ toServer' = toServer /\ toClient' = toClient /\ errors' = errors
        /\ calls' = calls /\ client' = client /\ session' = session /\ request' = request
        /\ answered' = answered /\ server' = server /\ data' = data
        /\ nRefCount' = nRefCount /\ performed' = performed
    BY <1>5 DEF vars, line, clientVars, serverVars
  <2>2. TypeOK'
    BY <2>1 DEF IInv, TypeOK
  <2>3. Phases'
    BY <2>1 DEF IInv, Phases, Seeking, Reading, Requesting, Accepting, Done, Replying,
       Acknowledging, AskedFor, Pending
  <2>4. Counts'
    BY <2>1 DEF IInv, Counts, Pending, Function, DriveHeld
  <2> QED
    BY <2>2, <2>3, <2>4 DEF IInv
<1> QED
  BY <1>1, <1>2, <1>3, <1>4, <1>5 DEF Next

\* As long as the line damages what it may, one of the two machines at most has a packet
\* under way, and no bytes that the server still has to read are a packet but for the
\* request that the client waits for (tios_call, read_packet, write_packet).
THEOREM Invariant == ASSUME Forgiving PROVE Spec => []IInv
<1>1. Init => IInv
  BY InitHolds
<1>2. IInv /\ [Next]_vars => IInv'
  BY NextKeeps
<1> QED
  BY <1>1, <1>2, PTL DEF Spec

\* The registers of both machines hold what they may (tios_call, dsk_rpc_server).
THEOREM TypeCorrect == ASSUME Forgiving PROVE Spec => []TypeOK
<1>1. IInv => TypeOK
  BY DEF IInv
<1> QED
  BY <1>1, Invariant, PTL

\* The server counts the drive of a program until that program closes it (nRefCount of
\* dsk_rpc_server), whichever of the errors that Forgiving admits the line makes.
THEOREM DrivesAreHeld == ASSUME Forgiving PROVE Spec => []DriveHeld
<1>1. IInv => DriveHeld
  BY DEF IInv, Counts
<1> QED
  BY <1>1, Invariant, PTL

\* Each step of the two machines is a step of RemoteCalls, or none.
LEMMA NextMaps == IInv /\ IInv' /\ Forgiving /\ [Next]_vars => [Calls!Next]_Calls!callVars
<1> SUFFICES ASSUME IInv, IInv', Forgiving, [Next]_vars
             PROVE  [Calls!Next]_Calls!callVars
  OBVIOUS
<1> USE DEF Calls!callVars
<1>1. ASSUME NEW function \in Function, Call(function) PROVE Calls!Call
  BY <1>1 DEF Call, serverVars, Calls!Call
<1>2. CASE TakesAnswer
  <2>1. answered' = calls /\ Contains(performed, calls)
    BY <1>2, TakesAnswerKeeps
  <2>2. client = "answer" /\ client' = "idle" /\ calls' = calls /\ performed' = performed
    BY <1>2 DEF TakesAnswer, serverVars
  <2>3. Calls!Return
    BY <2>1, <2>2 DEF Calls!Return, Contains, Calls!Contains
  <2> QED
    BY <2>3 DEF Calls!Next
<1>3. CASE GivesUp
  BY <1>3 DEF GivesUp, serverVars, Calls!Next, Calls!GiveUp
<1>4. CASE Executes
  <2>1. client # "idle" /\ ~Contains(performed, calls) /\ performed' = Append(performed, calls)
    BY <1>4, ExecutesKeeps
  <2>2. calls' = calls /\ client' = client /\ answered' = answered
    BY <1>4 DEF Executes, clientVars
  <2>3. Calls!Perform
    BY <2>1, <2>2 DEF Calls!Perform, Contains, Calls!Contains
  <2> QED
    BY <2>3 DEF Calls!Next
<1>5. CASE Accepted \/ Resends \/ SeeksSTX \/ RefusesAnswer
  BY <1>5 DEF Accepted, Resends, SeeksSTX, RefusesAnswer, clientVars, serverVars
<1>6. CASE \/ SeeksSOH \/ TakesPacket \/ RefusesPacket \/ Answers \/ Acknowledged
           \/ AnswersAgain \/ LosesPatience
  BY <1>6 DEF SeeksSOH, TakesPacket, RefusesPacket, Answers, Acknowledged, AnswersAgain,
     LosesPatience, clientVars, serverVars
<1>7. CASE UNCHANGED vars
  BY <1>7 DEF vars, clientVars, serverVars
<1> QED
  BY <1>1, <1>2, <1>3, <1>4, <1>5, <1>6, <1>7 DEF Next, ClientStep, ServerStep, Calls!Next

\* Whatever the line does to requests, NAKs and answers, a call is performed once at most and
\* while the program waits for it, and the program takes its own answer or an error: the
\* safety of ImplementsCalls (tios_call, dsk_rpc_server and main of serslave.c).
THEOREM CallsAreKept == ASSUME Forgiving PROVE Spec => Calls!Spec
<1>1. Init => Calls!Init
  BY DEF Init, Calls!Init
<1>2. IInv /\ IInv' /\ [Next]_vars => [Calls!Next]_Calls!callVars
  BY NextMaps
<1> QED
  BY <1>1, <1>2, Invariant, PTL DEF Spec, Calls!Spec
===============================================================================
