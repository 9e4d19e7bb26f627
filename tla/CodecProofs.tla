------------------------------ MODULE CodecProofs ------------------------------
(***************************************************************************)
(* What one end encodes the other decodes, for every PDU and every message   *)
(* to the user of the C types: octet by octet through the determinant that   *)
(* is removed and put back, the fields that share octets, the payloads, the  *)
(* header, and the TLVs behind it, whatever else stands behind them.         *)
(*                                                                          *)
(* The positions of the parts of a PDU depend on the lengths of the others.  *)
(* Holds says that a part stands at a position, the lemmas Chain2 to Chain7  *)
(* say where the parts of a concatenation stand, and each codec has a lemma  *)
(* ...Read: where its octets stand, its decoder reads what was encoded.      *)
(***************************************************************************)
EXTENDS TlvCodec, Determinant, DataInduction, SequenceTheorems

-----------------------------------------------------------------------------
(* The determinant that the sender removes and the receiver puts back. *)

\* The two octets hi and lo put in behind the first at octets of s.
Insert(s, at, hi, lo) ==
  SubSeq(s, 1, at) \o <<hi, lo>> \o SubSeq(s, at + 1, Len(s))

\* What is left of s without the two octets behind the first at.
Remove(s, at) == SubSeq(s, 1, at) \o SubSeq(s, at + 3, Len(s))

\* What Decrement, Increment, Insert and Remove return, octet by octet.
IsDecremented(t, s) ==
  /\ t \in Seq(Octet)
  /\ Len(t) = Len(s)
  /\ t[3] = (IF s[3] = 0 THEN 255 ELSE s[3] - 1)
  /\ t[2] = (IF s[3] = 0 THEN (s[2] + 255) % 256 ELSE s[2])
  /\ \A i \in 1 .. Len(s) : i # 2 /\ i # 3 => t[i] = s[i]

IsIncremented(t, s) ==
  /\ t \in Seq(Octet)
  /\ Len(t) = Len(s)
  /\ t[3] = (IF s[3] = 255 THEN 0 ELSE s[3] + 1)
  /\ t[2] = (IF s[3] = 255 THEN (s[2] + 1) % 256 ELSE s[2])
  /\ \A i \in 1 .. Len(s) : i # 2 /\ i # 3 => t[i] = s[i]

IsInserted(t, s, at, hi, lo) ==
  /\ t \in Seq(Octet)
  /\ Len(t) = Len(s) + 2
  /\ \A i \in 1 .. Len(s) + 2 :
       t[i] = IF i <= at THEN s[i]
              ELSE IF i = at + 1 THEN hi
              ELSE IF i = at + 2 THEN lo
              ELSE s[i - 2]

IsRemoved(t, s, at) ==
  /\ t \in Seq(Octet)
  /\ Len(t) = Len(s) - 2
  /\ \A i \in 1 .. Len(s) - 2 : t[i] = IF i <= at THEN s[i] ELSE s[i + 2]

----------------------------------------------------------------------------
(* An octet counted up or down is an octet, wrapped around or not. *)

LEMMA CountedOctet ==
  ASSUME NEW o \in Octet
  PROVE  /\ (o + 255) % 256 \in Octet
         /\ (o + 1) % 256 \in Octet
         /\ o # 0 => o - 1 \in Octet
         /\ o # 255 => o + 1 \in Octet
<1>1. o \in Int /\ 0 <= o /\ o <= 255
  BY DEF Octet
<1>2. \A n \in Nat : n % 256 \in 0 .. 255
  BY SMT
<1>3. o + 255 \in Nat /\ o + 1 \in Nat
  BY <1>1
<1>4. (o + 255) % 256 \in Octet /\ (o + 1) % 256 \in Octet
  BY <1>2, <1>3 DEF Octet
<1>5. (o # 0 => o - 1 \in Octet) /\ (o # 255 => o + 1 \in Octet)
  BY <1>1 DEF Octet
<1> QED BY <1>4, <1>5

(* The elements of what Decrement, Increment, Insert and Remove return. *)

LEMMA DecrementElements ==
  ASSUME NEW s \in Seq(Octet), Len(s) >= 3
  PROVE  IsDecremented(Decrement(s), s)
<1>1. s[2] \in Octet /\ s[3] \in Octet /\ Len(s) \in Nat
  BY ElementOfSeq, LenProperties
<1>2. CASE s[3] = 0
  <2>1. 2 \in 1 .. Len(s) /\ 3 \in 1 .. Len(s)
    BY <1>1
  <2>2. 255 \in Octet /\ (s[2] + 255) % 256 \in Octet
    <3>1. 255 \in Octet
      BY DEF Octet
    <3> QED BY <1>1, <3>1, CountedOctet
  <2> DEFINE t == [s EXCEPT ![3] = 255]
  <2>3. /\ t \in Seq(Octet) /\ Len(t) = Len(s)
        /\ \A j \in 1 .. Len(s) : t[j] = IF j = 3 THEN 255 ELSE s[j]
    BY <2>1, <2>2, ExceptSeq
  <2> DEFINE u == [t EXCEPT ![2] = (s[2] + 255) % 256]
  <2>4. Decrement(s) = u
    BY <1>2, <2>1, <2>3 DEF Decrement
  <2> HIDE DEF t
  <2>5. /\ u \in Seq(Octet) /\ Len(u) = Len(t)
        /\ \A j \in 1 .. Len(t) :
             u[j] = IF j = 2 THEN (s[2] + 255) % 256 ELSE t[j]
    BY <2>1, <2>2, <2>3, ExceptSeq
  <2> HIDE DEF u
  <2> QED BY <1>2, <2>1, <2>3, <2>4, <2>5 DEF IsDecremented
<1>3. CASE s[3] # 0
  <2>1. 3 \in 1 .. Len(s) /\ s[3] - 1 \in Octet
    <3>1. 3 \in 1 .. Len(s)
      BY <1>1
    <3>2. s[3] - 1 \in Octet
      BY <1>1, <1>3, CountedOctet
    <3> QED BY <3>1, <3>2
  <2> DEFINE t == [s EXCEPT ![3] = s[3] - 1]
  <2>2. Decrement(s) = t
    BY <1>3 DEF Decrement
  <2>3. /\ t \in Seq(Octet) /\ Len(t) = Len(s)
        /\ \A j \in 1 .. Len(s) : t[j] = IF j = 3 THEN s[3] - 1 ELSE s[j]
    BY <2>1, ExceptSeq
  <2> HIDE DEF t
  <2> QED BY <1>1, <1>3, <2>1, <2>2, <2>3 DEF IsDecremented
<1> QED BY <1>2, <1>3

LEMMA IncrementElements ==
  ASSUME NEW s \in Seq(Octet), Len(s) >= 3
  PROVE  IsIncremented(Increment(s), s)
<1>1. s[2] \in Octet /\ s[3] \in Octet /\ Len(s) \in Nat
  BY ElementOfSeq, LenProperties
<1>2. CASE s[3] = 255
  <2>1. 2 \in 1 .. Len(s) /\ 3 \in 1 .. Len(s)
    BY <1>1
  <2>2. 0 \in Octet /\ (s[2] + 1) % 256 \in Octet
    <3>1. 0 \in Octet
      BY DEF Octet
    <3> QED BY <1>1, <3>1, CountedOctet
  <2> DEFINE t == [s EXCEPT ![3] = 0]
  <2>3. /\ t \in Seq(Octet) /\ Len(t) = Len(s)
        /\ \A j \in 1 .. Len(s) : t[j] = IF j = 3 THEN 0 ELSE s[j]
    BY <2>1, <2>2, ExceptSeq
  <2> DEFINE u == [t EXCEPT ![2] = (s[2] + 1) % 256]
  <2>4. Increment(s) = u
    BY <1>2, <2>1, <2>3 DEF Increment
  <2> HIDE DEF t
  <2>5. /\ u \in Seq(Octet) /\ Len(u) = Len(t)
        /\ \A j \in 1 .. Len(t) :
             u[j] = IF j = 2 THEN (s[2] + 1) % 256 ELSE t[j]
    BY <2>1, <2>2, <2>3, ExceptSeq
  <2> HIDE DEF u
  <2> QED BY <1>2, <2>1, <2>3, <2>4, <2>5 DEF IsIncremented
<1>3. CASE s[3] # 255
  <2>1. 3 \in 1 .. Len(s) /\ s[3] + 1 \in Octet
    <3>1. 3 \in 1 .. Len(s)
      BY <1>1
    <3>2. s[3] + 1 \in Octet
      BY <1>1, <1>3, CountedOctet
    <3> QED BY <3>1, <3>2
  <2> DEFINE t == [s EXCEPT ![3] = s[3] + 1]
  <2>2. Increment(s) = t
    BY <1>3 DEF Increment
  <2>3. /\ t \in Seq(Octet) /\ Len(t) = Len(s)
        /\ \A j \in 1 .. Len(s) : t[j] = IF j = 3 THEN s[3] + 1 ELSE s[j]
    BY <2>1, ExceptSeq
  <2> HIDE DEF t
  <2> QED BY <1>1, <1>3, <2>1, <2>2, <2>3 DEF IsIncremented
<1> QED BY <1>2, <1>3

LEMMA InsertElements ==
  ASSUME NEW s \in Seq(Octet), NEW at \in 0 .. Len(s),
         NEW hi \in Octet, NEW lo \in Octet
  PROVE  IsInserted(Insert(s, at, hi, lo), s, at, hi, lo)
<1>1. Len(s) \in Nat /\ \A i \in 1 .. Len(s) : s[i] \in Octet
  BY ElementOfSeq, LenProperties
<1> DEFINE head == SubSeq(s, 1, at)
           mid  == <<hi, lo>>
           tail == SubSeq(s, at + 1, Len(s))
<1>2. /\ head \in Seq(Octet) /\ Len(head) = at
      /\ \A i \in 1 .. at : head[i] = s[i]
  <2>1. 1 \in Int /\ at \in Int /\ \A i \in 1 .. at : s[i] \in Octet
    BY <1>1
  <2>2. /\ head \in Seq(Octet)
        /\ Len(head) = IF 1 <= at THEN at - 1 + 1 ELSE 0
        /\ \A i \in 1 .. at - 1 + 1 : head[i] = s[1 + i - 1]
    BY <2>1, SubSeqProperties
  <2> HIDE DEF head
  <2> QED BY <2>1, <2>2, <1>1
<1>3. /\ tail \in Seq(Octet) /\ Len(tail) = Len(s) - at
      /\ \A i \in 1 .. Len(s) - at : tail[i] = s[at + i]
  <2>1. at + 1 \in Int /\ Len(s) \in Int
        /\ \A i \in at + 1 .. Len(s) : s[i] \in Octet
    BY <1>1
  <2>2. /\ tail \in Seq(Octet)
        /\ Len(tail) = IF at + 1 <= Len(s) THEN Len(s) - (at + 1) + 1 ELSE 0
        /\ \A i \in 1 .. Len(s) - (at + 1) + 1 : tail[i] = s[at + 1 + i - 1]
    BY <2>1, SubSeqProperties
  <2> HIDE DEF tail
  <2>3. Len(tail) = Len(s) - at
    BY <2>1, <2>2, <1>1
  <2>4. ASSUME NEW i \in 1 .. Len(s) - at PROVE tail[i] = s[at + i]
    <3>1. i \in 1 .. Len(s) - (at + 1) + 1 /\ at + 1 + i - 1 = at + i
      BY <1>1
    <3> QED BY <2>2, <3>1
  <2> QED BY <2>2, <2>3, <2>4
<1>4. mid \in Seq(Octet) /\ Len(mid) = 2 /\ mid[1] = hi /\ mid[2] = lo
  OBVIOUS
<1>5. Insert(s, at, hi, lo) = head \o mid \o tail
  BY DEF Insert
<1> HIDE DEF head, mid, tail
<1> DEFINE front == head \o mid
<1>6. /\ front \in Seq(Octet) /\ Len(front) = at + 2
      /\ \A i \in 1 .. at + 2 : front[i] = IF i <= at THEN head[i] ELSE mid[i - at]
  <2>1. /\ head \o mid \in Seq(Octet)
        /\ Len(head \o mid) = Len(head) + Len(mid)
        /\ \A i \in 1 .. Len(head) + Len(mid) :
             (head \o mid)[i] = IF i <= Len(head) THEN head[i]
                                ELSE mid[i - Len(head)]
    BY <1>2, <1>4, ConcatProperties
  <2>2. Len(head) = at /\ Len(mid) = 2
    BY <1>2, <1>4
  <2> QED BY <2>1, <2>2
<1> HIDE DEF front
<1>7. /\ front \o tail \in Seq(Octet) /\ Len(front \o tail) = Len(s) + 2
      /\ \A i \in 1 .. Len(s) + 2 :
           (front \o tail)[i] = IF i <= at + 2 THEN front[i] ELSE tail[i - (at + 2)]
  <2>1. /\ front \o tail \in Seq(Octet)
        /\ Len(front \o tail) = Len(front) + Len(tail)
        /\ \A i \in 1 .. Len(front) + Len(tail) :
             (front \o tail)[i] = IF i <= Len(front) THEN front[i]
                                  ELSE tail[i - Len(front)]
    BY <1>3, <1>6, ConcatProperties
  <2>2. Len(front) + Len(tail) = Len(s) + 2
    BY <1>1, <1>3, <1>6
  <2> QED BY <1>6, <2>1, <2>2
<1>8. Insert(s, at, hi, lo) = front \o tail
  BY <1>5 DEF front
<1>9. ASSUME NEW i \in 1 .. Len(s) + 2
      PROVE  (front \o tail)[i] =
                IF i <= at THEN s[i]
                ELSE IF i = at + 1 THEN hi
                ELSE IF i = at + 2 THEN lo
                ELSE s[i - 2]
  <2>1. CASE i <= at
    <3>1. i \in 1 .. at /\ i \in 1 .. at + 2 /\ i <= at + 2
      BY <1>1, <2>1
    <3>2. (front \o tail)[i] = front[i] /\ front[i] = head[i]
      BY <1>6, <1>7, <2>1, <3>1
    <3> QED BY <1>2, <2>1, <3>1, <3>2
  <2>2. CASE i = at + 1 \/ i = at + 2
    <3>1. i \in 1 .. at + 2 /\ ~ (i <= at) /\ i <= at + 2
      BY <1>1, <2>2
    <3>2. (front \o tail)[i] = mid[i - at]
      BY <1>6, <1>7, <3>1
    <3>3. (i = at + 1 => i - at = 1) /\ (i = at + 2 => i - at = 2)
      BY <1>1
    <3> QED BY <1>1, <1>4, <2>2, <3>2, <3>3
  <2>3. CASE i > at + 2
    <3>1. /\ i - (at + 2) \in 1 .. Len(s) - at /\ at + (i - (at + 2)) = i - 2
          /\ ~ (i <= at + 2) /\ ~ (i <= at) /\ i # at + 1 /\ i # at + 2
      BY <1>1, <2>3
    <3>2. (front \o tail)[i] = tail[i - (at + 2)]
      BY <1>7, <3>1
    <3>3. tail[i - (at + 2)] = s[at + (i - (at + 2))]
      BY <1>3, <3>1
    <3> QED BY <3>1, <3>2, <3>3
  <2>4. i <= at \/ i = at + 1 \/ i = at + 2 \/ i > at + 2
    BY <1>1
  <2> QED BY <2>1, <2>2, <2>3, <2>4, Zenon
<1> QED BY <1>7, <1>8, <1>9 DEF IsInserted

LEMMA RemoveElements ==
  ASSUME NEW s \in Seq(Octet), NEW at \in Nat, at + 2 <= Len(s)
  PROVE  IsRemoved(Remove(s, at), s, at)
<1>1. Len(s) \in Nat /\ \A i \in 1 .. Len(s) : s[i] \in Octet
  BY ElementOfSeq, LenProperties
<1> DEFINE head == SubSeq(s, 1, at)
           tail == SubSeq(s, at + 3, Len(s))
<1>2. /\ head \in Seq(Octet) /\ Len(head) = at
      /\ \A i \in 1 .. at : head[i] = s[i]
  <2>1. 1 \in Int /\ at \in Int /\ \A i \in 1 .. at : s[i] \in Octet
    BY <1>1
  <2>2. /\ head \in Seq(Octet)
        /\ Len(head) = IF 1 <= at THEN at - 1 + 1 ELSE 0
        /\ \A i \in 1 .. at - 1 + 1 : head[i] = s[1 + i - 1]
    BY <2>1, SubSeqProperties
  <2> HIDE DEF head
  <2> QED BY <2>1, <2>2, <1>1
<1>3. /\ tail \in Seq(Octet) /\ Len(tail) = Len(s) - at - 2
      /\ \A i \in 1 .. Len(s) - at - 2 : tail[i] = s[at + 2 + i]
  <2>1. at + 3 \in Int /\ Len(s) \in Int
        /\ \A i \in at + 3 .. Len(s) : s[i] \in Octet
    BY <1>1
  <2>2. /\ tail \in Seq(Octet)
        /\ Len(tail) = IF at + 3 <= Len(s) THEN Len(s) - (at + 3) + 1 ELSE 0
        /\ \A i \in 1 .. Len(s) - (at + 3) + 1 : tail[i] = s[at + 3 + i - 1]
    BY <2>1, SubSeqProperties
  <2> HIDE DEF tail
  <2>3. Len(tail) = Len(s) - at - 2
    BY <2>1, <2>2, <1>1
  <2>4. ASSUME NEW i \in 1 .. Len(s) - at - 2 PROVE tail[i] = s[at + 2 + i]
    <3>1. i \in 1 .. Len(s) - (at + 3) + 1 /\ at + 3 + i - 1 = at + 2 + i
      BY <1>1
    <3> QED BY <2>2, <3>1
  <2> QED BY <2>2, <2>3, <2>4
<1>4. Remove(s, at) = head \o tail
  BY DEF Remove
<1> HIDE DEF head, tail
<1>5. /\ head \o tail \in Seq(Octet)
      /\ Len(head \o tail) = Len(head) + Len(tail)
      /\ \A i \in 1 .. Len(head) + Len(tail) :
           (head \o tail)[i] = IF i <= Len(head) THEN head[i] ELSE tail[i - Len(head)]
  BY <1>2, <1>3, ConcatProperties
<1>6. Len(head) + Len(tail) = Len(s) - 2
  BY <1>1, <1>2, <1>3
<1>7. ASSUME NEW i \in 1 .. Len(s) - 2
      PROVE  (head \o tail)[i] = IF i <= at THEN s[i] ELSE s[i + 2]
  <2>1. CASE i <= at
    <3>1. i \in 1 .. at
      BY <1>1, <2>1
    <3>2. (head \o tail)[i] = head[i]
      BY <1>2, <1>5, <1>6, <2>1
    <3> QED BY <1>2, <2>1, <3>1, <3>2
  <2>2. CASE i > at
    <3>1. /\ i - at \in 1 .. Len(s) - at - 2 /\ at + 2 + (i - at) = i + 2
          /\ ~ (i <= at)
      BY <1>1, <2>2
    <3>2. (head \o tail)[i] = tail[i - at]
      BY <1>2, <1>5, <1>6, <3>1
    <3> QED BY <1>3, <3>1, <3>2
  <2>3. i <= at \/ i > at
    BY <1>1
  <2> QED BY <2>1, <2>2, <2>3, Zenon
<1> QED BY <1>4, <1>5, <1>6, <1>7 DEF IsRemoved

----------------------------------------------------------------------------
(* What is put in comes out, and the length field forgets nothing. *)

LEMMA CountedOctetAndBack ==
  /\ \A o \in Octet : (((o + 255) % 256) + 1) % 256 = o
  /\ \A o \in Octet : o # 0 => o - 1 # 255 /\ (o - 1) + 1 = o
<1>1. \A o \in 0 .. 255 : (((o + 255) % 256) + 1) % 256 = o
  BY SMT
<1>2. \A o \in 0 .. 255 : o # 0 => o - 1 # 255 /\ (o - 1) + 1 = o
  BY SMT
<1> QED BY <1>1, <1>2 DEF Octet

\* Counting down and up again leaves every octet as it was.
LEMMA IncrementAfterDecrement ==
  ASSUME NEW s \in Seq(Octet), Len(s) >= 3
  PROVE  Increment(Decrement(s)) = s
<1> DEFINE d == Decrement(s)
           n == Increment(d)
<1>1. s[2] \in Octet /\ s[3] \in Octet /\ Len(s) \in Nat
  BY ElementOfSeq, LenProperties
<1>2. IsDecremented(d, s)
  BY DecrementElements
<1> HIDE DEF d
<1>3. d \in Seq(Octet) /\ Len(d) = Len(s) /\ Len(d) >= 3
  BY <1>2 DEF IsDecremented
<1>4. IsIncremented(n, d)
  BY <1>3, IncrementElements
<1> HIDE DEF n
<1>5. n[3] = s[3] /\ n[2] = s[2]
  <2>1. CASE s[3] = 0
    <3>1. d[3] = 255 /\ d[2] = (s[2] + 255) % 256
      BY <1>2, <2>1 DEF IsDecremented
    <3>2. n[3] = 0 /\ n[2] = (((s[2] + 255) % 256) + 1) % 256
      BY <1>4, <3>1 DEF IsIncremented
    <3> QED BY <1>1, <2>1, <3>2, CountedOctetAndBack
  <2>2. CASE s[3] # 0
    <3>1. d[3] = s[3] - 1 /\ d[2] = s[2]
      BY <1>2, <2>2 DEF IsDecremented
    <3>2. s[3] - 1 # 255 /\ (s[3] - 1) + 1 = s[3]
      BY <1>1, <2>2, CountedOctetAndBack
    <3> QED BY <1>4, <3>1, <3>2 DEF IsIncremented
  <2> QED BY <2>1, <2>2
<1>6. ASSUME NEW i \in 1 .. Len(n) PROVE n[i] = s[i]
  <2>1. i \in 1 .. Len(s) /\ i \in 1 .. Len(d)
    BY <1>3, <1>4 DEF IsIncremented
  <2>2. CASE i # 2 /\ i # 3
    <3>1. n[i] = d[i]
      BY <1>4, <2>1, <2>2 DEF IsIncremented
    <3>2. d[i] = s[i]
      BY <1>2, <2>1, <2>2 DEF IsDecremented
    <3> QED BY <3>1, <3>2
  <2> QED BY <1>5, <2>2
<1>7. n \in Seq(Octet) /\ Len(n) = Len(s)
  BY <1>3, <1>4 DEF IsIncremented
<1>8. n = s
  BY <1>6, <1>7, SeqEqual
<1> QED BY <1>8 DEF d, n

\* The length field lies before the determinant, so it may be corrected
\* first or last.
LEMMA DecrementBeforeInsert ==
  ASSUME NEW s \in Seq(Octet), NEW at \in 3 .. Len(s),
         NEW hi \in Octet, NEW lo \in Octet
  PROVE  Insert(Decrement(s), at, hi, lo) = Decrement(Insert(s, at, hi, lo))
<1> DEFINE d == Decrement(s)
           n == Insert(s, at, hi, lo)
           l == Insert(d, at, hi, lo)
           r == Decrement(n)
<1>1. Len(s) \in Nat /\ at \in 0 .. Len(s) /\ Len(s) >= 3
  BY LenProperties
<1>2. IsDecremented(d, s)
  BY <1>1, DecrementElements
<1>3. IsInserted(n, s, at, hi, lo)
  BY <1>1, InsertElements
<1> HIDE DEF d
<1>4. d \in Seq(Octet) /\ Len(d) = Len(s)
  BY <1>2 DEF IsDecremented
<1>5. IsInserted(l, d, at, hi, lo)
  <2>1. at \in 0 .. Len(d)
    BY <1>1, <1>4
  <2> QED BY <1>4, <2>1, InsertElements
<1> HIDE DEF n, l
<1>6. n \in Seq(Octet) /\ Len(n) = Len(s) + 2
  BY <1>3 DEF IsInserted
<1>7. l \in Seq(Octet) /\ Len(l) = Len(s) + 2
  BY <1>4, <1>5 DEF IsInserted
<1>8. IsDecremented(r, n)
  <2>1. Len(n) >= 3
    BY <1>1, <1>6
  <2> QED BY <1>6, <2>1, DecrementElements
<1> HIDE DEF r
<1>9. r \in Seq(Octet) /\ Len(r) = Len(s) + 2
  BY <1>6, <1>8 DEF IsDecremented
<1>10. n[2] = s[2] /\ n[3] = s[3] /\ l[2] = d[2] /\ l[3] = d[3]
  <2>1. /\ 2 \in 1 .. Len(s) + 2 /\ 3 \in 1 .. Len(s) + 2
        /\ 2 <= at /\ 3 <= at
    BY <1>1
  <2>2. n[2] = s[2] /\ n[3] = s[3]
    BY <1>3, <2>1 DEF IsInserted
  <2>3. l[2] = d[2] /\ l[3] = d[3]
    BY <1>4, <1>5, <2>1 DEF IsInserted
  <2> QED BY <2>2, <2>3
<1>11. l[2] = r[2] /\ l[3] = r[3]
  <2>1. /\ r[3] = (IF s[3] = 0 THEN 255 ELSE s[3] - 1)
        /\ r[2] = (IF s[3] = 0 THEN (s[2] + 255) % 256 ELSE s[2])
    BY <1>8, <1>10 DEF IsDecremented
  <2>2. /\ d[3] = (IF s[3] = 0 THEN 255 ELSE s[3] - 1)
        /\ d[2] = (IF s[3] = 0 THEN (s[2] + 255) % 256 ELSE s[2])
    BY <1>2 DEF IsDecremented
  <2> QED BY <1>10, <2>1, <2>2, ZenonT(60)
<1>12. ASSUME NEW i \in 1 .. Len(s) + 2, i # 2, i # 3 PROVE l[i] = r[i]
  <2>1. r[i] = n[i]
    BY <1>6, <1>8, <1>12 DEF IsDecremented
  <2>2. CASE i <= at
    <3>1. i \in 1 .. Len(s)
      BY <1>1, <2>2
    <3>2. n[i] = s[i]
      BY <1>3, <2>2 DEF IsInserted
    <3>3. l[i] = d[i]
      BY <1>4, <1>5, <2>2 DEF IsInserted
    <3>4. d[i] = s[i]
      BY <1>2, <1>12, <3>1 DEF IsDecremented
    <3> QED BY <2>1, <3>2, <3>3, <3>4
  <2>3. CASE i = at + 1 \/ i = at + 2
    <3>1. ~ (i <= at) /\ at + 1 # at + 2
      BY <1>1, <2>3
    <3>2. n[i] = IF i = at + 1 THEN hi ELSE lo
      BY <1>3, <2>3, <3>1 DEF IsInserted
    <3>3. l[i] = IF i = at + 1 THEN hi ELSE lo
      BY <1>4, <1>5, <2>3, <3>1 DEF IsInserted
    <3> QED BY <2>1, <3>2, <3>3
  <2>4. CASE i > at + 2
    <3>1. /\ i - 2 \in 1 .. Len(s) /\ i - 2 # 2 /\ i - 2 # 3
          /\ ~ (i <= at) /\ i # at + 1 /\ i # at + 2
      BY <1>1, <2>4
    <3>2. d[i - 2] = s[i - 2]
      BY <1>2, <3>1 DEF IsDecremented
    <3>3. n[i] = s[i - 2]
      BY <1>3, <3>1 DEF IsInserted
    <3>4. l[i] = d[i - 2]
      BY <1>4, <1>5, <3>1 DEF IsInserted
    <3> QED BY <2>1, <3>2, <3>3, <3>4
  <2>5. i <= at \/ i = at + 1 \/ i = at + 2 \/ i > at + 2
    BY <1>1
  <2> QED BY <2>2, <2>3, <2>4, <2>5
<1>13. \A i \in 1 .. Len(l) : l[i] = r[i]
  BY <1>7, <1>11, <1>12
<1>14. l = r
  BY <1>7, <1>9, <1>13, SeqEqual
<1> QED BY <1>14 DEF d, n, l, r

\* Two octets taken out and put back.
LEMMA InsertAfterRemove ==
  ASSUME NEW s \in Seq(Octet), NEW at \in Nat, at + 2 <= Len(s)
  PROVE  Insert(Remove(s, at), at, s[at + 1], s[at + 2]) = s
<1> DEFINE d  == Remove(s, at)
           hi == s[at + 1]
           lo == s[at + 2]
           n  == Insert(d, at, hi, lo)
<1>1. Len(s) \in Nat /\ hi \in Octet /\ lo \in Octet
  <2>1. Len(s) \in Nat
    BY LenProperties
  <2>2. at + 1 \in 1 .. Len(s) /\ at + 2 \in 1 .. Len(s)
    BY <2>1
  <2> QED BY <2>1, <2>2, ElementOfSeq
<1>2. IsRemoved(d, s, at)
  BY RemoveElements
<1> HIDE DEF d
<1>3. d \in Seq(Octet) /\ Len(d) = Len(s) - 2
  BY <1>2 DEF IsRemoved
<1>4. IsInserted(n, d, at, hi, lo)
  <2>1. at \in 0 .. Len(d)
    BY <1>1, <1>3
  <2> HIDE DEF hi, lo
  <2> QED BY <1>1, <1>3, <2>1, InsertElements
<1>5. n \in Seq(Octet) /\ Len(n) = Len(s)
  <2> HIDE DEF n
  <2>1. n \in Seq(Octet) /\ Len(n) = Len(d) + 2
    BY <1>4 DEF IsInserted
  <2> QED BY <1>1, <1>3, <2>1
<1> HIDE DEF n
<1>6. ASSUME NEW i \in 1 .. Len(s) PROVE n[i] = s[i]
  <2>1. i \in 1 .. Len(d) + 2
    BY <1>1, <1>3
  <2>2. CASE i <= at
    <3>1. i \in 1 .. Len(s) - 2
      BY <1>1, <2>2
    <3>2. n[i] = d[i]
      BY <1>4, <2>1, <2>2 DEF IsInserted
    <3>3. d[i] = s[i]
      BY <1>2, <2>2, <3>1 DEF IsRemoved
    <3> QED BY <3>2, <3>3
  <2>3. CASE i = at + 1
    <3>1. ~ (i <= at)
      BY <2>3
    <3>2. n[i] = hi
      BY <1>4, <2>1, <2>3, <3>1 DEF IsInserted
    <3> QED BY <2>3, <3>2
  <2>4. CASE i = at + 2
    <3>1. ~ (i <= at) /\ i # at + 1
      BY <2>4
    <3>2. n[i] = lo
      BY <1>4, <2>1, <2>4, <3>1 DEF IsInserted
    <3> QED BY <2>4, <3>2
  <2>5. CASE i > at + 2
    <3>1. /\ i - 2 \in 1 .. Len(s) - 2 /\ ~ (i - 2 <= at) /\ (i - 2) + 2 = i
          /\ ~ (i <= at) /\ i # at + 1 /\ i # at + 2
      BY <1>1, <2>5
    <3>2. n[i] = d[i - 2]
      BY <1>4, <2>1, <3>1 DEF IsInserted
    <3>3. d[i - 2] = s[(i - 2) + 2]
      BY <1>2, <3>1 DEF IsRemoved
    <3> QED BY <3>1, <3>2, <3>3
  <2>6. i <= at \/ i = at + 1 \/ i = at + 2 \/ i > at + 2
    BY <1>1
  <2> QED BY <2>2, <2>3, <2>4, <2>5, <2>6
<1>7. n = s
  BY <1>5, <1>6, SeqEqual
<1> QED BY <1>7 DEF d, n

----------------------------------------------------------------------------
(* The two theorems. *)

\* Ten octets and the identifiers stand before the determinant at least.
LEMMA HeaderSize ==
  ASSUME NEW e \in Seq(Octet), Len(e) >= 4
  PROVE  /\ header_with_segment_offset_size(e) \in Nat
         /\ header_with_segment_offset_size(e) >= 11
<1>1. \A o \in 0 .. 255 :
        /\ 8 + (2 * (((o \div 16) % 8) + 1)) + (o % 8) + 1 \in Nat
        /\ 8 + (2 * (((o \div 16) % 8) + 1)) + (o % 8) + 1 >= 11
  BY SMT
<1>2. e[4] \in 0 .. 255
  <2>1. 4 \in 1 .. Len(e)
    BY LenProperties
  <2> QED BY <2>1, ElementOfSeq DEF Octet
<1> QED BY <1>1, <1>2 DEF header_with_segment_offset_size

\* The octets Remove and RemoveDeterminant keep are the same.
LEMMA RemoveDeterminantAt ==
  ASSUME NEW e \in Seq(Octet), NEW n \in Nat, NEW at \in Nat,
         Len(e) = at + 2 + n
  PROVE  RemoveDeterminant(e, n) = Decrement(Decrement(Remove(e, at)))
<1>1. /\ (Len(e) - n - 1) - 1 = at
      /\ (Len(e) - n - 1) + 2 = at + 3
  OBVIOUS
<1> QED BY <1>1 DEF RemoveDeterminant, Remove

\* For every File Data PDU the encoder can write, whatever the lengths of its
\* identifiers and its segment: the receiver decodes the octets the sender's
\* encoder wrote, though the link carried neither determinant nor its length.
THEOREM DeterminantRoundTrip ==
  ASSUME NEW e \in Seq(Octet), NEW n \in Nat, Len(e) >= 4, HoldsDeterminant(e, n)
  PROVE  AddDeterminant(RemoveDeterminant(e, n)) = e
<1> DEFINE at == header_with_segment_offset_size(e)
           hi == (n \div 256) % 256
           lo == n % 256
           d  == Remove(e, at)
           d1 == Decrement(d)
           r  == Decrement(d1)
<1>1. at \in Nat /\ at >= 11
  BY HeaderSize
<1>2. /\ IsFileData(e) /\ Len(e) = at + 2 + n
      /\ e[at + 1] = hi /\ e[at + 2] = lo
  BY DEF HoldsDeterminant, determinant_size
<1>3. hi \in Octet /\ lo \in Octet
  <2>1. Len(e) \in Nat
    BY LenProperties
  <2>2. at + 1 \in 1 .. Len(e) /\ at + 2 \in 1 .. Len(e)
    BY <1>1, <1>2, <2>1
  <2> QED BY <1>2, <2>2, ElementOfSeq
<1>4. RemoveDeterminant(e, n) = r
  BY <1>1, <1>2, RemoveDeterminantAt
<1> HIDE DEF at, hi, lo
<1>5. IsRemoved(d, e, at)
  <2>1. at + 2 <= Len(e)
    BY <1>1, <1>2
  <2> QED BY <1>1, <2>1, RemoveElements
<1>6. Insert(d, at, hi, lo) = e
  <2>1. at + 2 <= Len(e)
    BY <1>1, <1>2
  <2>2. Insert(Remove(e, at), at, e[at + 1], e[at + 2]) = e
    BY <1>1, <2>1, InsertAfterRemove
  <2> QED BY <1>2, <2>2
<1> HIDE DEF d
<1>7. d \in Seq(Octet) /\ Len(d) = at + n
  BY <1>1, <1>2, <1>5 DEF IsRemoved
<1>8. IsDecremented(d1, d)
  BY <1>1, <1>7, DecrementElements
<1>9. Insert(d1, at, hi, lo) = Decrement(e)
  <2>1. at \in 3 .. Len(d)
    BY <1>1, <1>7
  <2> QED BY <1>3, <1>6, <1>7, <2>1, DecrementBeforeInsert
<1> HIDE DEF d1
<1>10. d1 \in Seq(Octet) /\ Len(d1) = at + n
  BY <1>7, <1>8 DEF IsDecremented
<1>11. IsDecremented(r, d1)
  BY <1>1, <1>10, DecrementElements
<1>12. Insert(r, at, hi, lo) = Decrement(Decrement(e))
  <2>1. at \in 3 .. Len(d1)
    BY <1>1, <1>10
  <2> QED BY <1>3, <1>9, <1>10, <2>1, DecrementBeforeInsert
<1> HIDE DEF r
<1>13. r \in Seq(Octet) /\ Len(r) = at + n
  BY <1>10, <1>11 DEF IsDecremented
<1>14. r[1] = e[1] /\ r[4] = e[4]
  <2>1. 1 \in 1 .. Len(d) /\ 4 \in 1 .. Len(d)
    BY <1>1, <1>7
  <2>2. d[1] = e[1] /\ d[4] = e[4]
    <3>1. 1 \in 1 .. Len(e) - 2 /\ 4 \in 1 .. Len(e) - 2 /\ 1 <= at /\ 4 <= at
      BY <1>1, <1>2
    <3> QED BY <1>5, <3>1 DEF IsRemoved
  <2>3. d1[1] = d[1] /\ d1[4] = d[4]
    BY <1>8, <2>1 DEF IsDecremented
  <2>4. r[1] = d1[1] /\ r[4] = d1[4]
    BY <1>7, <1>10, <1>11, <2>1 DEF IsDecremented
  <2> QED BY <2>2, <2>3, <2>4
<1>15. IsFileData(r) /\ header_with_segment_offset_size(r) = at
  BY <1>2, <1>14 DEF IsFileData, header_with_segment_offset_size, at
<1>16. Len(r) - at = n
  BY <1>1, <1>13
<1>17. AddDeterminant(r) = Increment(Increment(Insert(r, at, hi, lo)))
  BY <1>15, <1>16 DEF AddDeterminant, Insert, hi, lo
<1>18. Increment(Increment(Decrement(Decrement(e)))) = e
  <2>1. Len(e) >= 3
    BY <1>1, <1>2
  <2>2. IsDecremented(Decrement(e), e)
    BY <2>1, DecrementElements
  <2>3. Decrement(e) \in Seq(Octet) /\ Len(Decrement(e)) >= 3
    BY <2>1, <2>2 DEF IsDecremented
  <2>4. Increment(Decrement(Decrement(e))) = Decrement(e)
    BY <2>3, IncrementAfterDecrement
  <2> QED BY <2>1, <2>4, IncrementAfterDecrement
<1> QED BY <1>4, <1>12, <1>17, <1>18

LEMMA LowerOctetCounts ==
  ASSUME NEW upper \in 0 .. 255, NEW lower \in 0 .. 255
  PROVE  256 * upper + (lower - 1) = (256 * upper + lower) - 1
OBVIOUS

\* A length field that is not zero counts one less, across the octets too.
LEMMA DecrementCounts ==
  ASSUME NEW s \in Seq(Octet), Len(s) >= 3, pdu_data_field_length(s) >= 1
  PROVE  pdu_data_field_length(Decrement(s)) = pdu_data_field_length(s) - 1
<1>1. s[2] \in 0 .. 255 /\ s[3] \in 0 .. 255
  <2>1. 2 \in 1 .. Len(s) /\ 3 \in 1 .. Len(s)
    BY LenProperties
  <2> QED BY <2>1, ElementOfSeq DEF Octet
<1>2. IsDecremented(Decrement(s), s)
  BY DecrementElements
<1>3. 256 * s[2] + s[3] >= 1
  BY DEF pdu_data_field_length
<1>4. CASE s[3] = 0
  <2>1. \A u \in 0 .. 255 :
          256 * u + 0 >= 1 => 256 * ((u + 255) % 256) + 255 = (256 * u + 0) - 1
    BY SMT
  <2>2. Decrement(s)[3] = 255 /\ Decrement(s)[2] = (s[2] + 255) % 256
    BY <1>2, <1>4 DEF IsDecremented
  <2>3. 256 * ((s[2] + 255) % 256) + 255 = (256 * s[2] + 0) - 1
    BY <1>1, <1>3, <1>4, <2>1, ZenonT(60)
  <2> QED BY <1>4, <2>2, <2>3 DEF pdu_data_field_length
<1>5. CASE s[3] # 0
  <2>1. PICK upper \in 0 .. 255, lower \in 0 .. 255 : s[2] = upper /\ s[3] = lower
    BY <1>1
  <2>2. Decrement(s)[3] = lower - 1 /\ Decrement(s)[2] = upper
    BY <1>2, <1>5, <2>1 DEF IsDecremented
  <2>3. pdu_data_field_length(Decrement(s)) = 256 * upper + (lower - 1)
    BY <2>2 DEF pdu_data_field_length
  <2>4. pdu_data_field_length(s) = 256 * upper + lower
    BY <2>1 DEF pdu_data_field_length
  <2> QED BY <2>3, <2>4, LowerOctetCounts
<1> QED BY <1>4, <1>5

\* The header of what the sender transmits counts the two octets of the
\* determinant no longer, whether or not that takes a borrow from the upper octet.
THEOREM TransmittedLength ==
  ASSUME NEW e \in Seq(Octet), NEW n \in Nat, Len(e) >= 4, HoldsDeterminant(e, n),
         pdu_data_field_length(e) >= 2
  PROVE  pdu_data_field_length(RemoveDeterminant(e, n)) = pdu_data_field_length(e) - 2
<1> DEFINE at == header_with_segment_offset_size(e)
           d  == Remove(e, at)
           d1 == Decrement(d)
<1>1. at \in Nat /\ at >= 11 /\ Len(e) = at + 2 + n
  BY HeaderSize DEF HoldsDeterminant, determinant_size
<1> HIDE DEF at
<1>2. RemoveDeterminant(e, n) = Decrement(d1)
  BY <1>1, RemoveDeterminantAt
<1>3. IsRemoved(d, e, at)
  BY <1>1, RemoveElements
<1> HIDE DEF d
<1>4. d \in Seq(Octet) /\ Len(d) = at + n /\ Len(d) >= 3
  BY <1>1, <1>3 DEF IsRemoved
<1>5. pdu_data_field_length(d) = pdu_data_field_length(e)
  <2>1. 2 \in 1 .. Len(e) - 2 /\ 3 \in 1 .. Len(e) - 2 /\ 2 <= at /\ 3 <= at
    BY <1>1
  <2>2. d[2] = e[2] /\ d[3] = e[3]
    BY <1>3, <2>1 DEF IsRemoved
  <2> QED BY <2>2 DEF pdu_data_field_length
<1>6. pdu_data_field_length(e) \in Nat
  <2>1. 2 \in 1 .. Len(e) /\ 3 \in 1 .. Len(e)
    BY <1>1
  <2>2. e[2] \in 0 .. 255 /\ e[3] \in 0 .. 255
    BY <2>1, ElementOfSeq DEF Octet
  <2>3. \A u, l \in 0 .. 255 : 256 * u + l \in Nat
    BY SMT
  <2> QED BY <2>2, <2>3 DEF pdu_data_field_length
<1>7. pdu_data_field_length(d1) = pdu_data_field_length(d) - 1
  BY <1>4, <1>5, <1>6, DecrementCounts
<1>8. d1 \in Seq(Octet) /\ Len(d1) >= 3
  <2>1. IsDecremented(d1, d)
    BY <1>4, DecrementElements
  <2> HIDE DEF d1
  <2> QED BY <1>4, <2>1 DEF IsDecremented
<1> HIDE DEF d1
<1>9. pdu_data_field_length(Decrement(d1)) = pdu_data_field_length(d1) - 1
  BY <1>5, <1>6, <1>7, <1>8, DecrementCounts
<1> QED BY <1>2, <1>5, <1>6, <1>7, <1>9

-----------------------------------------------------------------------------
(* Powers of 256 and of 2, as functions: the provers know ground powers only. *)

IsPowers(pw) ==
  /\ pw \in [0 .. 4 -> Nat \ {0}] /\ pw[0] = 1
  /\ \A k \in 0 .. 4 : 256^k = pw[k]
  /\ \A k \in 1 .. 4 : pw[k] = 256 * pw[k - 1]

LEMMA Powers == \E pw : IsPowers(pw)
<1>1. /\ 256^0 = 1 /\ 256^1 = 256 * 256^0 /\ 256^2 = 256 * 256^1 /\ 256^3 = 256 * 256^2
      /\ 256^4 = 256 * 256^3
  BY SMT
<1>2. \A k \in 0 .. 4 : k = 0 \/ k = 1 \/ k = 2 \/ k = 3 \/ k = 4
  BY SMT
<1>3. /\ 256^0 \in Nat \ {0} /\ 256^1 \in Nat \ {0} /\ 256^2 \in Nat \ {0}
      /\ 256^3 \in Nat \ {0} /\ 256^4 \in Nat \ {0}
  BY SMT
<1>4. PICK p0 \in Nat \ {0}, p1 \in Nat \ {0}, p2 \in Nat \ {0}, p3 \in Nat \ {0}, p4 \in Nat \ {0} :
        p0 = 256^0 /\ p1 = 256^1 /\ p2 = 256^2 /\ p3 = 256^3 /\ p4 = 256^4
  BY <1>3, ZenonT(60)
<1>5. p0 = 1 /\ p1 = 256 * p0 /\ p2 = 256 * p1 /\ p3 = 256 * p2 /\ p4 = 256 * p3
  BY <1>1, <1>4, Zenon
<1> DEFINE pw == [k \in 0 .. 4 |-> IF k = 0 THEN p0 ELSE IF k = 1 THEN p1
                                   ELSE IF k = 2 THEN p2 ELSE IF k = 3 THEN p3 ELSE p4]
<1>6. pw[0] = p0 /\ pw[1] = p1 /\ pw[2] = p2 /\ pw[3] = p3 /\ pw[4] = p4
  OBVIOUS
<1>7. pw \in [0 .. 4 -> Nat \ {0}]
  OBVIOUS
<1> HIDE DEF pw
<1>8. \A k \in 0 .. 4 : 256^k = pw[k]
  <2> SUFFICES ASSUME NEW k \in 0 .. 4
               PROVE  256^k = pw[k]
    OBVIOUS
  <2>1. CASE k = 0
    BY <1>4, <1>6, <2>1, ZenonT(60)
  <2>2. CASE k = 1
    BY <1>4, <1>6, <2>2, Zenon
  <2>3. CASE k = 2
    BY <1>4, <1>6, <2>3, Zenon
  <2>4. CASE k = 3
    BY <1>4, <1>6, <2>4, Zenon
  <2>5. CASE k = 4
    BY <1>4, <1>6, <2>5, Zenon
  <2> QED  BY <1>2, <2>1, <2>2, <2>3, <2>4, <2>5
<1>9. \A k \in 1 .. 4 : pw[k] = 256 * pw[k - 1]
  BY <1>5, <1>6
<1> QED
  BY <1>5, <1>6, <1>7, <1>8, <1>9 DEF IsPowers

\* Dividing on by 256, and putting the octet that was cut off back in.
LEMMA OctetCutOff ==
  ASSUME NEW v \in Nat, NEW p \in Nat \ {0}
  PROVE  /\ v \div p \in Nat
         /\ 256 * (v \div (256 * p)) + ((v \div p) % 256) = v \div p
<1>1. (v \div p) \div 256 = v \div (256 * p)
  BY SMT
<1>2. v \div p \in Nat
  BY SMT
<1>3. \A n \in Nat : 256 * (n \div 256) + (n % 256) = n
  BY SMT
<1> QED
  BY <1>1, <1>2, <1>3

-----------------------------------------------------------------------------
(* Sequences of octets and the numbers they stand for. *)

\* f holds the numbers that the first octets of s stand for.
IsUnsigned(f, s) ==
  /\ f \in [0 .. Len(s) -> Nat] /\ f[0] = 0
  /\ \A i \in 1 .. Len(s) : f[i] = 256 * f[i - 1] + s[i]

LEMMA UnsignedOctets ==
  ASSUME NEW s \in Seq(Octet)
  PROVE  \E f : IsUnsigned(f, s) /\ Unsigned(s) = f[Len(s)]
<1>1. PICK n \in Nat : n = Len(s)
  OBVIOUS
<1>2. PICK c \in [1 .. n -> Nat] : \A i \in 1 .. n : c[i] = s[i]
  <2>1. Octet \subseteq Nat
    BY DEF Octet
  <2>2. \A i \in 1 .. n : s[i] \in Octet
    BY <1>1
  <2>3. [i \in 1 .. n |-> s[i]] \in [1 .. n -> Nat]
    BY <2>1, <2>2
  <2> QED  BY <2>3
<1> DEFINE step == [y \in Nat \X (1 .. n) |-> 256 * y[1] + c[y[2]]]
<1>3. step \in Steps(Nat, n)
  BY DEF Steps
<1>4. \A x \in Nat, i \in 1 .. n : step[<<x, i>>] = 256 * x + s[i]
  BY <1>2
<1> HIDE DEF step
<1>5. PICK g : Iterates(g, n, Nat, 0, step)
  BY <1>3, Recursion
<1>6. /\ g \in [0 .. n -> Nat] /\ g[0] = 0
      /\ \A i \in 1 .. n : g[i] = step[<<g[i - 1], i>>]
  BY <1>5 DEF Iterates
<1>7. \A i \in 1 .. n : g[i] = 256 * g[i - 1] + s[i]
  <2> SUFFICES ASSUME NEW i \in 1 .. n
               PROVE  g[i] = 256 * g[i - 1] + s[i]
    OBVIOUS
  <2>1. g[i - 1] \in Nat
    BY <1>6
  <2> QED  BY <1>4, <1>6, <2>1, ZenonT(60)
<1>8. \E h : h = [i \in 0 .. n |-> IF i = 0 THEN 0 ELSE 256 * h[i - 1] + s[i]]
  <2>1. g = [i \in 0 .. n |-> IF i = 0 THEN 0 ELSE 256 * g[i - 1] + s[i]]
    BY <1>6, <1>7
  <2> QED  BY <2>1
<1> DEFINE first[i \in 0 .. Len(s)] == IF i = 0 THEN 0 ELSE 256 * first[i-1] + s[i]
<1>9. Unsigned(s) = first[n]
  BY <1>1 DEF Unsigned
<1>10. first = [i \in 0 .. n |-> IF i = 0 THEN 0 ELSE 256 * first[i - 1] + s[i]]
  <2>1. first = CHOOSE h : h = [i \in 0 .. n |-> IF i = 0 THEN 0 ELSE 256 * h[i - 1] + s[i]]
    BY <1>1
  <2> HIDE DEF first
  <2> QED  BY <1>8, <2>1, Zenon
<1> HIDE DEF first
<1>11. first[0] = 0 /\ \A i \in 1 .. n : first[i] = 256 * first[i - 1] + s[i]
  BY <1>10
<1>12. \A i \in 0 .. n : first[i] = g[i]
  <2> DEFINE S == {i \in 0 .. n : first[i] = g[i]}
  <2>1. 0 \in S
    BY <1>6, <1>11
  <2>2. \A i \in 1 .. n : i - 1 \in S => i \in S
    BY <1>7, <1>11
  <2> HIDE DEF S
  <2>3. 0 .. n \subseteq S
    BY <2>1, <2>2, InductionUpTo
  <2> QED  BY <2>3 DEF S
<1>13. Unsigned(s) = g[n]
  BY <1>9, <1>12
<1>14. IsUnsigned(g, s)
  BY <1>1, <1>6, <1>7 DEF IsUnsigned
<1> QED
  BY <1>1, <1>13, <1>14

LEMMA BigEndianOctets ==
  ASSUME NEW v \in Nat, NEW n \in 0 .. 4
  PROVE  /\ BigEndian(v, n) \in Seq(Octet) /\ Len(BigEndian(v, n)) = n
         /\ \A pw : IsPowers(pw) =>
              \A i \in 1 .. n : BigEndian(v, n)[i] = (v \div pw[n - i]) % 256
<1>1. PICK pw : IsPowers(pw)
  BY Powers
<1>2. \A q : IsPowers(q) => \A i \in 1 .. n : (v \div 256^(n - i)) % 256 = (v \div q[n - i]) % 256
  <2> SUFFICES ASSUME NEW q, IsPowers(q), NEW i \in 1 .. n
               PROVE  256^(n - i) = q[n - i]
    OBVIOUS
  <2>1. n - i \in 0 .. 4
    OBVIOUS
  <2> QED  BY <2>1 DEF IsPowers
<1>3. \A i \in 1 .. n : (v \div pw[n - i]) % 256 \in Octet
  <2> SUFFICES ASSUME NEW i \in 1 .. n
               PROVE  (v \div pw[n - i]) % 256 \in Octet
    OBVIOUS
  <2>1. n - i \in 0 .. 4
    OBVIOUS
  <2>2. pw[n - i] \in Nat \ {0}
    BY <1>1, <2>1 DEF IsPowers
  <2>3. PICK x \in Nat : x = v \div pw[n - i]
    BY <2>2, OctetCutOff
  <2>4. x % 256 \in 0 .. 255
    OBVIOUS
  <2> QED  BY <2>3, <2>4 DEF Octet
<1>4. \A i \in 1 .. n : (v \div 256^(n - i)) % 256 \in Octet
  BY <1>1, <1>2, <1>3
<1>5. BigEndian(v, n) = [i \in 1 .. n |-> (v \div 256^(n - i)) % 256]
  BY DEF BigEndian
<1>6. BigEndian(v, n) \in [1 .. n -> Octet]
  BY <1>4, <1>5, ZenonT(60)
<1>7. \A i \in 1 .. n : BigEndian(v, n)[i] = (v \div 256^(n - i)) % 256
  BY <1>5, Zenon
<1> HIDE DEF BigEndian
<1>8. BigEndian(v, n) \in Seq(Octet) /\ Len(BigEndian(v, n)) = n
  <2>1. n \in Nat
    OBVIOUS
  <2>2. \A b \in [1 .. n -> Octet] : b \in Seq(Octet) /\ Len(b) = n
    BY <2>1
  <2> QED  BY <1>6, <2>2, Zenon
<1>9. ASSUME NEW q, IsPowers(q), NEW i \in 1 .. n
      PROVE  BigEndian(v, n)[i] = (v \div q[n - i]) % 256
  <2>1. BigEndian(v, n)[i] = (v \div 256^(n - i)) % 256
    BY <1>7, Zenon
  <2>2. (v \div 256^(n - i)) % 256 = (v \div q[n - i]) % 256
    BY <1>2, <1>9, ZenonT(60)
  <2> QED  BY <2>1, <2>2, Zenon
<1> QED
  BY <1>8, <1>9, Zenon

\* A number that fits comes out of its octets as it went in.
LEMMA NumberRead ==
  ASSUME NEW v \in Nat, NEW n \in 0 .. 4, NEW pw, IsPowers(pw), v < pw[n]
  PROVE  Unsigned(BigEndian(v, n)) = v
<1> DEFINE s == BigEndian(v, n)
<1>1. /\ s \in Seq(Octet) /\ Len(s) = n
      /\ \A i \in 1 .. n : s[i] = (v \div pw[n - i]) % 256
  <2>1. s \in Seq(Octet) /\ Len(s) = n
    BY BigEndianOctets
  <2>2. \A i \in 1 .. n : s[i] = (v \div pw[n - i]) % 256
    <3> HIDE DEF s
    <3>1. \A q : IsPowers(q) => \A i \in 1 .. n : s[i] = (v \div q[n - i]) % 256
      BY BigEndianOctets, ZenonT(60) DEF s
    <3> QED  BY <3>1, Zenon
  <2> QED  BY <2>1, <2>2
<1> HIDE DEF s
<1>2. PICK f : IsUnsigned(f, s) /\ Unsigned(s) = f[n]
  BY <1>1, UnsignedOctets
<1>3. /\ f \in [0 .. n -> Nat] /\ f[0] = 0
      /\ \A i \in 1 .. n : f[i] = 256 * f[i - 1] + s[i]
  BY <1>1, <1>2 DEF IsUnsigned
<1> DEFINE S == {i \in 0 .. n : f[i] = v \div pw[n - i]}
<1>4. 0 \in S
  <2>1. pw[n] \in Nat \ {0}
    BY DEF IsPowers
  <2>2. v \div pw[n] = 0
    BY <2>1
  <2>3. n - 0 = n
    OBVIOUS
  <2> QED  BY <1>3, <2>2, <2>3
<1>5. \A i \in 1 .. n : i - 1 \in S => i \in S
  <2> SUFFICES ASSUME NEW i \in 1 .. n, i - 1 \in S
               PROVE  f[i] = v \div pw[n - i]
    OBVIOUS
  <2>1. n - i \in 0 .. 3 /\ n - (i - 1) \in 1 .. 4 /\ (n - (i - 1)) - 1 = n - i
    OBVIOUS
  <2>2. PICK p \in Nat \ {0} : p = pw[n - i] /\ pw[n - (i - 1)] = 256 * p
    BY <2>1 DEF IsPowers
  <2>3. f[i - 1] = v \div (256 * p)
    BY <2>2
  <2>4. s[i] = (v \div p) % 256
    BY <1>1, <2>2
  <2>5. f[i] = 256 * (v \div (256 * p)) + ((v \div p) % 256)
    <3>1. f[i] = 256 * f[i - 1] + s[i]
      BY <1>3
    <3> QED  BY <2>3, <2>4, <3>1, Zenon
  <2>6. 256 * (v \div (256 * p)) + ((v \div p) % 256) = v \div p
    BY OctetCutOff, ZenonT(60)
  <2> QED  BY <2>2, <2>5, <2>6, Zenon
<1>6. n \in S
  <2> HIDE DEF S
  <2>1. 0 .. n \subseteq S
    BY <1>4, <1>5, InductionUpTo
  <2> QED  BY <2>1
<1>7. f[n] = v
  <2>1. f[n] = v \div pw[n - n]
    BY <1>6
  <2>2. n - n = 0 /\ pw[0] = 1
    BY DEF IsPowers
  <2>3. v \div 1 = v
    OBVIOUS
  <2> QED  BY <2>1, <2>2, <2>3
<1> QED
  BY <1>2, <1>7 DEF s

\* An identifier of 32 bits has up to four octets, and comes out of them again.
LEMMA IdentifierRead ==
  ASSUME NEW v \in Nat, v < 256^4
  PROVE  /\ uint64_to_bytes_big_endian(v) \in Seq(Octet)
         /\ Len(uint64_to_bytes_big_endian(v)) \in 0 .. 4
         /\ Unsigned(uint64_to_bytes_big_endian(v)) = v
<1>1. PICK pw : IsPowers(pw)
  BY Powers
<1> DEFINE Right(size) == v < 256^size /\ \A less \in 0 .. size - 1 : v >= 256^less
           size == CHOOSE s \in 0 .. 8 : Right(s)
<1>2. \E s \in 0 .. 4 : Right(s)
  <2> DEFINE T == {s \in Nat : s \in 0 .. 4 /\ v < 256^s}
  <2>1. T \in SUBSET Nat /\ 4 \in T
    OBVIOUS
  <2>2. PICK s \in T : \A t \in T : s <= t
    <3> HIDE DEF T
    <3> QED  BY <2>1, Minimum
  <2>3. \A less \in 0 .. s - 1 : v >= 256^less
    <3> SUFFICES ASSUME NEW less \in 0 .. s - 1
                 PROVE  v >= 256^less
      OBVIOUS
    <3>1. less \in 0 .. 4 /\ ~(s <= less)
      BY <2>2
    <3>2. 256^less \in Nat
      <4>1. 256^less = pw[less] /\ pw[less] \in Nat \ {0}
        BY <1>1, <3>1, Zenon DEF IsPowers
      <4> QED  BY <4>1
    <3>3. ~(v < 256^less)
      BY <2>2, <3>1
    <3> QED  BY <3>2, <3>3
  <2> QED  BY <2>2, <2>3
<1>3. size \in 0 .. 8 /\ Right(size)
  <2>1. \E s \in 0 .. 8 : Right(s)
    <3> HIDE DEF Right
    <3> QED  BY <1>2
  <2> HIDE DEF Right
  <2> QED  BY <2>1, Zenon
<1>4. uint64_to_bytes_big_endian(v) = BigEndian(v, size)
  BY DEF uint64_to_bytes_big_endian
<1> HIDE DEF size
<1>5. size \in 0 .. 4
  <2>1. 256^4 \in Nat
    BY <1>1 DEF IsPowers
  <2>2. ~(size > 4)
    <3> SUFFICES ASSUME size > 4
                 PROVE  FALSE
      OBVIOUS
    <3>1. 4 \in 0 .. size - 1
      BY <1>3
    <3>2. v >= 256^4
      BY <1>3, <3>1
    <3> QED  BY <2>1, <3>2
  <2> QED  BY <1>3, <2>2
<1>6. v < pw[size]
  <2>1. 256^size = pw[size]
    BY <1>1, <1>5 DEF IsPowers
  <2> QED  BY <1>3, <2>1
<1> HIDE DEF Right
<1>7. Unsigned(BigEndian(v, size)) = v
  BY <1>1, <1>5, <1>6, NumberRead
<1>8. BigEndian(v, size) \in Seq(Octet) /\ Len(BigEndian(v, size)) = size
  BY <1>5, BigEndianOctets
<1> QED
  BY <1>4, <1>5, <1>7, <1>8

-----------------------------------------------------------------------------
(* The fields that share an octet. *)

\* n fields with the values v, and the powers p of 2 of their widths.
HasFields(fields, n, p, v) ==
  /\ n \in Nat /\ Len(fields) = n /\ p \in [1 .. n -> Nat] /\ v \in [1 .. n -> Nat]
  /\ \A i \in 1 .. n : 2^fields[i][1] = p[i] /\ fields[i][2] = v[i]

\* The octet grows with every field by the power of its width.
Accumulates(o, n, p, v) ==
  \E f \in [0 .. n -> Nat] :
    f[0] = 0 /\ (\A i \in 1 .. n : f[i] = p[i] * f[i - 1] + v[i]) /\ o = f[n]

LEMMA FieldsOctet ==
  ASSUME NEW fields, NEW n, NEW p, NEW v, HasFields(fields, n, p, v)
  PROVE  Accumulates(OctetOf(fields), n, p, v)
<1>0. /\ n \in Nat /\ Len(fields) = n /\ p \in [1 .. n -> Nat] /\ v \in [1 .. n -> Nat]
      /\ \A i \in 1 .. n : 2^fields[i][1] = p[i] /\ fields[i][2] = v[i]
  BY DEF HasFields
<1> DEFINE step == [y \in Nat \X (1 .. n) |-> p[y[2]] * y[1] + v[y[2]]]
<1>1. step \in Steps(Nat, n)
  <2>1. \A x \in Nat, i \in 1 .. n : p[i] * x + v[i] \in Nat
    <3> SUFFICES ASSUME NEW x \in Nat, NEW i \in 1 .. n
                 PROVE  p[i] * x + v[i] \in Nat
      OBVIOUS
    <3>1. PICK a \in Nat, b \in Nat : a = p[i] /\ b = v[i]
      BY <1>0
    <3>2. a * x + b \in Nat
      <4>1. a * x \in Nat
        BY SMT
      <4>2. \A c, d \in Nat : c + d \in Nat
        BY SMT
      <4> QED  BY <4>1, <4>2, Zenon
    <3> QED  BY <3>1, <3>2, Zenon
  <2>2. \A y \in Nat \X (1 .. n) : p[y[2]] * y[1] + v[y[2]] \in Nat
    <3> SUFFICES ASSUME NEW y \in Nat \X (1 .. n)
                 PROVE  p[y[2]] * y[1] + v[y[2]] \in Nat
      OBVIOUS
    <3>1. y[1] \in Nat /\ y[2] \in 1 .. n
      OBVIOUS
    <3> QED  BY <2>1, <3>1, Zenon
  <2> QED  BY <2>2, Zenon DEF Steps
<1>2. \A x \in Nat, i \in 1 .. n : step[<<x, i>>] = p[i] * x + v[i]
  OBVIOUS
<1> HIDE DEF step
<1>3. PICK g : Iterates(g, n, Nat, 0, step)
  BY <1>0, <1>1, Recursion
<1>4. /\ g \in [0 .. n -> Nat] /\ g[0] = 0
      /\ \A i \in 1 .. n : g[i] = step[<<g[i - 1], i>>]
  BY <1>3 DEF Iterates
<1>5. \A i \in 1 .. n : g[i] = p[i] * g[i - 1] + v[i]
  <2> SUFFICES ASSUME NEW i \in 1 .. n
               PROVE  g[i] = p[i] * g[i - 1] + v[i]
    OBVIOUS
  <2>1. g[i - 1] \in Nat
    <3>1. i - 1 \in 0 .. n
      BY <1>0
    <3> QED  BY <1>4, <3>1
  <2> QED  BY <1>2, <1>4, <2>1
<1>6. \E h : h = [i \in 0 .. n |->
                    IF i = 0 THEN 0 ELSE 2^fields[i][1] * h[i - 1] + fields[i][2]]
  <2>1. g = [i \in 0 .. n |->
               IF i = 0 THEN 0 ELSE p[i] * g[i - 1] + v[i]]
    BY <1>4, <1>5
  <2>2. g = [i \in 0 .. n |->
               IF i = 0 THEN 0 ELSE 2^fields[i][1] * g[i - 1] + fields[i][2]]
    <3>1. \A i \in 0 .. n : i # 0 => i \in 1 .. n
      BY <1>0
    <3>2. \A i \in 0 .. n : (IF i = 0 THEN 0 ELSE p[i] * g[i - 1] + v[i])
              = IF i = 0 THEN 0 ELSE 2^fields[i][1] * g[i - 1] + fields[i][2]
      BY <1>0, <3>1, Zenon
    <3> QED  BY <2>1, <3>2, Zenon
  <2> QED  BY <2>2
<1> DEFINE first[i \in 0 .. Len(fields)] ==
             IF i = 0 THEN 0 ELSE 2^fields[i][1] * first[i-1] + fields[i][2]
<1>7. OctetOf(fields) = first[n]
  BY <1>0 DEF OctetOf
<1>8. first = [i \in 0 .. n |->
                 IF i = 0 THEN 0 ELSE 2^fields[i][1] * first[i - 1] + fields[i][2]]
  <2>1. first = CHOOSE h : h = [i \in 0 .. n |->
                   IF i = 0 THEN 0 ELSE 2^fields[i][1] * h[i - 1] + fields[i][2]]
    BY <1>0
  <2> HIDE DEF first
  <2> QED  BY <1>6, <2>1, Zenon
<1> HIDE DEF first
<1>9. first[0] = 0 /\ \A i \in 1 .. n : first[i] = p[i] * first[i - 1] + v[i]
  <2>1. first[0] = 0 /\ \A i \in 1 .. n :
          first[i] = 2^fields[i][1] * first[i - 1] + fields[i][2]
    <3>1. 0 \in 0 .. n /\ \A i \in 1 .. n : i \in 0 .. n /\ i # 0
      BY <1>0
    <3> QED  BY <1>8, <3>1, Zenon
  <2> QED  BY <1>0, <2>1, Zenon
<1>10. \A i \in 0 .. n : first[i] = g[i]
  <2> DEFINE S == {i \in 0 .. n : first[i] = g[i]}
  <2>1. 0 \in S
    BY <1>0, <1>4, <1>9
  <2>2. \A i \in 1 .. n : i - 1 \in S => i \in S
    BY <1>0, <1>5, <1>9
  <2> HIDE DEF S
  <2>3. 0 .. n \subseteq S
    BY <1>0, <2>1, <2>2, InductionUpTo
  <2> QED  BY <1>0, <2>3 DEF S
<1>11. OctetOf(fields) = g[n]
  BY <1>0, <1>7, <1>10
<1> QED
  BY <1>4, <1>5, <1>11 DEF Accumulates

-----------------------------------------------------------------------------
(* The value of an octet of two, three, four and six fields. *)

Width(w, p) == p \in Nat /\ 2^w = p

Sum2(w1, v1, w2, v2, p2) ==
  OctetOf(<<<<w1, v1>>, <<w2, v2>>>>)
    = p2 * v1 + v2

LEMMA TwoFields ==
  ASSUME NEW w1, NEW v1 \in Nat, NEW p1, Width(w1, p1),
         NEW w2, NEW v2 \in Nat, NEW p2, Width(w2, p2)
  PROVE  Sum2(w1, v1, w2, v2, p2)
<1> DEFINE fields == <<<<w1, v1>>, <<w2, v2>>>>
           p == <<p1, p2>>
           v == <<v1, v2>>
<1>0. /\ p1 \in Nat /\ 2^w1 = p1
      /\ p2 \in Nat /\ 2^w2 = p2
  BY DEF Width
<1>1. p \in [1 .. 2 -> Nat] /\ v \in [1 .. 2 -> Nat] /\ Len(fields) = 2
  BY <1>0
<1>2. \A i \in 1 .. 2 : 2^fields[i][1] = p[i] /\ fields[i][2] = v[i]
  <2> SUFFICES ASSUME NEW i \in 1 .. 2
               PROVE  2^fields[i][1] = p[i] /\ fields[i][2] = v[i]
    OBVIOUS
  <2>1. CASE i = 1
    BY <1>0, <2>1
  <2>2. CASE i = 2
    BY <1>0, <2>2
  <2> QED  BY <2>1, <2>2
<1>3. /\ p[1] = p1 /\ v[1] = v1
      /\ p[2] = p2 /\ v[2] = v2
  OBVIOUS
<1> HIDE DEF fields, p, v
<1>4. PICK f \in [0 .. 2 -> Nat] :
        /\ f[0] = 0 /\ \A i \in 1 .. 2 : f[i] = p[i] * f[i - 1] + v[i]
        /\ OctetOf(fields) = f[2]
  <2>1. HasFields(fields, 2, p, v)
    BY <1>1, <1>2 DEF HasFields
  <2>2. Accumulates(OctetOf(fields), 2, p, v)
    BY <2>1, FieldsOctet
  <2> QED  BY <2>2 DEF Accumulates
<1>5. /\ f[1] = p1 * f[0] + v1
      /\ f[2] = p2 * f[1] + v2
  <2>1. \A i \in 1 .. 2 : f[i] = p[i] * f[i - 1] + v[i]
    BY <1>4
  <2>2. /\ f[1] = p[1] * f[1 - 1] + v[1]
        /\ f[2] = p[2] * f[2 - 1] + v[2]
    BY <2>1
  <2> QED  BY <1>3, <2>2
<1>6. f[1] = v1
  BY <1>0, <1>4, <1>5
<1> QED
  BY <1>4, <1>5, <1>6 DEF fields, Sum2

Sum3(w1, v1, w2, v2, p2, w3, v3, p3) ==
  OctetOf(<<<<w1, v1>>, <<w2, v2>>, <<w3, v3>>>>)
    = p3 * (p2 * v1 + v2) + v3

LEMMA ThreeFields ==
  ASSUME NEW w1, NEW v1 \in Nat, NEW p1, Width(w1, p1),
         NEW w2, NEW v2 \in Nat, NEW p2, Width(w2, p2),
         NEW w3, NEW v3 \in Nat, NEW p3, Width(w3, p3)
  PROVE  Sum3(w1, v1, w2, v2, p2, w3, v3, p3)
<1> DEFINE fields == <<<<w1, v1>>, <<w2, v2>>, <<w3, v3>>>>
           p == <<p1, p2, p3>>
           v == <<v1, v2, v3>>
<1>0. /\ p1 \in Nat /\ 2^w1 = p1
      /\ p2 \in Nat /\ 2^w2 = p2
      /\ p3 \in Nat /\ 2^w3 = p3
  BY DEF Width
<1>1. p \in [1 .. 3 -> Nat] /\ v \in [1 .. 3 -> Nat] /\ Len(fields) = 3
  BY <1>0
<1>2. \A i \in 1 .. 3 : 2^fields[i][1] = p[i] /\ fields[i][2] = v[i]
  <2> SUFFICES ASSUME NEW i \in 1 .. 3
               PROVE  2^fields[i][1] = p[i] /\ fields[i][2] = v[i]
    OBVIOUS
  <2>1. CASE i = 1
    BY <1>0, <2>1
  <2>2. CASE i = 2
    BY <1>0, <2>2
  <2>3. CASE i = 3
    BY <1>0, <2>3
  <2> QED  BY <2>1, <2>2, <2>3
<1>3. /\ p[1] = p1 /\ v[1] = v1
      /\ p[2] = p2 /\ v[2] = v2
      /\ p[3] = p3 /\ v[3] = v3
  OBVIOUS
<1> HIDE DEF fields, p, v
<1>4. PICK f \in [0 .. 3 -> Nat] :
        /\ f[0] = 0 /\ \A i \in 1 .. 3 : f[i] = p[i] * f[i - 1] + v[i]
        /\ OctetOf(fields) = f[3]
  <2>1. HasFields(fields, 3, p, v)
    BY <1>1, <1>2 DEF HasFields
  <2>2. Accumulates(OctetOf(fields), 3, p, v)
    BY <2>1, FieldsOctet
  <2> QED  BY <2>2 DEF Accumulates
<1>5. /\ f[1] = p1 * f[0] + v1
      /\ f[2] = p2 * f[1] + v2
      /\ f[3] = p3 * f[2] + v3
  <2>1. \A i \in 1 .. 3 : f[i] = p[i] * f[i - 1] + v[i]
    BY <1>4
  <2>2. /\ f[1] = p[1] * f[1 - 1] + v[1]
        /\ f[2] = p[2] * f[2 - 1] + v[2]
        /\ f[3] = p[3] * f[3 - 1] + v[3]
    BY <2>1
  <2> QED  BY <1>3, <2>2
<1>6. f[1] = v1
  BY <1>0, <1>4, <1>5
<1> QED
  BY <1>4, <1>5, <1>6 DEF fields, Sum3

Sum4(w1, v1, w2, v2, p2, w3, v3, p3, w4, v4, p4) ==
  OctetOf(<<<<w1, v1>>, <<w2, v2>>, <<w3, v3>>, <<w4, v4>>>>)
    = p4 * (p3 * (p2 * v1 + v2) + v3) + v4

LEMMA FourFields ==
  ASSUME NEW w1, NEW v1 \in Nat, NEW p1, Width(w1, p1),
         NEW w2, NEW v2 \in Nat, NEW p2, Width(w2, p2),
         NEW w3, NEW v3 \in Nat, NEW p3, Width(w3, p3),
         NEW w4, NEW v4 \in Nat, NEW p4, Width(w4, p4)
  PROVE  Sum4(w1, v1, w2, v2, p2, w3, v3, p3, w4, v4, p4)
<1> DEFINE fields == <<<<w1, v1>>, <<w2, v2>>, <<w3, v3>>, <<w4, v4>>>>
           p == <<p1, p2, p3, p4>>
           v == <<v1, v2, v3, v4>>
<1>0. /\ p1 \in Nat /\ 2^w1 = p1
      /\ p2 \in Nat /\ 2^w2 = p2
      /\ p3 \in Nat /\ 2^w3 = p3
      /\ p4 \in Nat /\ 2^w4 = p4
  BY DEF Width
<1>1. p \in [1 .. 4 -> Nat] /\ v \in [1 .. 4 -> Nat] /\ Len(fields) = 4
  BY <1>0
<1>2. \A i \in 1 .. 4 : 2^fields[i][1] = p[i] /\ fields[i][2] = v[i]
  <2> SUFFICES ASSUME NEW i \in 1 .. 4
               PROVE  2^fields[i][1] = p[i] /\ fields[i][2] = v[i]
    OBVIOUS
  <2>1. CASE i = 1
    BY <1>0, <2>1
  <2>2. CASE i = 2
    BY <1>0, <2>2
  <2>3. CASE i = 3
    BY <1>0, <2>3
  <2>4. CASE i = 4
    BY <1>0, <2>4
  <2> QED  BY <2>1, <2>2, <2>3, <2>4
<1>3. /\ p[1] = p1 /\ v[1] = v1
      /\ p[2] = p2 /\ v[2] = v2
      /\ p[3] = p3 /\ v[3] = v3
      /\ p[4] = p4 /\ v[4] = v4
  OBVIOUS
<1> HIDE DEF fields, p, v
<1>4. PICK f \in [0 .. 4 -> Nat] :
        /\ f[0] = 0 /\ \A i \in 1 .. 4 : f[i] = p[i] * f[i - 1] + v[i]
        /\ OctetOf(fields) = f[4]
  <2>1. HasFields(fields, 4, p, v)
    BY <1>1, <1>2 DEF HasFields
  <2>2. Accumulates(OctetOf(fields), 4, p, v)
    BY <2>1, FieldsOctet
  <2> QED  BY <2>2 DEF Accumulates
<1>5. /\ f[1] = p1 * f[0] + v1
      /\ f[2] = p2 * f[1] + v2
      /\ f[3] = p3 * f[2] + v3
      /\ f[4] = p4 * f[3] + v4
  <2>1. \A i \in 1 .. 4 : f[i] = p[i] * f[i - 1] + v[i]
    BY <1>4
  <2>2. /\ f[1] = p[1] * f[1 - 1] + v[1]
        /\ f[2] = p[2] * f[2 - 1] + v[2]
        /\ f[3] = p[3] * f[3 - 1] + v[3]
        /\ f[4] = p[4] * f[4 - 1] + v[4]
    BY <2>1
  <2> QED  BY <1>3, <2>2
<1>6. f[1] = v1
  BY <1>0, <1>4, <1>5
<1> QED
  BY <1>4, <1>5, <1>6 DEF fields, Sum4

Sum6(w1, v1, w2, v2, p2, w3, v3, p3, w4, v4, p4, w5, v5, p5, w6, v6, p6) ==
  OctetOf(<<<<w1, v1>>, <<w2, v2>>, <<w3, v3>>, <<w4, v4>>, <<w5, v5>>, <<w6, v6>>>>)
    = p6 * (p5 * (p4 * (p3 * (p2 * v1 + v2) + v3) + v4) + v5) + v6

LEMMA SixFields ==
  ASSUME NEW w1, NEW v1 \in Nat, NEW p1, Width(w1, p1),
         NEW w2, NEW v2 \in Nat, NEW p2, Width(w2, p2),
         NEW w3, NEW v3 \in Nat, NEW p3, Width(w3, p3),
         NEW w4, NEW v4 \in Nat, NEW p4, Width(w4, p4),
         NEW w5, NEW v5 \in Nat, NEW p5, Width(w5, p5),
         NEW w6, NEW v6 \in Nat, NEW p6, Width(w6, p6)
  PROVE  Sum6(w1, v1, w2, v2, p2, w3, v3, p3, w4, v4, p4, w5, v5, p5, w6, v6, p6)
<1> DEFINE fields == <<<<w1, v1>>, <<w2, v2>>, <<w3, v3>>, <<w4, v4>>, <<w5, v5>>, <<w6, v6>>>>
           p == <<p1, p2, p3, p4, p5, p6>>
           v == <<v1, v2, v3, v4, v5, v6>>
<1>0. /\ p1 \in Nat /\ 2^w1 = p1
      /\ p2 \in Nat /\ 2^w2 = p2
      /\ p3 \in Nat /\ 2^w3 = p3
      /\ p4 \in Nat /\ 2^w4 = p4
      /\ p5 \in Nat /\ 2^w5 = p5
      /\ p6 \in Nat /\ 2^w6 = p6
  BY DEF Width
<1>1. p \in [1 .. 6 -> Nat] /\ v \in [1 .. 6 -> Nat] /\ Len(fields) = 6
  BY <1>0
<1>2. \A i \in 1 .. 6 : 2^fields[i][1] = p[i] /\ fields[i][2] = v[i]
  <2> SUFFICES ASSUME NEW i \in 1 .. 6
               PROVE  2^fields[i][1] = p[i] /\ fields[i][2] = v[i]
    OBVIOUS
  <2>1. CASE i = 1
    BY <1>0, <2>1
  <2>2. CASE i = 2
    BY <1>0, <2>2
  <2>3. CASE i = 3
    BY <1>0, <2>3
  <2>4. CASE i = 4
    BY <1>0, <2>4
  <2>5. CASE i = 5
    BY <1>0, <2>5
  <2>6. CASE i = 6
    BY <1>0, <2>6
  <2> QED  BY <2>1, <2>2, <2>3, <2>4, <2>5, <2>6
<1>3. /\ p[1] = p1 /\ v[1] = v1
      /\ p[2] = p2 /\ v[2] = v2
      /\ p[3] = p3 /\ v[3] = v3
      /\ p[4] = p4 /\ v[4] = v4
      /\ p[5] = p5 /\ v[5] = v5
      /\ p[6] = p6 /\ v[6] = v6
  OBVIOUS
<1> HIDE DEF fields, p, v
<1>4. PICK f \in [0 .. 6 -> Nat] :
        /\ f[0] = 0 /\ \A i \in 1 .. 6 : f[i] = p[i] * f[i - 1] + v[i]
        /\ OctetOf(fields) = f[6]
  <2>1. HasFields(fields, 6, p, v)
    BY <1>1, <1>2 DEF HasFields
  <2>2. Accumulates(OctetOf(fields), 6, p, v)
    BY <2>1, FieldsOctet
  <2> QED  BY <2>2 DEF Accumulates
<1>5. /\ f[1] = p1 * f[0] + v1
      /\ f[2] = p2 * f[1] + v2
      /\ f[3] = p3 * f[2] + v3
      /\ f[4] = p4 * f[3] + v4
      /\ f[5] = p5 * f[4] + v5
      /\ f[6] = p6 * f[5] + v6
  <2>1. \A i \in 1 .. 6 : f[i] = p[i] * f[i - 1] + v[i]
    BY <1>4
  <2>2. /\ f[1] = p[1] * f[1 - 1] + v[1]
        /\ f[2] = p[2] * f[2 - 1] + v[2]
        /\ f[3] = p[3] * f[3 - 1] + v[3]
        /\ f[4] = p[4] * f[4 - 1] + v[4]
        /\ f[5] = p[5] * f[5 - 1] + v[5]
        /\ f[6] = p[6] * f[6 - 1] + v[6]
    BY <2>1
  <2> QED  BY <1>3, <2>2
<1>6. f[1] = v1
  BY <1>0, <1>4, <1>5
<1> QED
  BY <1>4, <1>5, <1>6 DEF fields, Sum6

-----------------------------------------------------------------------------
(* Parts of a sequence of octets. *)

\* The octets b stand in o from position at on.
Holds(o, at, b) ==
  /\ o \in Seq(Octet) /\ b \in Seq(Octet) /\ at \in Nat \ {0}
  /\ at + Len(b) - 1 <= Len(o)
  /\ \A i \in 1 .. Len(b) : o[at + i - 1] = b[i]

LEMMA HoldsItself ==
  ASSUME NEW b \in Seq(Octet)
  PROVE  Holds(b, 1, b)
<1>1. Len(b) \in Nat
  OBVIOUS
<1>2. \A i \in 1 .. Len(b) : 1 + i - 1 = i
  BY <1>1
<1> QED
  BY <1>1, <1>2 DEF Holds

LEMMA HoldsBefore ==
  ASSUME NEW o, NEW at, NEW b, Holds(o, at, b), NEW c \in Seq(Octet)
  PROVE  Holds(o \o c, at, b)
<1>1. /\ o \in Seq(Octet) /\ b \in Seq(Octet) /\ at \in Nat \ {0}
      /\ at + Len(b) - 1 <= Len(o)
      /\ \A i \in 1 .. Len(b) : o[at + i - 1] = b[i]
  BY DEF Holds
<1>2. PICK m \in Nat, n \in Nat, k \in Nat : m = Len(o) /\ n = Len(c) /\ k = Len(b)
  BY <1>1
<1>3. /\ o \o c \in Seq(Octet) /\ Len(o \o c) = m + n
      /\ \A i \in 1 .. m : (o \o c)[i] = o[i]
  BY <1>1, <1>2
<1>4. \A i \in 1 .. k : at + i - 1 \in 1 .. m
  BY <1>1, <1>2
<1>5. at + k - 1 <= m + n
  BY <1>1, <1>2
<1>6. \A i \in 1 .. k : (o \o c)[at + i - 1] = b[i]
  BY <1>1, <1>2, <1>3, <1>4, Zenon
<1> QED
  BY <1>1, <1>2, <1>3, <1>5, <1>6, Zenon DEF Holds

LEMMA HoldsBehind ==
  ASSUME NEW o \in Seq(Octet), NEW c, NEW at, NEW b, Holds(c, at, b)
  PROVE  Holds(o \o c, Len(o) + at, b)
<1>1. /\ c \in Seq(Octet) /\ b \in Seq(Octet) /\ at \in Nat \ {0}
      /\ at + Len(b) - 1 <= Len(c)
      /\ \A i \in 1 .. Len(b) : c[at + i - 1] = b[i]
  BY DEF Holds
<1>2. PICK m \in Nat, n \in Nat, k \in Nat : m = Len(o) /\ n = Len(c) /\ k = Len(b)
  BY <1>1
<1>3. /\ o \o c \in Seq(Octet) /\ Len(o \o c) = m + n
      /\ \A i \in 1 .. n : (o \o c)[m + i] = c[i]
  BY <1>1, <1>2
<1>4. m + at \in Nat \ {0} /\ m + at + k - 1 <= m + n
  BY <1>1, <1>2
<1>5. \A i \in 1 .. k : (o \o c)[m + at + i - 1] = b[i]
  <2> SUFFICES ASSUME NEW i \in 1 .. k
               PROVE  (o \o c)[m + at + i - 1] = b[i]
    OBVIOUS
  <2>1. at + i - 1 \in 1 .. n /\ m + at + i - 1 = m + (at + i - 1)
    BY <1>1, <1>2
  <2>2. (o \o c)[m + (at + i - 1)] = c[at + i - 1]
    BY <1>3, <2>1, Zenon
  <2>3. c[at + i - 1] = b[i]
    BY <1>1, <1>2
  <2> QED  BY <2>1, <2>2, <2>3, Zenon
<1> QED
  BY <1>1, <1>2, <1>3, <1>4, <1>5, Zenon DEF Holds

\* A part of a part.
LEMMA HoldsWithin ==
  ASSUME NEW o, NEW at, NEW c, Holds(o, at, c), NEW k, NEW b, Holds(c, k, b)
  PROVE  Holds(o, at + k - 1, b)
<1>1. /\ o \in Seq(Octet) /\ c \in Seq(Octet) /\ at \in Nat \ {0}
      /\ at + Len(c) - 1 <= Len(o)
      /\ \A i \in 1 .. Len(c) : o[at + i - 1] = c[i]
  BY DEF Holds
<1>2. /\ b \in Seq(Octet) /\ k \in Nat \ {0}
      /\ k + Len(b) - 1 <= Len(c)
      /\ \A i \in 1 .. Len(b) : c[k + i - 1] = b[i]
  BY DEF Holds
<1>3. PICK m \in Nat, n \in Nat, l \in Nat : m = Len(o) /\ n = Len(c) /\ l = Len(b)
  BY <1>1, <1>2
<1>4. at + k - 1 \in Nat \ {0} /\ (at + k - 1) + l - 1 <= m
  BY <1>1, <1>2, <1>3
<1>5. \A i \in 1 .. l : o[(at + k - 1) + i - 1] = b[i]
  <2> SUFFICES ASSUME NEW i \in 1 .. l
               PROVE  o[(at + k - 1) + i - 1] = b[i]
    OBVIOUS
  <2>1. k + i - 1 \in 1 .. n /\ (at + k - 1) + i - 1 = at + (k + i - 1) - 1
    BY <1>1, <1>2, <1>3
  <2>2. o[at + (k + i - 1) - 1] = c[k + i - 1]
    BY <1>1, <1>3, <2>1, Zenon
  <2>3. c[k + i - 1] = b[i]
    BY <1>2, <1>3
  <2> QED  BY <2>1, <2>2, <2>3, Zenon
<1> QED
  BY <1>1, <1>2, <1>3, <1>4, <1>5, Zenon DEF Holds

LEMMA HoldsSlice ==
  ASSUME NEW o, NEW at, NEW b, Holds(o, at, b)
  PROVE  Slice(o, at, Len(b)) = b
<1>1. /\ o \in Seq(Octet) /\ b \in Seq(Octet) /\ at \in Nat \ {0}
      /\ at + Len(b) - 1 <= Len(o)
      /\ \A i \in 1 .. Len(b) : o[at + i - 1] = b[i]
  BY DEF Holds
<1>2. PICK m \in Nat, k \in Nat : m = Len(o) /\ k = Len(b)
  BY <1>1
<1>3. PICK s : s = SubSeq(o, at, at + k - 1)
  OBVIOUS
<1>4. \A i \in at .. at + k - 1 : o[i] \in Octet
  <2>1. \A i \in at .. at + k - 1 : i \in 1 .. m
    BY <1>1, <1>2
  <2> QED  BY <1>1, <1>2, <2>1
<1>5. /\ s \in Seq(Octet)
      /\ Len(s) = IF at <= at + k - 1 THEN (at + k - 1) - at + 1 ELSE 0
      /\ \A i \in 1 .. (at + k - 1) - at + 1 : s[i] = o[at + i - 1]
  <2>1. at \in Int /\ at + k - 1 \in Int
    BY <1>1, <1>2
  <2> QED  BY <1>3, <1>4, <2>1, SubSeqProperties
<1>6. Len(s) = k /\ \A i \in 1 .. k : i \in 1 .. (at + k - 1) - at + 1
  BY <1>1, <1>2, <1>5
<1>7. \A i \in 1 .. k : s[i] = b[i]
  BY <1>1, <1>2, <1>5, <1>6, Zenon
<1>8. s = b
  BY <1>1, <1>2, <1>5, <1>6, <1>7, SeqEqual
<1> QED
  BY <1>2, <1>3, <1>8, Zenon DEF Slice

LEMMA HoldsOctet ==
  ASSUME NEW o, NEW at, NEW x, Holds(o, at, <<x>>)
  PROVE  o[at] = x /\ x \in Octet /\ at \in 1 .. Len(o)
<1>1. /\ o \in Seq(Octet) /\ <<x>> \in Seq(Octet) /\ at \in Nat \ {0}
      /\ at + Len(<<x>>) - 1 <= Len(o)
      /\ \A i \in 1 .. Len(<<x>>) : o[at + i - 1] = <<x>>[i]
  BY DEF Holds
<1>2. Len(<<x>>) = 1 /\ <<x>>[1] = x
  OBVIOUS
<1>3. at + 1 - 1 = at /\ 1 \in 1 .. 1
  BY <1>1
<1>4. o[at] = x
  <2>1. o[at + 1 - 1] = <<x>>[1]
    BY <1>1, <1>2
  <2> QED  BY <1>2, <1>3, <2>1, Zenon
<1>5. at <= Len(o) /\ Len(o) \in Nat
  BY <1>1, <1>2, <1>3
<1> QED
  BY <1>1, <1>4, <1>5

-----------------------------------------------------------------------------
(* Sequences put together of several. *)

IsChain2(o, a, b) ==
  /\ o \in Seq(Octet)
  /\ Len(o) = Len(a) + Len(b)
  /\ Holds(o, 1, a)
  /\ Holds(o, Len(a) + 1, b)

LEMMA Chain2 ==
  ASSUME NEW a \in Seq(Octet), NEW b \in Seq(Octet)
  PROVE  IsChain2(a \o b, a, b)
<1>1. PICK p : p = a
  OBVIOUS
<1>2. p \in Seq(Octet) /\ Len(p) = Len(a) /\ Holds(p, 1, a)
  BY <1>1, HoldsItself
<1>3. Holds(p \o b, 1, a)
  BY <1>2, HoldsBefore, Zenon
<1>4. Holds(p \o b, Len(p) + 1, b)
  BY <1>2, HoldsItself, HoldsBehind
<1>5. p \o b \in Seq(Octet) /\ Len(p \o b) = Len(p) + Len(b)
  BY <1>2
<1> QED
  BY <1>1, <1>2, <1>3, <1>4, <1>5, Zenon DEF IsChain2

IsChain3(o, a, b, c) ==
  /\ o \in Seq(Octet)
  /\ Len(o) = Len(a) + Len(b) + Len(c)
  /\ Holds(o, 1, a)
  /\ Holds(o, Len(a) + 1, b)
  /\ Holds(o, Len(a) + Len(b) + 1, c)

LEMMA Chain3 ==
  ASSUME NEW a \in Seq(Octet), NEW b \in Seq(Octet), NEW c \in Seq(Octet)
  PROVE  IsChain3(a \o b \o c, a, b, c)
<1>1. PICK p : p = a \o b
  OBVIOUS
<1>2. IsChain2(p, a, b)
  BY <1>1, Chain2, Zenon
<1>3. p \in Seq(Octet) /\ Len(p) = Len(a) + Len(b)
  BY <1>2 DEF IsChain2
<1>4. /\ Holds(p \o c, 1, a)
      /\ Holds(p \o c, Len(a) + 1, b)
  BY <1>2, HoldsBefore, Zenon DEF IsChain2
<1>5. Holds(p \o c, Len(p) + 1, c)
  BY <1>3, HoldsItself, HoldsBehind
<1>6. p \o c \in Seq(Octet) /\ Len(p \o c) = Len(p) + Len(c)
  <2>1. \A q \in Seq(Octet) : q \o c \in Seq(Octet) /\ Len(q \o c) = Len(q) + Len(c)
    OBVIOUS
  <2> QED  BY <1>3, <2>1, Zenon
<1> QED
  BY <1>1, <1>3, <1>4, <1>5, <1>6, Zenon DEF IsChain3

IsChain4(o, a, b, c, d) ==
  /\ o \in Seq(Octet)
  /\ Len(o) = Len(a) + Len(b) + Len(c) + Len(d)
  /\ Holds(o, 1, a)
  /\ Holds(o, Len(a) + 1, b)
  /\ Holds(o, Len(a) + Len(b) + 1, c)
  /\ Holds(o, Len(a) + Len(b) + Len(c) + 1, d)

LEMMA Chain4 ==
  ASSUME NEW a \in Seq(Octet), NEW b \in Seq(Octet), NEW c \in Seq(Octet), NEW d \in Seq(Octet)
  PROVE  IsChain4(a \o b \o c \o d, a, b, c, d)
<1>1. PICK p : p = a \o b \o c
  OBVIOUS
<1>2. IsChain3(p, a, b, c)
  BY <1>1, Chain3, Zenon
<1>3. p \in Seq(Octet) /\ Len(p) = Len(a) + Len(b) + Len(c)
  BY <1>2 DEF IsChain3
<1>4. /\ Holds(p \o d, 1, a)
      /\ Holds(p \o d, Len(a) + 1, b)
      /\ Holds(p \o d, Len(a) + Len(b) + 1, c)
  BY <1>2, HoldsBefore, Zenon DEF IsChain3
<1>5. Holds(p \o d, Len(p) + 1, d)
  BY <1>3, HoldsItself, HoldsBehind
<1>6. p \o d \in Seq(Octet) /\ Len(p \o d) = Len(p) + Len(d)
  <2>1. \A q \in Seq(Octet) : q \o d \in Seq(Octet) /\ Len(q \o d) = Len(q) + Len(d)
    OBVIOUS
  <2> QED  BY <1>3, <2>1, Zenon
<1> QED
  BY <1>1, <1>3, <1>4, <1>5, <1>6, Zenon DEF IsChain4

IsChain5(o, a, b, c, d, e) ==
  /\ o \in Seq(Octet)
  /\ Len(o) = Len(a) + Len(b) + Len(c) + Len(d) + Len(e)
  /\ Holds(o, 1, a)
  /\ Holds(o, Len(a) + 1, b)
  /\ Holds(o, Len(a) + Len(b) + 1, c)
  /\ Holds(o, Len(a) + Len(b) + Len(c) + 1, d)
  /\ Holds(o, Len(a) + Len(b) + Len(c) + Len(d) + 1, e)

LEMMA Chain5 ==
  ASSUME NEW a \in Seq(Octet), NEW b \in Seq(Octet), NEW c \in Seq(Octet), NEW d \in Seq(Octet),
         NEW e \in Seq(Octet)
  PROVE  IsChain5(a \o b \o c \o d \o e, a, b, c, d, e)
<1>1. PICK p : p = a \o b \o c \o d
  OBVIOUS
<1>2. IsChain4(p, a, b, c, d)
  BY <1>1, Chain4, Zenon
<1>3. p \in Seq(Octet) /\ Len(p) = Len(a) + Len(b) + Len(c) + Len(d)
  BY <1>2 DEF IsChain4
<1>4. /\ Holds(p \o e, 1, a)
      /\ Holds(p \o e, Len(a) + 1, b)
      /\ Holds(p \o e, Len(a) + Len(b) + 1, c)
      /\ Holds(p \o e, Len(a) + Len(b) + Len(c) + 1, d)
  BY <1>2, HoldsBefore, Zenon DEF IsChain4
<1>5. Holds(p \o e, Len(p) + 1, e)
  BY <1>3, HoldsItself, HoldsBehind
<1>6. p \o e \in Seq(Octet) /\ Len(p \o e) = Len(p) + Len(e)
  <2>1. \A q \in Seq(Octet) : q \o e \in Seq(Octet) /\ Len(q \o e) = Len(q) + Len(e)
    OBVIOUS
  <2> QED  BY <1>3, <2>1, Zenon
<1> QED
  BY <1>1, <1>3, <1>4, <1>5, <1>6, Zenon DEF IsChain5

IsChain6(o, a, b, c, d, e, f) ==
  /\ o \in Seq(Octet)
  /\ Len(o) = Len(a) + Len(b) + Len(c) + Len(d) + Len(e) + Len(f)
  /\ Holds(o, 1, a)
  /\ Holds(o, Len(a) + 1, b)
  /\ Holds(o, Len(a) + Len(b) + 1, c)
  /\ Holds(o, Len(a) + Len(b) + Len(c) + 1, d)
  /\ Holds(o, Len(a) + Len(b) + Len(c) + Len(d) + 1, e)
  /\ Holds(o, Len(a) + Len(b) + Len(c) + Len(d) + Len(e) + 1, f)

LEMMA Chain6 ==
  ASSUME NEW a \in Seq(Octet), NEW b \in Seq(Octet), NEW c \in Seq(Octet), NEW d \in Seq(Octet),
         NEW e \in Seq(Octet), NEW f \in Seq(Octet)
  PROVE  IsChain6(a \o b \o c \o d \o e \o f, a, b, c, d, e, f)
<1>1. PICK p : p = a \o b \o c \o d \o e
  OBVIOUS
<1>2. IsChain5(p, a, b, c, d, e)
  BY <1>1, Chain5, Zenon
<1>3. p \in Seq(Octet) /\ Len(p) = Len(a) + Len(b) + Len(c) + Len(d) + Len(e)
  BY <1>2 DEF IsChain5
<1>4. /\ Holds(p \o f, 1, a)
      /\ Holds(p \o f, Len(a) + 1, b)
      /\ Holds(p \o f, Len(a) + Len(b) + 1, c)
      /\ Holds(p \o f, Len(a) + Len(b) + Len(c) + 1, d)
      /\ Holds(p \o f, Len(a) + Len(b) + Len(c) + Len(d) + 1, e)
  BY <1>2, HoldsBefore, Zenon DEF IsChain5
<1>5. Holds(p \o f, Len(p) + 1, f)
  BY <1>3, HoldsItself, HoldsBehind
<1>6. p \o f \in Seq(Octet) /\ Len(p \o f) = Len(p) + Len(f)
  <2>1. \A q \in Seq(Octet) : q \o f \in Seq(Octet) /\ Len(q \o f) = Len(q) + Len(f)
    OBVIOUS
  <2> QED  BY <1>3, <2>1, Zenon
<1> QED
  BY <1>1, <1>3, <1>4, <1>5, <1>6, Zenon DEF IsChain6

IsChain7(o, a, b, c, d, e, f, g) ==
  /\ o \in Seq(Octet)
  /\ Len(o) = Len(a) + Len(b) + Len(c) + Len(d) + Len(e) + Len(f) + Len(g)
  /\ Holds(o, 1, a)
  /\ Holds(o, Len(a) + 1, b)
  /\ Holds(o, Len(a) + Len(b) + 1, c)
  /\ Holds(o, Len(a) + Len(b) + Len(c) + 1, d)
  /\ Holds(o, Len(a) + Len(b) + Len(c) + Len(d) + 1, e)
  /\ Holds(o, Len(a) + Len(b) + Len(c) + Len(d) + Len(e) + 1, f)
  /\ Holds(o, Len(a) + Len(b) + Len(c) + Len(d) + Len(e) + Len(f) + 1, g)

LEMMA Chain7 ==
  ASSUME NEW a \in Seq(Octet), NEW b \in Seq(Octet), NEW c \in Seq(Octet), NEW d \in Seq(Octet),
         NEW e \in Seq(Octet), NEW f \in Seq(Octet), NEW g \in Seq(Octet)
  PROVE  IsChain7(a \o b \o c \o d \o e \o f \o g, a, b, c, d, e, f, g)
<1>1. PICK p : p = a \o b \o c \o d \o e \o f
  OBVIOUS
<1>2. IsChain6(p, a, b, c, d, e, f)
  BY <1>1, Chain6, Zenon
<1>3. p \in Seq(Octet) /\ Len(p) = Len(a) + Len(b) + Len(c) + Len(d) + Len(e) + Len(f)
  BY <1>2 DEF IsChain6
<1>4. /\ Holds(p \o g, 1, a)
      /\ Holds(p \o g, Len(a) + 1, b)
      /\ Holds(p \o g, Len(a) + Len(b) + 1, c)
      /\ Holds(p \o g, Len(a) + Len(b) + Len(c) + 1, d)
      /\ Holds(p \o g, Len(a) + Len(b) + Len(c) + Len(d) + 1, e)
      /\ Holds(p \o g, Len(a) + Len(b) + Len(c) + Len(d) + Len(e) + 1, f)
  BY <1>2, HoldsBefore, Zenon DEF IsChain6
<1>5. Holds(p \o g, Len(p) + 1, g)
  BY <1>3, HoldsItself, HoldsBehind
<1>6. p \o g \in Seq(Octet) /\ Len(p \o g) = Len(p) + Len(g)
  <2>1. \A q \in Seq(Octet) : q \o g \in Seq(Octet) /\ Len(q \o g) = Len(q) + Len(g)
    OBVIOUS
  <2> QED  BY <1>3, <2>1, Zenon
<1> QED
  BY <1>1, <1>3, <1>4, <1>5, <1>6, Zenon DEF IsChain7

-----------------------------------------------------------------------------
(* The enumerations. *)

LEMMA NamedIs ==
  ASSUME NEW table, NEW code, code \in DOMAIN table
  PROVE  Named(table, code) = {table[code]}
BY DEF Named

LEMMA ConditionCodes ==
  ASSUME NEW c \in DOMAIN ConditionCode_ACN_Encode
  PROVE  /\ ConditionCode_ACN_Encode[c] \in 0 .. 15
         /\ Named(ConditionCode_ACN_Decode, ConditionCode_ACN_Encode[c]) = {c}
<1>1. ConditionCode_ACN_Encode[c] \in 0 .. 15
  BY DEF ConditionCode_ACN_Encode
<1>2. ConditionCode_ACN_Encode[c] \in DOMAIN ConditionCode_ACN_Decode
  BY DEF ConditionCode_ACN_Encode, ConditionCode_ACN_Decode
<1>3. ConditionCode_ACN_Decode[ConditionCode_ACN_Encode[c]] = c
  BY DEF ConditionCode_ACN_Encode, ConditionCode_ACN_Decode
<1> QED
  BY <1>1, <1>2, <1>3, NamedIs, Zenon

LEMMA ChecksumTypes ==
  ASSUME NEW c \in DOMAIN ChecksumType_ACN_Encode
  PROVE  /\ ChecksumType_ACN_Encode[c] \in 0 .. 15
         /\ Named(ChecksumType_ACN_Decode, ChecksumType_ACN_Encode[c]) = {c}
<1>1. ChecksumType_ACN_Encode[c] \in 0 .. 15
  BY DEF ChecksumType_ACN_Encode
<1>2. ChecksumType_ACN_Encode[c] \in DOMAIN ChecksumType_ACN_Decode
  BY DEF ChecksumType_ACN_Encode, ChecksumType_ACN_Decode
<1>3. ChecksumType_ACN_Decode[ChecksumType_ACN_Encode[c]] = c
  BY DEF ChecksumType_ACN_Encode, ChecksumType_ACN_Decode
<1> QED
  BY <1>1, <1>2, <1>3, NamedIs, Zenon

LEMMA DirectiveSubtypeCodes ==
  ASSUME NEW c \in DOMAIN DirectiveSubtypeCode_ACN_Encode
  PROVE  /\ DirectiveSubtypeCode_ACN_Encode[c] \in 0 .. 15
         /\ Named(DirectiveSubtypeCode_ACN_Decode, DirectiveSubtypeCode_ACN_Encode[c]) = {c}
<1>1. DirectiveSubtypeCode_ACN_Encode[c] \in 0 .. 15
  BY DEF DirectiveSubtypeCode_ACN_Encode
<1>2. DirectiveSubtypeCode_ACN_Encode[c] \in DOMAIN DirectiveSubtypeCode_ACN_Decode
  BY DEF DirectiveSubtypeCode_ACN_Encode, DirectiveSubtypeCode_ACN_Decode
<1>3. DirectiveSubtypeCode_ACN_Decode[DirectiveSubtypeCode_ACN_Encode[c]] = c
  BY DEF DirectiveSubtypeCode_ACN_Encode, DirectiveSubtypeCode_ACN_Decode
<1> QED
  BY <1>1, <1>2, <1>3, NamedIs, Zenon

\* The enumerations that fill their bits have a name for every value.
LEMMA Flags ==
  /\ \A c \in DOMAIN DeliveryCode_ACN_Encode :
       /\ DeliveryCode_ACN_Encode[c] \in 0 .. 1
       /\ DeliveryCode_ACN_Decode[DeliveryCode_ACN_Encode[c]] = c
  /\ \A c \in DOMAIN ClosureRequested_ACN_Encode :
       /\ ClosureRequested_ACN_Encode[c] \in 0 .. 1
       /\ ClosureRequested_ACN_Decode[ClosureRequested_ACN_Encode[c]] = c
  /\ \A c \in DOMAIN Direction_ACN_Encode :
       /\ Direction_ACN_Encode[c] \in 0 .. 1
       /\ Direction_ACN_Decode[Direction_ACN_Encode[c]] = c
  /\ \A c \in DOMAIN TransmissionMode_ACN_Encode :
       /\ TransmissionMode_ACN_Encode[c] \in 0 .. 1
       /\ TransmissionMode_ACN_Decode[TransmissionMode_ACN_Encode[c]] = c
  /\ \A c \in DOMAIN CRCFlag_ACN_Encode :
       /\ CRCFlag_ACN_Encode[c] \in 0 .. 1
       /\ CRCFlag_ACN_Decode[CRCFlag_ACN_Encode[c]] = c
<1>1. \A c \in DOMAIN DeliveryCode_ACN_Encode :
        /\ DeliveryCode_ACN_Encode[c] \in 0 .. 1
        /\ DeliveryCode_ACN_Decode[DeliveryCode_ACN_Encode[c]] = c
  BY DEF DeliveryCode_ACN_Encode, DeliveryCode_ACN_Decode
<1>2. \A c \in DOMAIN ClosureRequested_ACN_Encode :
        /\ ClosureRequested_ACN_Encode[c] \in 0 .. 1
        /\ ClosureRequested_ACN_Decode[ClosureRequested_ACN_Encode[c]] = c
  BY DEF ClosureRequested_ACN_Encode, ClosureRequested_ACN_Decode
<1>3. \A c \in DOMAIN Direction_ACN_Encode :
        /\ Direction_ACN_Encode[c] \in 0 .. 1
        /\ Direction_ACN_Decode[Direction_ACN_Encode[c]] = c
  BY DEF Direction_ACN_Encode, Direction_ACN_Decode
<1>4. \A c \in DOMAIN TransmissionMode_ACN_Encode :
        /\ TransmissionMode_ACN_Encode[c] \in 0 .. 1
        /\ TransmissionMode_ACN_Decode[TransmissionMode_ACN_Encode[c]] = c
  BY DEF TransmissionMode_ACN_Encode, TransmissionMode_ACN_Decode
<1>5. \A c \in DOMAIN CRCFlag_ACN_Encode :
        /\ CRCFlag_ACN_Encode[c] \in 0 .. 1
        /\ CRCFlag_ACN_Decode[CRCFlag_ACN_Encode[c]] = c
  BY DEF CRCFlag_ACN_Encode, CRCFlag_ACN_Decode
<1> QED
  BY <1>1, <1>2, <1>3, <1>4, <1>5, Zenon

LEMMA PairsOfBits ==
  /\ \A c \in DOMAIN FileStatus_ACN_Encode :
       /\ FileStatus_ACN_Encode[c] \in 0 .. 3
       /\ FileStatus_ACN_Decode[FileStatus_ACN_Encode[c]] = c
  /\ \A c \in DOMAIN AckTransactionStatus_ACN_Encode :
       /\ AckTransactionStatus_ACN_Encode[c] \in 0 .. 3
       /\ AckTransactionStatus_ACN_Decode[AckTransactionStatus_ACN_Encode[c]] = c
<1>1. \A c \in DOMAIN FileStatus_ACN_Encode :
        /\ FileStatus_ACN_Encode[c] \in 0 .. 3
        /\ FileStatus_ACN_Decode[FileStatus_ACN_Encode[c]] = c
  BY DEF FileStatus_ACN_Encode, FileStatus_ACN_Decode
<1>2. \A c \in DOMAIN AckTransactionStatus_ACN_Encode :
        /\ AckTransactionStatus_ACN_Encode[c] \in 0 .. 3
        /\ AckTransactionStatus_ACN_Decode[AckTransactionStatus_ACN_Encode[c]] = c
  BY DEF AckTransactionStatus_ACN_Encode, AckTransactionStatus_ACN_Decode
<1> QED
  BY <1>1, <1>2, Zenon

-----------------------------------------------------------------------------
(* Numbers of two and four octets. *)

LEMMA PowerValues ==
  ASSUME NEW pw, IsPowers(pw)
  PROVE  /\ pw[0] = 1 /\ pw[1] = 256 * pw[0] /\ pw[2] = 256 * pw[1]
         /\ pw[3] = 256 * pw[2] /\ pw[4] = 256 * pw[3]
         /\ 256^3 = pw[3] /\ 256^4 = pw[4] /\ pw[3] \in Nat \ {0}
<1>1. pw[0] = 1
  BY DEF IsPowers
<1>2. \A k \in 1 .. 4 : pw[k] = 256 * pw[k - 1]
  BY DEF IsPowers
<1>3. /\ pw[1] = 256 * pw[0] /\ pw[2] = 256 * pw[1]
      /\ pw[3] = 256 * pw[2] /\ pw[4] = 256 * pw[3]
  BY <1>2
<1>4. pw \in [0 .. 4 -> Nat \ {0}]
  BY DEF IsPowers
<1>5. pw[3] \in Nat \ {0}
  BY <1>4
<1>6. \A k \in 0 .. 4 : 256^k = pw[k]
  BY DEF IsPowers
<1>7. 3 \in 0 .. 4 /\ 4 \in 0 .. 4
  OBVIOUS
<1>8. 256^3 = pw[3] /\ 256^4 = pw[4]
  BY <1>6, <1>7, Zenon
<1> QED
  BY <1>1, <1>3, <1>5, <1>8, Zenon

LEMMA Uint32Read ==
  ASSUME NEW v \in uint32_t
  PROVE  /\ v \in Nat /\ v < 256^4
         /\ BigEndian(v, 4) \in Seq(Octet) /\ Len(BigEndian(v, 4)) = 4
         /\ Unsigned(BigEndian(v, 4)) = v
<1>1. PICK pw : IsPowers(pw)
  BY Powers
<1>2. v \in Nat /\ v \div 256^3 \in Octet
  BY DEF uint32_t
<1>3. /\ 256^3 = pw[3] /\ 256^4 = pw[4] /\ pw[4] = 256 * pw[3] /\ pw[3] \in Nat \ {0}
  BY <1>1, PowerValues, ZenonT(60)
<1>4. v < pw[4]
  <2>1. \A p \in Nat \ {0} : v \div p \in 0 .. 255 => v < 256 * p
    BY <1>2, SMT
  <2>2. v \div pw[3] \in 0 .. 255
    BY <1>2, <1>3, Zenon DEF Octet
  <2>3. v < 256 * pw[3]
    BY <1>3, <2>1, <2>2, Zenon
  <2> QED  BY <1>3, <2>3, Zenon
<1>5. 4 \in 0 .. 4
  OBVIOUS
<1>6. Unsigned(BigEndian(v, 4)) = v
  BY <1>1, <1>2, <1>4, <1>5, NumberRead, Zenon
<1>7. BigEndian(v, 4) \in Seq(Octet) /\ Len(BigEndian(v, 4)) = 4
  BY <1>2, <1>5, BigEndianOctets, ZenonT(60)
<1> QED
  BY <1>2, <1>3, <1>4, <1>6, <1>7, Zenon

LEMMA Uint16Read ==
  ASSUME NEW v \in Nat, v < 256^2
  PROVE  /\ BigEndian(v, 2) \in Seq(Octet) /\ Len(BigEndian(v, 2)) = 2
         /\ Unsigned(BigEndian(v, 2)) = v
<1>1. PICK pw : IsPowers(pw)
  BY Powers
<1>2. 2 \in 0 .. 4
  OBVIOUS
<1>3. v < pw[2]
  BY <1>1, <1>2, Zenon DEF IsPowers
<1>4. Unsigned(BigEndian(v, 2)) = v
  BY <1>1, <1>2, <1>3, NumberRead, Zenon
<1>5. BigEndian(v, 2) \in Seq(Octet) /\ Len(BigEndian(v, 2)) = 2
  BY <1>2, BigEndianOctets, ZenonT(60)
<1> QED
  BY <1>4, <1>5, Zenon

-----------------------------------------------------------------------------
(* The octets that several fields share. *)

\* Two nibbles.
OfNibbles(o, x, y) ==
  o = OctetOf(<<<<4, x>>, <<4, y>>>>)

LEMMA TwoNibbles ==
  ASSUME NEW x \in 0 .. 15, NEW y \in 0 .. 15,
         NEW o, OfNibbles(o, x, y)
  PROVE  /\ o \in Octet
         /\ Bits(o, 0, 4) = x /\ Bits(o, 4, 4) = y
<1>1. o = 16 * x + y
  <2>0. x \in Nat /\ y \in Nat
    BY SMT
  <2>1. Width(4, 16)
    BY SMT DEF Width
  <2>2. Sum2(4, x, 4, y, 16)
    BY <2>0, <2>1, TwoFields, Zenon
  <2> QED  BY <2>2 DEF Sum2, OfNibbles
<1>2. \A n, m \in 0 .. 15, z \in Nat : z = 16 * n + m =>
        /\ z \in Octet
        /\ Bits(z, 0, 4) = n /\ Bits(z, 4, 4) = m
  BY SMT DEF Bits, Octet
<1>3. o \in Nat
  BY <1>1
<1> QED
  BY <1>1, <1>2, <1>3

\* The octet of a finished PDU: condition, 1, delivery code and file status.
OfFinished(o, x, d, s) ==
  o = OctetOf(<<<<4, x>>, <<1, 1>>, <<1, d>>, <<2, s>>>>)

LEMMA FinishedOctet ==
  ASSUME NEW x \in 0 .. 15, NEW d \in 0 .. 1, NEW s \in 0 .. 3,
         NEW o, OfFinished(o, x, d, s)
  PROVE  /\ o \in Octet
         /\ Bits(o, 0, 4) = x /\ Bits(o, 4, 1) = 1
         /\ Bits(o, 5, 1) = d /\ Bits(o, 6, 2) = s
<1>1. o = 16 * x + 8 + 4 * d + s
  <2>0. x \in Nat /\ d \in Nat /\ s \in Nat /\ 0 \in Nat /\ 1 \in Nat
    BY SMT
  <2>1. Width(4, 16) /\ Width(1, 2) /\ Width(2, 4)
    BY SMT DEF Width
  <2>2. Sum4(4, x, 1, 1, 2, 1, d, 2, 2, s, 4)
    BY <2>0, <2>1, FourFields, Zenon
  <2> QED  BY <2>2 DEF Sum4, OfFinished
<1>2. \A n \in 0 .. 15, i \in 0 .. 1, j \in 0 .. 3, z \in Nat : z = 16 * n + 8 + 4 * i + j =>
        /\ z \in Octet
        /\ Bits(z, 0, 4) = n /\ Bits(z, 4, 1) = 1
        /\ Bits(z, 5, 1) = i /\ Bits(z, 6, 2) = j
  BY SMT DEF Bits, Octet
<1>3. o \in Nat
  BY <1>1
<1> QED
  BY <1>1, <1>2, <1>3

\* The last octet of an ack PDU: the status of the transaction, and unused bits.
OfStatus(o, s) ==
  o = OctetOf(<<<<2, 0>>, <<2, s>>, <<4, 0>>>>)

LEMMA StatusOctet ==
  ASSUME NEW s \in 0 .. 3,
         NEW o, OfStatus(o, s)
  PROVE  /\ o \in Octet
         /\ Bits(o, 0, 2) = 0 /\ Bits(o, 2, 2) = s
<1>1. o = 16 * s
  <2>0. s \in Nat /\ 0 \in Nat /\ 1 \in Nat
    BY SMT
  <2>1. Width(4, 16) /\ Width(2, 4)
    BY SMT DEF Width
  <2>2. Sum3(2, 0, 2, s, 4, 4, 0, 16)
    BY <2>0, <2>1, ThreeFields, Zenon
  <2> QED  BY <2>2 DEF Sum3, OfStatus
<1>2. \A j \in 0 .. 3, z \in Nat : z = 16 * j =>
        /\ z \in Octet
        /\ Bits(z, 0, 2) = 0 /\ Bits(z, 2, 2) = j
  BY SMT DEF Bits, Octet
<1>3. o \in Nat
  BY <1>1
<1> QED
  BY <1>1, <1>2, <1>3

\* The first octet of a metadata PDU: closure and checksum type, and zeros.
OfMetadata(o, c, t) ==
  o = OctetOf(<<<<1, 0>>, <<1, c>>, <<2, 0>>, <<4, t>>>>)

LEMMA MetadataOctet ==
  ASSUME NEW c \in 0 .. 1, NEW t \in 0 .. 15,
         NEW o, OfMetadata(o, c, t)
  PROVE  /\ o \in Octet
         /\ Bits(o, 0, 1) = 0 /\ Bits(o, 1, 1) = c
         /\ Bits(o, 2, 2) = 0 /\ Bits(o, 4, 4) = t
<1>1. o = 64 * c + t
  <2>0. c \in Nat /\ t \in Nat /\ 0 \in Nat /\ 1 \in Nat
    BY SMT
  <2>1. Width(4, 16) /\ Width(1, 2) /\ Width(2, 4)
    BY SMT DEF Width
  <2>2. Sum4(1, 0, 1, c, 2, 2, 0, 4, 4, t, 16)
    BY <2>0, <2>1, FourFields, Zenon
  <2> QED  BY <2>2 DEF Sum4, OfMetadata
<1>2. \A i \in 0 .. 1, j \in 0 .. 15, z \in Nat : z = 64 * i + j =>
        /\ z \in Octet
        /\ Bits(z, 0, 1) = 0 /\ Bits(z, 1, 1) = i
        /\ Bits(z, 2, 2) = 0 /\ Bits(z, 4, 4) = j
  BY SMT DEF Bits, Octet
<1>3. o \in Nat
  BY <1>1
<1> QED
  BY <1>1, <1>2, <1>3

\* The octet of the lengths of two identifiers of up to seven octets.
OfLengths(o, i, n) ==
  o = OctetOf(<<<<1, 0>>, <<3, cfdp_entity_len_encode(i)>>,
                              <<1, 0>>, <<3, cfdp_entity_len_encode(n)>>>>)

LEMMA LengthsOctet ==
  ASSUME NEW i \in 1 .. 7, NEW n \in 1 .. 7,
         NEW o, OfLengths(o, i, n)
  PROVE  /\ o \in Octet
         /\ Bits(o, 0, 1) = 0 /\ Bits(o, 4, 1) = 0
         /\ cfdp_entity_len_decode(Bits(o, 1, 3)) = i
         /\ cfdp_entity_len_decode(Bits(o, 5, 3)) = n
         /\ ((o \div 16) % 8) + 1 = i /\ (o % 8) + 1 = n
<1>1. o = 16 * (i - 1) + (n - 1)
  <2>0. 0 \in Nat /\ cfdp_entity_len_encode(i) \in Nat /\ cfdp_entity_len_encode(n) \in Nat
    BY DEF cfdp_entity_len_encode
  <2>1. Width(1, 2) /\ Width(3, 8)
    BY SMT DEF Width
  <2>2. Sum4(1, 0, 3, cfdp_entity_len_encode(i), 8, 1, 0, 2, 3, cfdp_entity_len_encode(n), 8)
    BY <2>0, <2>1, FourFields, Zenon
  <2> QED  BY <2>2 DEF Sum4, OfLengths, cfdp_entity_len_encode
<1>2. \A k, j \in 1 .. 7, z \in Nat : z = 16 * (k - 1) + (j - 1) =>
        /\ z \in Octet
        /\ Bits(z, 0, 1) = 0 /\ Bits(z, 4, 1) = 0
        /\ Bits(z, 1, 3) + 1 = k
        /\ Bits(z, 5, 3) + 1 = j
        /\ ((z \div 16) % 8) + 1 = k /\ (z % 8) + 1 = j
  BY SMT DEF Bits, Octet
<1>3. o \in Nat
  BY <1>1
<1> QED
  BY <1>1, <1>2, <1>3 DEF cfdp_entity_len_decode

\* The first octet of a PDU.
OfFlags(o, v, t, d, m, c) ==
  o = OctetOf(<<<<3, v>>, <<1, t>>, <<1, d>>, <<1, m>>, <<1, c>>, <<1, 0>>>>)

LEMMA FlagsOctet ==
  ASSUME NEW v \in 0 .. 7, NEW t \in 0 .. 1, NEW d \in 0 .. 1, NEW m \in 0 .. 1, NEW c \in 0 .. 1,
         NEW o, OfFlags(o, v, t, d, m, c)
  PROVE  /\ o \in Octet
         /\ Bits(o, 0, 3) = v /\ Bits(o, 3, 1) = t /\ Bits(o, 4, 1) = d
         /\ Bits(o, 5, 1) = m /\ Bits(o, 6, 1) = c /\ Bits(o, 7, 1) = 0
         /\ (o \div 16) % 2 = t
<1>1. o = 32 * v + 16 * t + 8 * d + 4 * m + 2 * c
  <2>0. v \in Nat /\ t \in Nat /\ d \in Nat /\ m \in Nat /\ c \in Nat /\ 0 \in Nat /\ 1 \in Nat
    BY SMT
  <2>1. Width(1, 2) /\ Width(3, 8)
    BY SMT DEF Width
  <2>2. Sum6(3, v, 1, t, 2, 1, d, 2, 1, m, 2, 1, c, 2, 1, 0, 2)
    BY <2>0, <2>1, SixFields, Zenon
  <2> QED  BY <2>2 DEF Sum6, OfFlags
<1>2. \A n \in 0 .. 7, i, j, k, l \in 0 .. 1, z \in Nat : z = 32 * n + 16 * i + 8 * j + 4 * k + 2 * l =>
        /\ z \in Octet
        /\ Bits(z, 0, 3) = n /\ Bits(z, 3, 1) = i /\ Bits(z, 4, 1) = j
        /\ Bits(z, 5, 1) = k /\ Bits(z, 6, 1) = l /\ Bits(z, 7, 1) = 0
        /\ (z \div 16) % 2 = i
  BY SMT DEF Bits, Octet
<1>3. o \in Nat
  BY <1>1
<1> QED
  BY <1>1, <1>2, <1>3

-----------------------------------------------------------------------------
(* The payloads: what an encoder writes its decoder reads, whatever is behind. *)

\* Parts of a part that begins a sequence.
LEMMA HoldsPart ==
  ASSUME NEW o, NEW c, Holds(o, 1, c), NEW k \in Nat \ {0}, NEW b, Holds(c, k, b)
  PROVE  Holds(o, k, b)
<1>1. Holds(o, 1 + k - 1, b)
  BY HoldsWithin, Zenon
<1>2. 1 + k - 1 = k
  OBVIOUS
<1> QED
  BY <1>1, <1>2, Zenon

LEMMA OneOctet ==
  ASSUME NEW x \in Octet
  PROVE  <<x>> \in Seq(Octet) /\ Len(<<x>>) = 1
OBVIOUS

Written(b, size) == b \in Seq(Octet) /\ Len(b) = size

LEMMA EofRead ==
  ASSUME NEW p \in cfdpEofPDU
  PROVE  /\ Written(EofPDU_ACN_Encode(p), 9)
         /\ \A o : Holds(o, 1, EofPDU_ACN_Encode(p)) => EofPDU_ACN_Decode(o) = {p}
<1> DEFINE x == ConditionCode_ACN_Encode[p.condition_code]
           first == OctetOf(<<<<4, x>>, <<4, 0>>>>)
           a == BigEndian(p.file_checksum, 4)
           b == BigEndian(p.file_size, 4)
           c == EofPDU_ACN_Encode(p)
<1>1. /\ p.condition_code \in DOMAIN ConditionCode_ACN_Encode
      /\ p.file_checksum \in uint32_t /\ p.file_size \in uint32_t
      /\ p = [kind |-> "eof_pdu", condition_code |-> p.condition_code,
              file_checksum |-> p.file_checksum, file_size |-> p.file_size]
  BY DEF cfdpEofPDU
<1>2. x \in 0 .. 15 /\ Named(ConditionCode_ACN_Decode, x) = {p.condition_code}
  BY <1>1, ConditionCodes
<1>3. first \in Octet /\ Bits(first, 0, 4) = x /\ Bits(first, 4, 4) = 0
  <2>1. 0 \in 0 .. 15
    OBVIOUS
  <2>2. OfNibbles(first, x, 0)
    BY DEF OfNibbles
  <2> HIDE DEF x, first
  <2> QED  BY <1>2, <2>1, <2>2, TwoNibbles, Zenon
<1>4. /\ a \in Seq(Octet) /\ Len(a) = 4 /\ Unsigned(a) = p.file_checksum
      /\ b \in Seq(Octet) /\ Len(b) = 4 /\ Unsigned(b) = p.file_size
  BY <1>1, Uint32Read, Zenon
<1>5. c = <<first>> \o a \o b
  BY DEF EofPDU_ACN_Encode
<1> HIDE DEF first, a, b, c
<1>6. <<first>> \in Seq(Octet) /\ Len(<<first>>) = 1
  BY <1>3, OneOctet
<1>7. IsChain3(c, <<first>>, a, b)
  BY <1>4, <1>5, <1>6, Chain3, Zenon
<1>8. Written(c, 9) /\ Holds(c, 1, <<first>>) /\ Holds(c, 2, a) /\ Holds(c, 6, b)
  BY <1>4, <1>6, <1>7 DEF IsChain3, Written
<1>9. ASSUME NEW o, Holds(o, 1, c)
      PROVE  EofPDU_ACN_Decode(o) = {p}
  <2>1. Holds(o, 1, <<first>>) /\ Holds(o, 2, a) /\ Holds(o, 6, b)
    BY <1>8, <1>9, HoldsPart
  <2>2. o[1] = first
    BY <2>1, HoldsOctet, Zenon
  <2>3. Slice(o, 2, 4) = a /\ Slice(o, 6, 4) = b
    BY <1>4, <2>1, HoldsSlice
  <2>4. {n \in Named(ConditionCode_ACN_Decode, Bits(o[1], 0, 4)) : Bits(o[1], 4, 4) = 0} = {p.condition_code}
    BY <1>2, <1>3, <2>2
  <2> QED
    BY <1>1, <1>4, <2>3, <2>4 DEF EofPDU_ACN_Decode
<1> QED
  BY <1>8, <1>9 DEF c

LEMMA FinishedRead ==
  ASSUME NEW p \in cfdpFinishedPDU
  PROVE  /\ Written(FinishedPDU_ACN_Encode(p), 1)
         /\ \A o : Holds(o, 1, FinishedPDU_ACN_Encode(p)) => FinishedPDU_ACN_Decode(o) = {p}
<1> DEFINE x == ConditionCode_ACN_Encode[p.condition_code]
           d == DeliveryCode_ACN_Encode[p.delivery_code]
           s == FileStatus_ACN_Encode[p.file_status]
           first == OctetOf(<<<<4, x>>, <<1, 1>>, <<1, d>>, <<2, s>>>>)
           c == FinishedPDU_ACN_Encode(p)
<1>1. /\ p.condition_code \in DOMAIN ConditionCode_ACN_Encode
      /\ p.delivery_code \in DOMAIN DeliveryCode_ACN_Encode
      /\ p.file_status \in DOMAIN FileStatus_ACN_Encode
      /\ p = [kind |-> "finished_pdu", condition_code |-> p.condition_code,
              delivery_code |-> p.delivery_code, file_status |-> p.file_status]
  BY DEF cfdpFinishedPDU
<1>2. /\ x \in 0 .. 15 /\ Named(ConditionCode_ACN_Decode, x) = {p.condition_code}
      /\ d \in 0 .. 1 /\ DeliveryCode_ACN_Decode[d] = p.delivery_code
      /\ s \in 0 .. 3 /\ FileStatus_ACN_Decode[s] = p.file_status
  BY <1>1, ConditionCodes, Flags, PairsOfBits
<1>3. /\ first \in Octet /\ Bits(first, 0, 4) = x /\ Bits(first, 4, 1) = 1
      /\ Bits(first, 5, 1) = d /\ Bits(first, 6, 2) = s
  <2>1. OfFinished(first, x, d, s)
    BY DEF OfFinished
  <2>2. x \in 0 .. 15 /\ d \in 0 .. 1 /\ s \in 0 .. 3
    BY <1>2
  <2> HIDE DEF x, d, s, first
  <2> QED  BY <2>1, <2>2, FinishedOctet, SMTT(20)
<1>4. c = <<first>>
  BY DEF FinishedPDU_ACN_Encode
<1> HIDE DEF x, d, s, first, c
<1>5. Written(c, 1)
  BY <1>3, <1>4, OneOctet DEF Written
<1>6. ASSUME NEW o, Holds(o, 1, c)
      PROVE  FinishedPDU_ACN_Decode(o) = {p}
  <2>1. o[1] = first
    BY <1>4, <1>6, HoldsOctet, Zenon
  <2>2. {n \in Named(ConditionCode_ACN_Decode, Bits(o[1], 0, 4)) : Bits(o[1], 4, 1) = 1} = {p.condition_code}
    BY <1>2, <1>3, <2>1
  <2> QED
    BY <1>1, <1>2, <1>3, <2>1, <2>2 DEF FinishedPDU_ACN_Decode
<1> QED
  BY <1>5, <1>6 DEF c

LEMMA AckRead ==
  ASSUME NEW p \in cfdpAckPDU
  PROVE  /\ Written(AckPDU_ACN_Encode(p), 3)
         /\ \A o : Holds(o, 1, AckPDU_ACN_Encode(p)) => AckPDU_ACN_Decode(o) = {p}
<1> DEFINE y == DirectiveSubtypeCode_ACN_Encode[p.directive_subtype_code]
           x == ConditionCode_ACN_Encode[p.condition_code]
           s == AckTransactionStatus_ACN_Encode[p.transaction_status]
           d == p.directive_code_of_ack_pdu
           second == OctetOf(<<<<4, y>>, <<4, x>>>>)
           third == OctetOf(<<<<2, 0>>, <<2, s>>, <<4, 0>>>>)
           c == AckPDU_ACN_Encode(p)
<1>1. /\ p.condition_code \in DOMAIN ConditionCode_ACN_Encode
      /\ p.directive_subtype_code \in DOMAIN DirectiveSubtypeCode_ACN_Encode
      /\ p.transaction_status \in DOMAIN AckTransactionStatus_ACN_Encode
      /\ d \in Octet
      /\ p = [kind |-> "ack_pdu", directive_code_of_ack_pdu |-> d,
              directive_subtype_code |-> p.directive_subtype_code,
              condition_code |-> p.condition_code,
              transaction_status |-> p.transaction_status]
  BY DEF cfdpAckPDU
<1>2. /\ x \in 0 .. 15 /\ Named(ConditionCode_ACN_Decode, x) = {p.condition_code}
      /\ y \in 0 .. 15 /\ Named(DirectiveSubtypeCode_ACN_Decode, y) = {p.directive_subtype_code}
      /\ s \in 0 .. 3 /\ AckTransactionStatus_ACN_Decode[s] = p.transaction_status
  BY <1>1, ConditionCodes, DirectiveSubtypeCodes, PairsOfBits
<1>3. /\ second \in Octet /\ Bits(second, 0, 4) = y /\ Bits(second, 4, 4) = x
      /\ third \in Octet /\ Bits(third, 0, 2) = 0 /\ Bits(third, 2, 2) = s
  <2>1. OfNibbles(second, y, x) /\ OfStatus(third, s)
    BY DEF OfNibbles, OfStatus
  <2>2. x \in 0 .. 15 /\ y \in 0 .. 15 /\ s \in 0 .. 3
    BY <1>2
  <2> HIDE DEF x, y, s, second, third
  <2>3. second \in Octet /\ Bits(second, 0, 4) = y /\ Bits(second, 4, 4) = x
    BY <2>1, <2>2, TwoNibbles, SMTT(20)
  <2>4. third \in Octet /\ Bits(third, 0, 2) = 0 /\ Bits(third, 2, 2) = s
    BY <2>1, <2>2, StatusOctet, SMTT(20)
  <2> QED  BY <2>3, <2>4
<1>4. c = <<d, second, third>>
  BY DEF AckPDU_ACN_Encode
<1> HIDE DEF x, y, s, second, third, c
<1>5. Written(c, 3) /\ Holds(c, 1, <<d>>) /\ Holds(c, 2, <<second>>) /\ Holds(c, 3, <<third>>)
  <2> HIDE DEF d
  <2>1. c \in Seq(Octet) /\ Len(c) = 3 /\ c[1] = d /\ c[2] = second /\ c[3] = third
    BY <1>1, <1>3, <1>4
  <2>2. \A n \in 1 .. 3, z \in Octet : c[n] = z => Holds(c, n, <<z>>)
    BY <2>1, OneOctet DEF Holds
  <2> QED  BY <1>1, <1>3, <2>1, <2>2 DEF Written
<1>6. ASSUME NEW o, Holds(o, 1, c)
      PROVE  AckPDU_ACN_Decode(o) = {p}
  <2>1. Holds(o, 1, <<d>>) /\ Holds(o, 2, <<second>>) /\ Holds(o, 3, <<third>>)
    BY <1>5, <1>6, HoldsPart
  <2>2. o[1] = d /\ o[2] = second /\ o[3] = third
    BY <2>1, HoldsOctet, Zenon
  <2>3. {n \in Named(DirectiveSubtypeCode_ACN_Decode, Bits(o[2], 0, 4)) \X
               Named(ConditionCode_ACN_Decode, Bits(o[2], 4, 4)) : Bits(o[3], 0, 2) = 0}
          = {<<p.directive_subtype_code, p.condition_code>>}
    <3>1. \A i, j : {n \in {i} \X {j} : Bits(o[3], 0, 2) = 0} = {<<i, j>>}
      BY <1>3, <2>2
    <3>2. /\ Named(DirectiveSubtypeCode_ACN_Decode, Bits(o[2], 0, 4)) = {p.directive_subtype_code}
          /\ Named(ConditionCode_ACN_Decode, Bits(o[2], 4, 4)) = {p.condition_code}
      BY <1>2, <1>3, <2>2, Zenon
    <3> QED  BY <3>1, <3>2
  <2>4. /\ <<p.directive_subtype_code, p.condition_code>>[1] = p.directive_subtype_code
        /\ <<p.directive_subtype_code, p.condition_code>>[2] = p.condition_code
    OBVIOUS
  <2>5. AckTransactionStatus_ACN_Decode[Bits(o[3], 2, 2)] = p.transaction_status
    BY <1>2, <1>3, <2>2, Zenon
  <2>6. AckPDU_ACN_Decode(o) =
          {[kind |-> "ack_pdu", directive_code_of_ack_pdu |-> o[1],
            directive_subtype_code |-> names[1], condition_code |-> names[2],
            transaction_status |-> AckTransactionStatus_ACN_Decode[Bits(o[3], 2, 2)]] :
              names \in {<<p.directive_subtype_code, p.condition_code>>}}
    BY <2>3, Zenon DEF AckPDU_ACN_Decode
  <2> QED
    BY <1>1, <2>2, <2>4, <2>5, <2>6
<1> QED
  BY <1>5, <1>6 DEF c

\* The sizes of a file data PDU.
Segments == 0 .. 4096

LEMMA SegmentSizes ==
  /\ Segments \subseteq Nat
  /\ \A n \in Segments : n < 256^2 /\ {n} \cap Segments = {n}
<1>1. Segments \subseteq Nat
  BY DEF Segments
<1>2. \A n \in Segments : n < 256^2
  BY SMT DEF Segments
<1> QED
  BY <1>1, <1>2

LEMMA SegmentFits ==
  ASSUME NEW p \in cfdpFileDataPDU, FileDataPDU_IsConstraintValid(p)
  PROVE  Len(p.file_data) \in Segments
<1>1. p.file_data \in Seq(Octet)
  BY DEF cfdpFileDataPDU
<1>2. Len(p.file_data) <= 4096
  BY DEF FileDataPDU_IsConstraintValid, FileData_IsConstraintValid
<1>3. Len(p.file_data) \in Nat
  BY <1>1
<1>4. PICK k : k = Len(p.file_data)
  OBVIOUS
<1>5. k \in Nat /\ k <= 4096
  BY <1>2, <1>3, <1>4
<1>6. k \in Segments
  BY <1>5 DEF Segments
<1> QED
  BY <1>4, <1>6

LEMMA FileDataRead ==
  ASSUME NEW p \in cfdpFileDataPDU, FileDataPDU_IsConstraintValid(p)
  PROVE  /\ Written(FileDataPDU_ACN_Encode(p), 6 + Len(p.file_data))
         /\ \A o : Holds(o, 1, FileDataPDU_ACN_Encode(p)) => FileDataPDU_ACN_Decode(o) = {p}
<1>1. PICK d : d = p.file_data
  OBVIOUS
<1>2. PICK n : n = Len(d)
  OBVIOUS
<1> DEFINE a == BigEndian(p.segment_offset, 4)
           b == BigEndian(n, 2)
           c == FileDataPDU_ACN_Encode(p)
<1>3. /\ p.segment_offset \in uint32_t /\ d \in Seq(Octet)
      /\ p = [kind |-> "file_data_pdu", segment_offset |-> p.segment_offset, file_data |-> d]
  BY <1>1 DEF cfdpFileDataPDU
<1>4. n \in Segments /\ n \in Nat /\ n < 256^2 /\ {n} \cap Segments = {n}
  <2>1. n \in Segments
    BY <1>1, <1>2, SegmentFits, Zenon
  <2> QED  BY <2>1, SegmentSizes, Zenon
<1>5. /\ a \in Seq(Octet) /\ Len(a) = 4 /\ Unsigned(a) = p.segment_offset
      /\ b \in Seq(Octet) /\ Len(b) = 2 /\ Unsigned(b) = n
  BY <1>3, <1>4, Uint32Read, Uint16Read, Zenon
<1>6. c = a \o b \o d
  BY <1>1, <1>2, Zenon DEF FileDataPDU_ACN_Encode
<1> HIDE DEF a, b, c
<1>7. IsChain3(c, a, b, d)
  BY <1>3, <1>5, <1>6, Chain3, Zenon
<1>8. Written(c, 6 + n) /\ Holds(c, 1, a) /\ Holds(c, 5, b) /\ Holds(c, 7, d)
  <2>1. /\ c \in Seq(Octet) /\ Len(c) = 4 + 2 + n
        /\ Holds(c, 1, a) /\ Holds(c, 4 + 1, b) /\ Holds(c, 4 + 2 + 1, d)
    BY <1>2, <1>5, <1>7, Zenon DEF IsChain3
  <2>2. 4 + 1 = 5 /\ 4 + 2 + 1 = 7 /\ 4 + 2 = 6
    OBVIOUS
  <2> QED  BY <2>1, <2>2, Zenon DEF Written
<1>9. ASSUME NEW o, Holds(o, 1, c)
      PROVE  FileDataPDU_ACN_Decode(o) = {p}
  <2>1. Holds(o, 1, a) /\ Holds(o, 5, b) /\ Holds(o, 7, d)
    BY <1>8, <1>9, HoldsPart
  <2>2. Slice(o, 1, 4) = a /\ Slice(o, 5, 2) = b /\ Slice(o, 7, n) = d
    BY <1>2, <1>5, <2>1, HoldsSlice, Zenon
  <2>3. {Unsigned(Slice(o, 5, 2))} \cap 0 .. 4096 = {n}
    BY <1>4, <1>5, <2>2 DEF Segments
  <2> QED
    BY <1>3, <1>5, <2>2, <2>3 DEF FileDataPDU_ACN_Decode
<1> QED
  BY <1>1, <1>2, <1>8, <1>9, Zenon DEF c

\* The sizes of a file name.
NameSizes == 0 .. 128

LEMMA NameFits ==
  ASSUME NEW name \in Seq(Octet), FileName_IsConstraintValid(name)
  PROVE  Len(name) \in NameSizes /\ Len(name) \in Octet
<1>1. PICK k : k = Len(name)
  OBVIOUS
<1>2. k \in Nat /\ k <= 128
  BY <1>1 DEF FileName_IsConstraintValid
<1>3. k \in NameSizes /\ k \in Octet
  BY <1>2 DEF NameSizes, Octet
<1> QED
  BY <1>1, <1>3

LEMMA MetadataRead ==
  ASSUME NEW p \in cfdpMetadataPDU, MetadataPDU_IsConstraintValid(p)
  PROVE  /\ Written(MetadataPDU_ACN_Encode(p),
                    7 + Len(p.source_file_name) + Len(p.destination_file_name))
         /\ \A o : Holds(o, 1, MetadataPDU_ACN_Encode(p)) => MetadataPDU_ACN_Decode(o) = {p}
<1>1. PICK s, d : s = p.source_file_name /\ d = p.destination_file_name
  OBVIOUS
<1>2. PICK m, n : m = Len(s) /\ n = Len(d)
  OBVIOUS
<1>3. PICK r, t : /\ r = ClosureRequested_ACN_Encode[p.closure_requested]
                  /\ t = ChecksumType_ACN_Encode[p.checksum_type]
  OBVIOUS
<1> DEFINE first == OctetOf(<<<<1, 0>>, <<1, r>>, <<2, 0>>, <<4, t>>>>)
           a == BigEndian(p.file_size, 4)
           c == MetadataPDU_ACN_Encode(p)
<1>4. /\ p.closure_requested \in DOMAIN ClosureRequested_ACN_Encode
      /\ p.checksum_type \in DOMAIN ChecksumType_ACN_Encode
      /\ p.file_size \in uint32_t /\ s \in Seq(Octet) /\ d \in Seq(Octet)
      /\ p = [kind |-> "metadata_pdu", closure_requested |-> p.closure_requested,
              checksum_type |-> p.checksum_type, file_size |-> p.file_size,
              source_file_name |-> s, destination_file_name |-> d]
  BY <1>1 DEF cfdpMetadataPDU
<1>5. /\ m \in NameSizes /\ m \in Octet /\ n \in NameSizes /\ n \in Octet
      /\ m <= 128 /\ n <= 128 /\ m \in Nat /\ n \in Nat
  <2>1. FileName_IsConstraintValid(s) /\ FileName_IsConstraintValid(d)
    BY <1>1, Zenon DEF MetadataPDU_IsConstraintValid
  <2>2. m \in NameSizes /\ m \in Octet /\ n \in NameSizes /\ n \in Octet
    BY <1>2, <1>4, <2>1, NameFits, Zenon
  <2> QED  BY <2>2 DEF NameSizes
<1>6. /\ r \in 0 .. 1 /\ ClosureRequested_ACN_Decode[r] = p.closure_requested
      /\ t \in 0 .. 15 /\ Named(ChecksumType_ACN_Decode, t) = {p.checksum_type}
  BY <1>3, <1>4, Flags, ChecksumTypes
<1>7. /\ first \in Octet /\ Bits(first, 0, 1) = 0 /\ Bits(first, 1, 1) = r
      /\ Bits(first, 2, 2) = 0 /\ Bits(first, 4, 4) = t
  <2>1. OfMetadata(first, r, t)
    BY DEF OfMetadata
  <2>2. r \in 0 .. 1 /\ t \in 0 .. 15
    BY <1>6
  <2> HIDE DEF first
  <2> QED  BY <2>1, <2>2, MetadataOctet, SMTT(20)
<1>8. a \in Seq(Octet) /\ Len(a) = 4 /\ Unsigned(a) = p.file_size
  BY <1>4, Uint32Read, Zenon
<1>9. c = <<first>> \o a \o <<m>> \o s \o <<n>> \o d
  BY <1>1, <1>2, <1>3, Zenon DEF MetadataPDU_ACN_Encode
<1> HIDE DEF first, a, c
<1>10. /\ <<first>> \in Seq(Octet) /\ Len(<<first>>) = 1
       /\ <<m>> \in Seq(Octet) /\ Len(<<m>>) = 1
       /\ <<n>> \in Seq(Octet) /\ Len(<<n>>) = 1
  BY <1>5, <1>7, OneOctet, Zenon
<1>11. IsChain6(c, <<first>>, a, <<m>>, s, <<n>>, d)
  BY <1>4, <1>8, <1>9, <1>10, Chain6, Zenon
<1>12. /\ c \in Seq(Octet) /\ Len(c) = 7 + m + n
       /\ Holds(c, 1, <<first>>) /\ Holds(c, 2, a) /\ Holds(c, 6, <<m>>)
       /\ Holds(c, 7, s) /\ Holds(c, 7 + m, <<n>>) /\ Holds(c, 8 + m, d)
  <2>1. /\ c \in Seq(Octet) /\ Len(c) = 1 + 4 + 1 + m + 1 + n
        /\ Holds(c, 1, <<first>>) /\ Holds(c, 1 + 1, a) /\ Holds(c, 1 + 4 + 1, <<m>>)
        /\ Holds(c, 1 + 4 + 1 + 1, s) /\ Holds(c, 1 + 4 + 1 + m + 1, <<n>>)
        /\ Holds(c, 1 + 4 + 1 + m + 1 + 1, d)
    BY <1>2, <1>8, <1>10, <1>11, Zenon DEF IsChain6
  <2>2. /\ 1 + 4 + 1 + m + 1 + n = 7 + m + n
        /\ 1 + 1 = 2 /\ 1 + 4 + 1 = 6 /\ 1 + 4 + 1 + 1 = 7
        /\ 1 + 4 + 1 + m + 1 = 7 + m /\ 1 + 4 + 1 + m + 1 + 1 = 8 + m
    BY <1>5
  <2> QED  BY <2>1, <2>2, Zenon
<1>13. ASSUME NEW o, Holds(o, 1, c)
       PROVE  MetadataPDU_ACN_Decode(o) = {p}
  <2>0. 7 + m \in Nat \ {0} /\ 8 + m \in Nat \ {0}
    BY <1>5
  <2>1. /\ Holds(o, 1, <<first>>) /\ Holds(o, 2, a) /\ Holds(o, 6, <<m>>)
        /\ Holds(o, 7, s) /\ Holds(o, 7 + m, <<n>>) /\ Holds(o, 8 + m, d)
    <3>1. 1 \in Nat \ {0} /\ 2 \in Nat \ {0} /\ 6 \in Nat \ {0} /\ 7 \in Nat \ {0}
      OBVIOUS
    <3> QED  BY <1>12, <1>13, <2>0, <3>1, HoldsPart, Zenon
  <2>2. o[1] = first /\ o[6] = m /\ o[7 + m] = n
    BY <2>1, HoldsOctet, Zenon
  <2>3. Slice(o, 2, 4) = a /\ Slice(o, 7, m) = s /\ Slice(o, 8 + m, n) = d
    BY <1>2, <1>8, <2>1, HoldsSlice, Zenon
  <2>4. {x \in Named(ChecksumType_ACN_Decode, Bits(o[1], 4, 4)) :
           /\ Bits(o[1], 0, 1) = 0 /\ Bits(o[1], 2, 2) = 0
           /\ o[6] <= 128 /\ o[7 + o[6]] <= 128} = {p.checksum_type}
    BY <1>5, <1>6, <1>7, <2>2
  <2>5. MetadataPDU_ACN_Decode(o) =
          {[kind |-> "metadata_pdu",
            closure_requested |-> ClosureRequested_ACN_Decode[Bits(o[1], 1, 1)],
            checksum_type |-> type,
            file_size |-> Unsigned(Slice(o, 2, 4)),
            source_file_name |-> Slice(o, 7, o[6]),
            destination_file_name |-> Slice(o, 8 + o[6], o[7 + o[6]])] :
              type \in {p.checksum_type}}
    BY <2>4, Zenon DEF MetadataPDU_ACN_Decode
  <2>6. MetadataPDU_ACN_Decode(o) =
          {[kind |-> "metadata_pdu", closure_requested |-> p.closure_requested,
            checksum_type |-> type, file_size |-> p.file_size,
            source_file_name |-> s, destination_file_name |-> d] :
              type \in {p.checksum_type}}
    BY <1>6, <1>7, <1>8, <2>2, <2>3, <2>5, Zenon
  <2> QED
    BY <1>4, <2>6
<1>14. Written(c, 7 + m + n)
  BY <1>12 DEF Written
<1> QED
  BY <1>1, <1>2, <1>13, <1>14, Zenon DEF c

-----------------------------------------------------------------------------
(* The payload of a PDU, in the buffer that the decoder reads it from. *)

PduType(kind) == IF kind = "file_data_pdu" THEN 1 ELSE 0
PayloadSizes == 2 .. 4102
DirectiveSizes == 1 .. 263

\* The buffer of the payload: zeros fill it up.
Buffer(octets) == octets \o Zeros(PayloadData_REQUIRED_BYTES - Len(octets))

LEMMA PayloadSizeFacts ==
  /\ PayloadSizes \subseteq Nat
  /\ \A n \in PayloadSizes : /\ n \in Nat /\ n < 256^2 /\ n <= PayloadData_REQUIRED_BYTES
                             /\ PayloadData_REQUIRED_BYTES - n \in Nat
  /\ \A n \in DirectiveSizes : n \in Nat /\ 1 + n \in PayloadSizes
  /\ \A n \in Segments : 6 + n \in PayloadSizes
<1>1. PayloadSizes \subseteq Nat
  BY DEF PayloadSizes
<1>2. \A n \in PayloadSizes : /\ n \in Nat /\ n < 256^2 /\ n <= PayloadData_REQUIRED_BYTES
                              /\ PayloadData_REQUIRED_BYTES - n \in Nat
  BY SMT DEF PayloadSizes, PayloadData_REQUIRED_BYTES
<1>3. \A n \in DirectiveSizes : n \in Nat /\ 1 + n \in PayloadSizes
  BY SMT DEF PayloadSizes, DirectiveSizes
<1>4. \A n \in Segments : 6 + n \in PayloadSizes
  BY SMT DEF PayloadSizes, Segments
<1> QED
  BY <1>1, <1>2, <1>3, <1>4

LEMMA ZerosAreOctets ==
  ASSUME NEW n \in Nat
  PROVE  Zeros(n) \in Seq(Octet) /\ Len(Zeros(n)) = n
<1>1. 0 \in Octet
  BY DEF Octet
<1> QED
  BY <1>1 DEF Zeros

LEMMA BufferHolds ==
  ASSUME NEW c \in Seq(Octet), Len(c) \in PayloadSizes
  PROVE  Holds(Buffer(c), 1, c) /\ Len(Buffer(c)) = PayloadData_REQUIRED_BYTES
<1>1. PICK m : m = PayloadData_REQUIRED_BYTES - Len(c)
  OBVIOUS
<1>2. m \in Nat /\ Len(c) + m = PayloadData_REQUIRED_BYTES
  <2>1. Len(c) \in Nat /\ m \in Nat
    BY <1>1, PayloadSizeFacts, Zenon
  <2>2. \A k \in Nat : m = PayloadData_REQUIRED_BYTES - k => k + m = PayloadData_REQUIRED_BYTES
    BY <2>1 DEF PayloadData_REQUIRED_BYTES
  <2> QED  BY <1>1, <2>1, <2>2, Zenon
<1>3. PICK z : z = Zeros(m)
  OBVIOUS
<1>4. z \in Seq(Octet) /\ Len(z) = m
  BY <1>2, <1>3, ZerosAreOctets, Zenon
<1>5. IsChain2(c \o z, c, z)
  BY <1>4, Chain2, Zenon
<1>6. Buffer(c) = c \o z
  BY <1>1, <1>3, Zenon DEF Buffer
<1> QED
  BY <1>2, <1>4, <1>5, <1>6, Zenon DEF IsChain2

LEMMA TailHolds ==
  ASSUME NEW o, NEW b, Holds(o, 2, b), Len(o) > 1
  PROVE  Holds(Tail(o), 1, b)
<1>1. /\ o \in Seq(Octet) /\ b \in Seq(Octet)
      /\ 2 + Len(b) - 1 <= Len(o)
      /\ \A i \in 1 .. Len(b) : o[2 + i - 1] = b[i]
  BY DEF Holds
<1>2. PICK m \in Nat, n \in Nat, k \in Nat : m = Len(o) /\ k = Len(b) /\ n = m - 1
  <2>1. PICK m \in Nat, k \in Nat : m = Len(o) /\ k = Len(b)
    BY <1>1
  <2>2. m > 1
    BY <2>1
  <2>3. m - 1 \in Nat
    BY <2>2
  <2> QED  BY <2>1, <2>3, Zenon
<1>3. PICK t : t = Tail(o)
  OBVIOUS
<1>4. t \in Seq(Octet) /\ Len(t) = n /\ \A i \in 1 .. n : t[i] = o[i + 1]
  BY <1>1, <1>2, <1>3
<1>5. 1 + k - 1 <= n
  BY <1>1, <1>2
<1>6. \A i \in 1 .. k : i \in 1 .. n /\ 2 + i - 1 = i + 1 /\ 1 + i - 1 = i
  BY <1>5
<1>7. \A i \in 1 .. k : t[1 + i - 1] = b[i]
  BY <1>1, <1>2, <1>4, <1>6, Zenon
<1>8. 1 \in Nat \ {0}
  OBVIOUS
<1> QED
  BY <1>1, <1>2, <1>3, <1>4, <1>5, <1>7, <1>8, Zenon DEF Holds

\* A directive code and what follows it.
IsDirective(c, code, e) ==
  /\ c \in Seq(Octet) /\ Len(c) \in PayloadSizes
  /\ Buffer(c)[1] = code /\ Holds(Tail(Buffer(c)), 1, e)

LEMMA Directive ==
  ASSUME NEW code \in Octet, NEW e, NEW n \in DirectiveSizes, Written(e, n)
  PROVE  IsDirective(<<code>> \o e, code, e)
<1>1. PICK c : c = <<code>> \o e
  OBVIOUS
<1>2. e \in Seq(Octet) /\ Len(e) = n
  BY DEF Written
<1>3. <<code>> \in Seq(Octet) /\ Len(<<code>>) = 1
  BY OneOctet, Zenon
<1>4. IsChain2(c, <<code>>, e)
  BY <1>1, <1>2, <1>3, Chain2, Zenon
<1>5. /\ c \in Seq(Octet) /\ Len(c) = 1 + n
      /\ Holds(c, 1, <<code>>) /\ Holds(c, 1 + 1, e)
  BY <1>2, <1>3, <1>4, Zenon DEF IsChain2
<1>6. Len(c) \in PayloadSizes
  BY <1>5, PayloadSizeFacts, Zenon
<1>7. Holds(Buffer(c), 1, c) /\ Len(Buffer(c)) = PayloadData_REQUIRED_BYTES
  BY <1>5, <1>6, BufferHolds, Zenon
<1>8. Holds(Buffer(c), 1, <<code>>) /\ Holds(Buffer(c), 2, e)
  <2>1. 1 \in Nat \ {0} /\ 2 \in Nat \ {0} /\ 1 + 1 = 2
    OBVIOUS
  <2> QED  BY <1>5, <1>7, <2>1, HoldsPart, Zenon
<1>9. Buffer(c)[1] = code
  BY <1>8, HoldsOctet, Zenon
<1>10. Holds(Tail(Buffer(c)), 1, e)
  <2>1. PayloadData_REQUIRED_BYTES > 1
    BY DEF PayloadData_REQUIRED_BYTES
  <2>2. Len(Buffer(c)) > 1
    BY <1>7, <2>1, Zenon
  <2> QED  BY <1>8, <2>2, TailHolds, Zenon
<1> QED
  BY <1>1, <1>5, <1>6, <1>9, <1>10, Zenon DEF IsDirective


Directives(arr) ==
  CASE arr[1] = 4 -> CfdpPDU_Decode_eof_pdu(Tail(arr))
    [] arr[1] = 5 -> CfdpPDU_Decode_finished_pdu(Tail(arr))
    [] arr[1] = 6 -> CfdpPDU_Decode_ack_pdu(Tail(arr))
    [] arr[1] = 7 -> CfdpPDU_Decode_metadata_pdu(Tail(arr))
    [] OTHER -> {}

LEMMA FromBuffer ==
  ASSUME NEW type, NEW c
  PROVE  CfdpPDU_Decode_payload(type, c) =
           IF type = 1 THEN FileDataPDU_ACN_Decode(Buffer(c)) ELSE Directives(Buffer(c))
BY Zenon DEF CfdpPDU_Decode_payload, Buffer, Directives

LEMMA DirectiveDecoded ==
  ASSUME NEW c, NEW code, NEW e, IsDirective(c, code, e)
  PROVE  \E rest :
           /\ Holds(rest, 1, e)
           /\ code = 4 => CfdpPDU_Decode_payload(0, c) = EofPDU_ACN_Decode(rest)
           /\ code = 5 => CfdpPDU_Decode_payload(0, c) = FinishedPDU_ACN_Decode(rest)
           /\ code = 6 => CfdpPDU_Decode_payload(0, c) = AckPDU_ACN_Decode(rest)
           /\ code = 7 => CfdpPDU_Decode_payload(0, c) = MetadataPDU_ACN_Decode(rest)
<1>1. PICK arr : arr = Buffer(c)
  OBVIOUS
<1>2. PICK rest : rest = Tail(arr)
  OBVIOUS
<1>3. arr[1] = code /\ Holds(rest, 1, e)
  BY <1>1, <1>2, Zenon DEF IsDirective
<1>4. CfdpPDU_Decode_payload(0, c) = Directives(arr)
  <2>1. 0 # 1
    OBVIOUS
  <2> QED  BY <1>1, <2>1, FromBuffer, Zenon
<1>5. /\ code = 4 => Directives(arr) = EofPDU_ACN_Decode(rest)
      /\ code = 5 => Directives(arr) = FinishedPDU_ACN_Decode(rest)
      /\ code = 6 => Directives(arr) = AckPDU_ACN_Decode(rest)
      /\ code = 7 => Directives(arr) = MetadataPDU_ACN_Decode(rest)
  BY <1>2, <1>3
     DEF Directives, CfdpPDU_Decode_eof_pdu, CfdpPDU_Decode_finished_pdu,
         CfdpPDU_Decode_ack_pdu, CfdpPDU_Decode_metadata_pdu
<1> QED
  BY <1>3, <1>4, <1>5, Zenon

\* What the payload says of a PDU survives the encoder and the decoder.
PayloadIsRead(p) ==
  /\ CfdpPDU_Encode_payload(p) \in Seq(Octet)
  /\ Len(CfdpPDU_Encode_payload(p)) \in PayloadSizes
  /\ CfdpPDU_Decode_payload(PduType(p.kind), CfdpPDU_Encode_payload(p)) = {p}

LEMMA EofIsRead ==
  ASSUME NEW p \in cfdpEofPDU
  PROVE  PayloadIsRead(p)
<1>1. p.kind = "eof_pdu"
  BY DEF cfdpEofPDU
<1>2. PICK e, n : e = EofPDU_ACN_Encode(p) /\ n = 9
  OBVIOUS
<1>3. Written(e, n) /\ \A o : Holds(o, 1, e) => EofPDU_ACN_Decode(o) = {p}
  BY <1>2, EofRead, Zenon
<1>4. PICK c : c = CfdpPDU_Encode_payload(p)
  OBVIOUS
<1>5. c = <<4>> \o e
  <2>1. c = <<4>> \o CfdpPDU_Encode_eof_pdu(p)
    BY <1>1, <1>4 DEF CfdpPDU_Encode_payload, CfdpPDU_directive_code
  <2> QED  BY <1>2, <2>1, Zenon DEF CfdpPDU_Encode_eof_pdu
<1>6. IsDirective(c, 4, e)
  <2>1. 4 \in Octet
    BY DEF Octet
  <2>2. n \in DirectiveSizes
    BY <1>2 DEF DirectiveSizes
  <2> QED  BY <1>3, <1>5, <2>1, <2>2, Directive, Zenon
<1>7. PICK rest : Holds(rest, 1, e) /\ CfdpPDU_Decode_payload(0, c) = EofPDU_ACN_Decode(rest)
  BY <1>6, DirectiveDecoded, Zenon
<1>8. PduType(p.kind) = 0
  BY <1>1 DEF PduType
<1> QED
  BY <1>3, <1>4, <1>6, <1>7, <1>8, Zenon DEF IsDirective, PayloadIsRead

LEMMA FinishedIsRead ==
  ASSUME NEW p \in cfdpFinishedPDU
  PROVE  PayloadIsRead(p)
<1>1. p.kind = "finished_pdu"
  BY DEF cfdpFinishedPDU
<1>2. PICK e, n : e = FinishedPDU_ACN_Encode(p) /\ n = 1
  OBVIOUS
<1>3. Written(e, n) /\ \A o : Holds(o, 1, e) => FinishedPDU_ACN_Decode(o) = {p}
  BY <1>2, FinishedRead, Zenon
<1>4. PICK c : c = CfdpPDU_Encode_payload(p)
  OBVIOUS
<1>5. c = <<5>> \o e
  <2>1. c = <<5>> \o CfdpPDU_Encode_finished_pdu(p)
    BY <1>1, <1>4 DEF CfdpPDU_Encode_payload, CfdpPDU_directive_code
  <2> QED  BY <1>2, <2>1, Zenon DEF CfdpPDU_Encode_finished_pdu
<1>6. IsDirective(c, 5, e)
  <2>1. 5 \in Octet
    BY DEF Octet
  <2>2. n \in DirectiveSizes
    BY <1>2 DEF DirectiveSizes
  <2> QED  BY <1>3, <1>5, <2>1, <2>2, Directive, Zenon
<1>7. PICK rest : Holds(rest, 1, e) /\ CfdpPDU_Decode_payload(0, c) = FinishedPDU_ACN_Decode(rest)
  BY <1>6, DirectiveDecoded, Zenon
<1>8. PduType(p.kind) = 0
  BY <1>1 DEF PduType
<1> QED
  BY <1>3, <1>4, <1>6, <1>7, <1>8, Zenon DEF IsDirective, PayloadIsRead

LEMMA AckIsRead ==
  ASSUME NEW p \in cfdpAckPDU
  PROVE  PayloadIsRead(p)
<1>1. p.kind = "ack_pdu"
  BY DEF cfdpAckPDU
<1>2. PICK e, n : e = AckPDU_ACN_Encode(p) /\ n = 3
  OBVIOUS
<1>3. Written(e, n) /\ \A o : Holds(o, 1, e) => AckPDU_ACN_Decode(o) = {p}
  BY <1>2, AckRead, Zenon
<1>4. PICK c : c = CfdpPDU_Encode_payload(p)
  OBVIOUS
<1>5. c = <<6>> \o e
  <2>1. c = <<6>> \o CfdpPDU_Encode_ack_pdu(p)
    BY <1>1, <1>4 DEF CfdpPDU_Encode_payload, CfdpPDU_directive_code
  <2> QED  BY <1>2, <2>1, Zenon DEF CfdpPDU_Encode_ack_pdu
<1>6. IsDirective(c, 6, e)
  <2>1. 6 \in Octet
    BY DEF Octet
  <2>2. n \in DirectiveSizes
    BY <1>2 DEF DirectiveSizes
  <2> QED  BY <1>3, <1>5, <2>1, <2>2, Directive, Zenon
<1>7. PICK rest : Holds(rest, 1, e) /\ CfdpPDU_Decode_payload(0, c) = AckPDU_ACN_Decode(rest)
  BY <1>6, DirectiveDecoded, Zenon
<1>8. PduType(p.kind) = 0
  BY <1>1 DEF PduType
<1> QED
  BY <1>3, <1>4, <1>6, <1>7, <1>8, Zenon DEF IsDirective, PayloadIsRead

LEMMA MetadataIsRead ==
  ASSUME NEW p \in cfdpMetadataPDU, MetadataPDU_IsConstraintValid(p)
  PROVE  PayloadIsRead(p)
<1>1. p.kind = "metadata_pdu"
  BY DEF cfdpMetadataPDU
<1>2. PICK e, n : e = MetadataPDU_ACN_Encode(p) /\ n = 7 + Len(p.source_file_name) + Len(p.destination_file_name)
  OBVIOUS
<1>3. Written(e, n) /\ \A o : Holds(o, 1, e) => MetadataPDU_ACN_Decode(o) = {p}
  BY <1>2, MetadataRead, Zenon
<1>4. PICK c : c = CfdpPDU_Encode_payload(p)
  OBVIOUS
<1>5. c = <<7>> \o e
  <2>1. c = <<7>> \o CfdpPDU_Encode_metadata_pdu(p)
    BY <1>1, <1>4 DEF CfdpPDU_Encode_payload, CfdpPDU_directive_code
  <2> QED  BY <1>2, <2>1, Zenon DEF CfdpPDU_Encode_metadata_pdu
<1>6. IsDirective(c, 7, e)
  <2>1. 7 \in Octet
    BY DEF Octet
  <2>2. n \in DirectiveSizes
    <3>1. p.source_file_name \in Seq(Octet) /\ p.destination_file_name \in Seq(Octet)
      BY DEF cfdpMetadataPDU
    <3>2. /\ Len(p.source_file_name) \in NameSizes
          /\ Len(p.destination_file_name) \in NameSizes
      BY <3>1, NameFits, Zenon DEF MetadataPDU_IsConstraintValid
    <3>3. \A i, j \in NameSizes : 7 + i + j \in DirectiveSizes
      BY DEF NameSizes, DirectiveSizes
    <3> QED  BY <1>2, <3>2, <3>3, Zenon
  <2> QED  BY <1>3, <1>5, <2>1, <2>2, Directive, Zenon
<1>7. PICK rest : Holds(rest, 1, e) /\ CfdpPDU_Decode_payload(0, c) = MetadataPDU_ACN_Decode(rest)
  BY <1>6, DirectiveDecoded, Zenon
<1>8. PduType(p.kind) = 0
  BY <1>1 DEF PduType
<1> QED
  BY <1>3, <1>4, <1>6, <1>7, <1>8, Zenon DEF IsDirective, PayloadIsRead

LEMMA FileDataIsRead ==
  ASSUME NEW p \in cfdpFileDataPDU, FileDataPDU_IsConstraintValid(p)
  PROVE  PayloadIsRead(p)
<1>1. p.kind = "file_data_pdu"
  BY DEF cfdpFileDataPDU
<1>2. PICK c : c = CfdpPDU_Encode_payload(p)
  OBVIOUS
<1>3. c = FileDataPDU_ACN_Encode(p)
  BY <1>1, <1>2 DEF CfdpPDU_Encode_payload
<1>4. /\ Written(c, 6 + Len(p.file_data))
      /\ \A o : Holds(o, 1, c) => FileDataPDU_ACN_Decode(o) = {p}
  BY <1>3, FileDataRead, Zenon
<1>5. c \in Seq(Octet) /\ Len(c) \in PayloadSizes
  BY <1>4, SegmentFits, PayloadSizeFacts, Zenon DEF Written
<1>6. FileDataPDU_ACN_Decode(Buffer(c)) = {p}
  BY <1>4, <1>5, BufferHolds, Zenon
<1>7. PduType(p.kind) = 1
  BY <1>1 DEF PduType
<1> QED
  BY <1>2, <1>5, <1>6, <1>7, FromBuffer, Zenon DEF PayloadIsRead

LEMMA PayloadRead ==
  ASSUME NEW p \in cfdpPayloadData, PayloadData_IsConstraintValid(p)
  PROVE  PayloadIsRead(p)
<1>1. CASE p \in cfdpEofPDU
  BY <1>1, EofIsRead, Zenon
<1>2. CASE p \in cfdpFinishedPDU
  BY <1>2, FinishedIsRead, Zenon
<1>3. CASE p \in cfdpAckPDU
  BY <1>3, AckIsRead, Zenon
<1>4. CASE p \in cfdpMetadataPDU
  <2>1. p.kind = "metadata_pdu"
    BY <1>4 DEF cfdpMetadataPDU
  <2>2. MetadataPDU_IsConstraintValid(p)
    BY <2>1 DEF PayloadData_IsConstraintValid, FileDirectivePDU_IsConstraintValid
  <2> QED  BY <1>4, <2>2, MetadataIsRead, Zenon
<1>5. CASE p \in cfdpFileDataPDU
  <2>1. p.kind = "file_data_pdu"
    BY <1>5 DEF cfdpFileDataPDU
  <2>2. FileDataPDU_IsConstraintValid(p)
    BY <2>1 DEF PayloadData_IsConstraintValid
  <2> QED  BY <1>5, <2>2, FileDataIsRead, Zenon
<1> QED
  BY <1>1, <1>2, <1>3, <1>4, <1>5, Zenon DEF cfdpPayloadData

-----------------------------------------------------------------------------
(* The PDU. *)

IdSizes == 1 .. 7

IsCut(o, at, k, b) == Slice(o, at, k) = b

LEMMA HoldsCut ==
  ASSUME NEW o, NEW at, NEW b, Holds(o, at, b), NEW k, k = Len(b)
  PROVE  IsCut(o, at, k, b)
BY HoldsSlice, Zenon DEF IsCut

\* The enumerations of the header, and the two octets that its flags and the
\* lengths of its identifiers share.
FlagsAreRead(o, h, kind) ==
  /\ o \in Octet /\ Bits(o, 0, 3) = h.version /\ Bits(o, 3, 1) = PduType(kind)
  /\ Direction_ACN_Decode[Bits(o, 4, 1)] = h.direction
  /\ TransmissionMode_ACN_Decode[Bits(o, 5, 1)] = h.transmission_mode
  /\ CRCFlag_ACN_Decode[Bits(o, 6, 1)] = h.crc_flag
  /\ Bits(o, 7, 1) = 0
  /\ (o \div 16) % 2 = PduType(kind)

LengthsAreRead(o, h) ==
  /\ o \in Octet /\ Bits(o, 0, 1) = 0 /\ Bits(o, 4, 1) = 0
  /\ cfdp_entity_len_decode(Bits(o, 1, 3)) = Len(h.source_entity_id)
  /\ cfdp_entity_len_decode(Bits(o, 5, 3)) = Len(h.transaction_sequence_number)
  /\ ((o \div 16) % 8) + 1 = Len(h.source_entity_id)
  /\ (o % 8) + 1 = Len(h.transaction_sequence_number)

LEMMA HeaderFlags ==
  ASSUME NEW h \in cfdpPDUHeader, NEW kind, NEW o, o = CfdpPDU_Encode_flags(h, kind)
  PROVE  FlagsAreRead(o, h, kind)
<1>1. /\ h.version \in 0 .. 7 /\ h.direction \in DOMAIN Direction_ACN_Encode
      /\ h.transmission_mode \in DOMAIN TransmissionMode_ACN_Encode
      /\ h.crc_flag \in DOMAIN CRCFlag_ACN_Encode
  BY DEF cfdpPDUHeader
<1>2. PICK v, t, d, m, c :
        /\ v = h.version /\ t = PduType(kind) /\ d = Direction_ACN_Encode[h.direction]
        /\ m = TransmissionMode_ACN_Encode[h.transmission_mode]
        /\ c = CRCFlag_ACN_Encode[h.crc_flag]
  OBVIOUS
<1>3. /\ d \in 0 .. 1 /\ Direction_ACN_Decode[d] = h.direction
      /\ m \in 0 .. 1 /\ TransmissionMode_ACN_Decode[m] = h.transmission_mode
      /\ c \in 0 .. 1 /\ CRCFlag_ACN_Decode[c] = h.crc_flag
  BY <1>1, <1>2, Flags, Zenon
<1>4. v \in 0 .. 7 /\ t \in 0 .. 1
  BY <1>1, <1>2 DEF PduType
<1>5. OfFlags(o, v, t, d, m, c)
  BY <1>2, Zenon DEF OfFlags, CfdpPDU_Encode_flags, PduType
<1>6. d \in 0 .. 1 /\ m \in 0 .. 1 /\ c \in 0 .. 1
  BY <1>3
<1>7. /\ o \in Octet
      /\ Bits(o, 0, 3) = v /\ Bits(o, 3, 1) = t /\ Bits(o, 4, 1) = d
      /\ Bits(o, 5, 1) = m /\ Bits(o, 6, 1) = c /\ Bits(o, 7, 1) = 0
      /\ (o \div 16) % 2 = t
  BY <1>4, <1>5, <1>6, FlagsOctet, SMTT(20)
<1> QED
  BY <1>2, <1>3, <1>7, Zenon DEF FlagsAreRead

LEMMA HeaderLengths ==
  ASSUME NEW h, Len(h.source_entity_id) \in IdSizes,
         Len(h.transaction_sequence_number) \in IdSizes,
         NEW o, o = CfdpPDU_Encode_lengths(h)
  PROVE  LengthsAreRead(o, h)
<1>1. PICK k, n : k = Len(h.source_entity_id) /\ n = Len(h.transaction_sequence_number)
  OBVIOUS
<1>2. k \in 1 .. 7 /\ n \in 1 .. 7
  BY <1>1, Zenon DEF IdSizes
<1>3. OfLengths(o, k, n)
  BY <1>1, Zenon DEF OfLengths, CfdpPDU_Encode_lengths
<1>4. /\ o \in Octet /\ Bits(o, 0, 1) = 0 /\ Bits(o, 4, 1) = 0
      /\ cfdp_entity_len_decode(Bits(o, 1, 3)) = k
      /\ cfdp_entity_len_decode(Bits(o, 5, 3)) = n
      /\ ((o \div 16) % 8) + 1 = k /\ (o % 8) + 1 = n
  BY <1>2, <1>3, LengthsOctet, SMTT(20)
<1> QED
  BY <1>1, <1>4, Zenon DEF LengthsAreRead

\* The octets of a PDU whose payload is written as p.
PduParts(c, pdu, k, n, p) ==
  LET h == pdu.pdu_header
  IN  /\ c \in Seq(Octet) /\ Len(c) = 4 + 2 * k + n + Len(p)
      /\ k \in IdSizes /\ n \in IdSizes /\ Len(p) \in PayloadSizes
      /\ k = Len(h.source_entity_id) /\ n = Len(h.transaction_sequence_number)
      /\ k = Len(h.destination_entity_id)
      /\ Holds(c, 1, <<CfdpPDU_Encode_flags(h, pdu.payload.kind)>>)
      /\ Holds(c, 2, BigEndian(Len(p), 2))
      /\ Holds(c, 4, <<CfdpPDU_Encode_lengths(h)>>)
      /\ Holds(c, 5, h.source_entity_id)
      /\ Holds(c, 5 + k, h.transaction_sequence_number)
      /\ Holds(c, 5 + k + n, h.destination_entity_id)
      /\ Holds(c, 5 + 2 * k + n, p)

LEMMA EncodedPdu ==
  ASSUME NEW pdu \in cfdpCfdpPDU, NEW c \in CfdpPDU_ACN_Encode(pdu)
  PROVE  /\ CfdpPDU_IsConstraintValid(pdu) /\ CfdpPDU_EqualIdLengths(pdu.pdu_header)
         /\ PayloadIsRead(pdu.payload)
         /\ \E k, n : PduParts(c, pdu, k, n, CfdpPDU_Encode_payload(pdu.payload))
<1>1. PICK h, p : h = pdu.pdu_header /\ p = CfdpPDU_Encode_payload(pdu.payload)
  OBVIOUS
<1>2. PICK s, q, d : s = h.source_entity_id /\ q = h.transaction_sequence_number
                     /\ d = h.destination_entity_id
  OBVIOUS
<1>3. PICK k, n : k = Len(s) /\ n = Len(q)
  OBVIOUS
<1>4. PICK f, l, b : /\ f = CfdpPDU_Encode_flags(h, pdu.payload.kind)
                     /\ l = CfdpPDU_Encode_lengths(h) /\ b = BigEndian(Len(p), 2)
  OBVIOUS
<1>5. /\ CfdpPDU_IsConstraintValid(pdu) /\ CfdpPDU_EqualIdLengths(h)
      /\ c = <<f>> \o b \o <<l>> \o s \o q \o d \o p
  <2>1. CfdpPDU_IsConstraintValid(pdu) /\ CfdpPDU_EqualIdLengths(h)
    BY <1>1, Zenon DEF CfdpPDU_ACN_Encode
  <2>2. CfdpPDU_ACN_Encode(pdu) = {<<f>> \o b \o <<l>> \o s \o q \o d \o p}
    BY <1>1, <1>2, <1>4, <2>1, Zenon DEF CfdpPDU_ACN_Encode
  <2> QED  BY <2>1, <2>2, Zenon
<1>6. h \in cfdpPDUHeader /\ pdu.payload \in cfdpPayloadData
  BY <1>1 DEF cfdpCfdpPDU
<1>7. s \in Seq(Octet) /\ q \in Seq(Octet) /\ d \in Seq(Octet)
  BY <1>2, <1>6 DEF cfdpPDUHeader
<1>8. PayloadIsRead(pdu.payload)
  BY <1>5, <1>6, PayloadRead, Zenon DEF CfdpPDU_IsConstraintValid
<1>9. p \in Seq(Octet) /\ Len(p) \in PayloadSizes
  BY <1>1, <1>8, Zenon DEF PayloadIsRead
<1>10. /\ k \in IdSizes /\ n \in IdSizes /\ k = Len(d)
       /\ k \in Nat /\ n \in Nat
  <2>1. k \in 1 .. 7 /\ n \in 1 .. 7 /\ k = Len(d)
    BY <1>1, <1>2, <1>3, <1>5, Zenon
       DEF CfdpPDU_IsConstraintValid, PDUHeader_IsConstraintValid, EntityId_IsConstraintValid,
           TransactionSequenceNumber_IsConstraintValid, CfdpPDU_EqualIdLengths
  <2> QED  BY <2>1 DEF IdSizes
<1>11. f \in Octet
  BY <1>4, <1>6, HeaderFlags, Zenon DEF FlagsAreRead
<1>12. l \in Octet
  BY <1>2, <1>3, <1>4, <1>10, HeaderLengths, Zenon DEF LengthsAreRead
<1>13. PICK m : m = Len(p)
  OBVIOUS
<1>14. m \in PayloadSizes /\ m \in Nat /\ m < 256^2
  BY <1>9, <1>13, PayloadSizeFacts, Zenon
<1>15. b \in Seq(Octet) /\ Len(b) = 2
  BY <1>4, <1>13, <1>14, Uint16Read, Zenon
<1>16. /\ <<f>> \in Seq(Octet) /\ Len(<<f>>) = 1
       /\ <<l>> \in Seq(Octet) /\ Len(<<l>>) = 1
  BY <1>11, <1>12, OneOctet, Zenon
<1>17. IsChain7(c, <<f>>, b, <<l>>, s, q, d, p)
  BY <1>5, <1>7, <1>9, <1>15, <1>16, Chain7, Zenon
<1>18. /\ c \in Seq(Octet) /\ Len(c) = 4 + 2 * k + n + m
       /\ Holds(c, 1, <<f>>) /\ Holds(c, 2, b) /\ Holds(c, 4, <<l>>)
       /\ Holds(c, 5, s) /\ Holds(c, 5 + k, q) /\ Holds(c, 5 + k + n, d)
       /\ Holds(c, 5 + 2 * k + n, p)
  <2>1. /\ c \in Seq(Octet) /\ Len(c) = 1 + 2 + 1 + k + n + k + m
        /\ Holds(c, 1, <<f>>) /\ Holds(c, 1 + 1, b) /\ Holds(c, 1 + 2 + 1, <<l>>)
        /\ Holds(c, 1 + 2 + 1 + 1, s) /\ Holds(c, 1 + 2 + 1 + k + 1, q)
        /\ Holds(c, 1 + 2 + 1 + k + n + 1, d) /\ Holds(c, 1 + 2 + 1 + k + n + k + 1, p)
    BY <1>3, <1>10, <1>13, <1>15, <1>16, <1>17, Zenon DEF IsChain7
  <2>2. /\ 1 + 2 + 1 + k + n + k + m = 4 + 2 * k + n + m
        /\ 1 + 1 = 2 /\ 1 + 2 + 1 = 4 /\ 1 + 2 + 1 + 1 = 5
        /\ 1 + 2 + 1 + k + 1 = 5 + k /\ 1 + 2 + 1 + k + n + 1 = 5 + k + n
        /\ 1 + 2 + 1 + k + n + k + 1 = 5 + 2 * k + n
    BY <1>10, <1>14
  <2> QED  BY <2>1, <2>2, Zenon
<1>19. PduParts(c, pdu, k, n, p)
  BY <1>1, <1>2, <1>3, <1>4, <1>10, <1>13, <1>14, <1>18, Zenon DEF PduParts
<1> QED
  BY <1>1, <1>5, <1>8, <1>19, Zenon

LaidOut(l, pdu, k, n, p, o, c) ==
  /\ l.pdu_type = PduType(pdu.payload.kind)
  /\ l.pdu_data_field_length = Len(p)
  /\ l.length_of_entity_ids = k
  /\ l.length_of_transaction_sequence_number = n
  /\ l.number_at = 5 + k /\ l.destination_at = 5 + k + n
  /\ l.payload_at = 5 + 2 * k + n
  /\ Len(o) >= Len(c) /\ Len(o) \in Nat

\* The layout that the fixed part of a PDU gives.
LEMMA PduLayout ==
  ASSUME NEW pdu \in cfdpCfdpPDU, NEW c, NEW k, NEW n, NEW p, PduParts(c, pdu, k, n, p),
         NEW o, Holds(o, 1, c)
  PROVE  LaidOut(CfdpPDU_Layout(o), pdu, k, n, p, o, c)
<1>1. PICK h : h = pdu.pdu_header
  OBVIOUS
<1>2. PICK f, l, b : /\ f = CfdpPDU_Encode_flags(h, pdu.payload.kind)
                     /\ l = CfdpPDU_Encode_lengths(h) /\ b = BigEndian(Len(p), 2)
  OBVIOUS
<1>3. /\ c \in Seq(Octet)
      /\ k \in IdSizes /\ n \in IdSizes /\ Len(p) \in PayloadSizes
      /\ k = Len(h.source_entity_id) /\ n = Len(h.transaction_sequence_number)
      /\ Holds(c, 1, <<f>>) /\ Holds(c, 2, b) /\ Holds(c, 4, <<l>>)
  BY <1>1, <1>2, Zenon DEF PduParts
<1>4. h \in cfdpPDUHeader
  BY <1>1 DEF cfdpCfdpPDU
<1>5. Bits(f, 3, 1) = PduType(pdu.payload.kind)
  <2>1. FlagsAreRead(f, h, pdu.payload.kind)
    BY <1>2, <1>4, HeaderFlags, Zenon
  <2> QED  BY <2>1, Zenon DEF FlagsAreRead
<1>6. /\ cfdp_entity_len_decode(Bits(l, 1, 3)) = k
      /\ cfdp_entity_len_decode(Bits(l, 5, 3)) = n
  <2>1. LengthsAreRead(l, h)
    BY <1>2, <1>3, HeaderLengths, Zenon
  <2> QED  BY <1>3, <2>1, Zenon DEF LengthsAreRead
<1>7. Len(b) = 2 /\ Unsigned(b) = Len(p)
  <2>1. Len(p) \in Nat /\ Len(p) < 256^2
    BY <1>3, PayloadSizeFacts, Zenon
  <2> QED  BY <1>2, <2>1, Uint16Read, Zenon
<1>8. Holds(o, 1, <<f>>) /\ Holds(o, 2, b) /\ Holds(o, 4, <<l>>)
  <2>1. 1 \in Nat \ {0} /\ 2 \in Nat \ {0} /\ 4 \in Nat \ {0}
    OBVIOUS
  <2> QED  BY <1>3, <2>1, HoldsPart, Zenon
<1>9. o[1] = f /\ o[4] = l /\ Slice(o, 2, 2) = b
  BY <1>7, <1>8, HoldsOctet, HoldsSlice, Zenon
<1>10. Len(o) >= Len(c) /\ Len(o) \in Nat
  <2>1. o \in Seq(Octet) /\ c \in Seq(Octet) /\ 1 + Len(c) - 1 <= Len(o)
    BY Zenon DEF Holds
  <2>2. PICK i \in Nat, j \in Nat : i = Len(o) /\ j = Len(c)
    BY <2>1
  <2>3. 1 + j - 1 <= i => i >= j
    BY <2>2
  <2> QED  BY <2>1, <2>2, <2>3, Zenon
<1>11. CfdpPDU_Layout(o) =
         [pdu_type |-> PduType(pdu.payload.kind), pdu_data_field_length |-> Len(p),
          length_of_entity_ids |-> k, length_of_transaction_sequence_number |-> n,
          number_at |-> 5 + k, destination_at |-> 5 + k + n,
          payload_at |-> 5 + 2 * k + n]
  BY <1>5, <1>6, <1>7, <1>9, Zenon DEF CfdpPDU_Layout
<1> QED
  BY <1>10, <1>11 DEF LaidOut

\* cfdpCfdpPDU_ACN_Decode returns the PDU that cfdpCfdpPDU_ACN_Encode was given,
\* for every PDU that the encoder does not refuse and whatever stands behind it:
\* the messages to the user, for a Metadata PDU.
THEOREM PduRead ==
  ASSUME NEW pdu \in cfdpCfdpPDU, NEW c \in CfdpPDU_ACN_Encode(pdu),
         NEW o, Holds(o, 1, c)
  PROVE  CfdpPDU_ACN_Decode(o) = {pdu}
<1>1. PICK h, p : h = pdu.pdu_header /\ p = CfdpPDU_Encode_payload(pdu.payload)
  OBVIOUS
<1>2. /\ CfdpPDU_IsConstraintValid(pdu)
      /\ PayloadIsRead(pdu.payload)
      /\ \E k, n : PduParts(c, pdu, k, n, p)
  BY <1>1, EncodedPdu, Zenon
<1>3. PICK k, n : PduParts(c, pdu, k, n, p)
  BY <1>2
<1>4. PICK l : l = CfdpPDU_Layout(o)
  OBVIOUS
<1>5. /\ l.pdu_type = PduType(pdu.payload.kind)
      /\ l.pdu_data_field_length = Len(p)
      /\ l.length_of_entity_ids = k
      /\ l.length_of_transaction_sequence_number = n
      /\ l.number_at = 5 + k /\ l.destination_at = 5 + k + n
      /\ l.payload_at = 5 + 2 * k + n
      /\ Len(o) >= Len(c) /\ Len(o) \in Nat
  <2>1. LaidOut(l, pdu, k, n, p, o, c)
    BY <1>3, <1>4, PduLayout, Zenon
  <2> QED  BY <2>1, Zenon DEF LaidOut
<1>6. PICK f, e : /\ f = CfdpPDU_Encode_flags(h, pdu.payload.kind)
                  /\ e = CfdpPDU_Encode_lengths(h)
  OBVIOUS
<1>7. /\ Len(c) = 4 + 2 * k + n + Len(p)
      /\ k \in IdSizes /\ n \in IdSizes /\ Len(p) \in PayloadSizes
      /\ k = Len(h.source_entity_id) /\ n = Len(h.transaction_sequence_number)
      /\ k = Len(h.destination_entity_id)
      /\ Holds(c, 1, <<f>>) /\ Holds(c, 4, <<e>>)
      /\ Holds(c, 5, h.source_entity_id)
      /\ Holds(c, 5 + k, h.transaction_sequence_number)
      /\ Holds(c, 5 + k + n, h.destination_entity_id)
      /\ Holds(c, 5 + 2 * k + n, p)
  BY <1>1, <1>3, <1>6, Zenon DEF PduParts
<1>8. k \in Nat /\ n \in Nat /\ k \in 1 .. 7 /\ n \in 1 .. 7
  BY <1>7 DEF IdSizes
<1>9. h \in cfdpPDUHeader
  BY <1>1 DEF cfdpCfdpPDU
<1>10. /\ Holds(o, 1, <<f>>) /\ Holds(o, 4, <<e>>)
       /\ Holds(o, 5, h.source_entity_id)
       /\ Holds(o, 5 + k, h.transaction_sequence_number)
       /\ Holds(o, 5 + k + n, h.destination_entity_id)
       /\ Holds(o, 5 + 2 * k + n, p)
  <2>1. /\ 1 \in Nat \ {0} /\ 4 \in Nat \ {0} /\ 5 \in Nat \ {0} /\ 5 + k \in Nat \ {0}
        /\ 5 + k + n \in Nat \ {0} /\ 5 + 2 * k + n \in Nat \ {0}
    BY <1>8
  <2> QED  BY <1>7, <2>1, HoldsPart, Zenon
<1>11. /\ o[1] = f /\ o[4] = e
       /\ Slice(o, 5, k) = h.source_entity_id
       /\ Slice(o, 5 + k, n) = h.transaction_sequence_number
       /\ Slice(o, 5 + k + n, k) = h.destination_entity_id
       /\ Slice(o, 5 + 2 * k + n, Len(p)) = p
  <2>1. o[1] = f /\ o[4] = e
    BY <1>10, HoldsOctet, Zenon
  <2>2. IsCut(o, 5, k, h.source_entity_id)
    BY <1>7, <1>10, HoldsCut, Zenon
  <2>3. IsCut(o, 5 + k, n, h.transaction_sequence_number)
    BY <1>7, <1>10, HoldsCut, Zenon
  <2>4. IsCut(o, 5 + k + n, k, h.destination_entity_id)
    BY <1>7, <1>10, HoldsCut, Zenon
  <2>5. Slice(o, 5 + 2 * k + n, Len(p)) = p
    BY <1>10, HoldsSlice, Zenon
  <2> QED  BY <2>1, <2>2, <2>3, <2>4, <2>5, Zenon DEF IsCut
<1>12. /\ Bits(f, 0, 3) = h.version
       /\ Direction_ACN_Decode[Bits(f, 4, 1)] = h.direction
       /\ TransmissionMode_ACN_Decode[Bits(f, 5, 1)] = h.transmission_mode
       /\ CRCFlag_ACN_Decode[Bits(f, 6, 1)] = h.crc_flag
       /\ Bits(f, 7, 1) = 0
  <2>1. FlagsAreRead(f, h, pdu.payload.kind)
    BY <1>6, <1>9, HeaderFlags, Zenon
  <2> QED  BY <2>1, Zenon DEF FlagsAreRead
<1>13. Bits(e, 0, 1) = 0 /\ Bits(e, 4, 1) = 0
  <2>1. LengthsAreRead(e, h)
    BY <1>6, <1>7, HeaderLengths, Zenon
  <2> QED  BY <2>1, Zenon DEF LengthsAreRead
<1>14. CfdpPDU_Decode_accepts(o)
  <2>1. PICK m : m = Len(p)
    OBVIOUS
  <2>2. m \in Nat /\ m <= PayloadData_REQUIRED_BYTES
    BY <1>7, <2>1, PayloadSizeFacts, Zenon
  <2>3. PICK i \in Nat : i = Len(o)
    BY <1>5
  <2>4. i >= 4 + 2 * k + n + m
    BY <1>5, <1>7, <2>1, <2>3, Zenon
  <2>5. i >= 4 /\ 5 + 2 * k + n + m - 1 <= i
    BY <1>8, <2>2, <2>4
  <2>6. Len(o) >= 4 /\ 5 + 2 * k + n + Len(p) - 1 <= Len(o)
    BY <2>1, <2>3, <2>5, Zenon
  <2> QED
    BY <1>4, <1>5, <1>8, <1>11, <1>12, <1>13, <2>1, <2>2, <2>6, Zenon DEF CfdpPDU_Decode_accepts
<1>15. CfdpPDU_Decode_pdu_header(o) = h
  <2>1. CfdpPDU_Decode_pdu_header(o) =
          [version |-> h.version, direction |-> h.direction,
           transmission_mode |-> h.transmission_mode, crc_flag |-> h.crc_flag,
           source_entity_id |-> h.source_entity_id,
           transaction_sequence_number |-> h.transaction_sequence_number,
           destination_entity_id |-> h.destination_entity_id]
    BY <1>4, <1>5, <1>11, <1>12, Zenon DEF CfdpPDU_Decode_pdu_header
  <2>2. h = [version |-> h.version, direction |-> h.direction,
             transmission_mode |-> h.transmission_mode, crc_flag |-> h.crc_flag,
             source_entity_id |-> h.source_entity_id,
             transaction_sequence_number |-> h.transaction_sequence_number,
             destination_entity_id |-> h.destination_entity_id]
    BY <1>9 DEF cfdpPDUHeader
  <2> QED  BY <2>1, <2>2, Zenon
<1>16. CfdpPDU_Decode_payload(l.pdu_type, Slice(o, l.payload_at, l.pdu_data_field_length))
         = {pdu.payload}
  BY <1>1, <1>2, <1>5, <1>11, Zenon DEF PayloadIsRead
<1>17. CfdpPDU_ACN_Decode(o) =
         {x \in {[pdu_header |-> CfdpPDU_Decode_pdu_header(o), payload |-> y] :
                   y \in CfdpPDU_Decode_payload(
                           l.pdu_type, Slice(o, l.payload_at, l.pdu_data_field_length))} :
            CfdpPDU_IsConstraintValid(x)}
  BY <1>4, <1>14, Zenon DEF CfdpPDU_ACN_Decode
<1>18. pdu = [pdu_header |-> h, payload |-> pdu.payload]
  BY <1>1 DEF cfdpCfdpPDU
<1>19. {[pdu_header |-> h, payload |-> y] : y \in {pdu.payload}} = {pdu}
  BY <1>18
<1>20. {x \in {pdu} : CfdpPDU_IsConstraintValid(x)} = {pdu}
  BY <1>2
<1> QED
  BY <1>15, <1>16, <1>17, <1>19, <1>20, Zenon

-----------------------------------------------------------------------------
(* The determinant that the encoder writes. *)

LEMMA TwoOctets ==
  ASSUME NEW v \in Nat
  PROVE  /\ BigEndian(v, 2)[1] = (v \div 256) % 256
         /\ BigEndian(v, 2)[2] = v % 256
<1>1. PICK pw : IsPowers(pw)
  BY Powers
<1>2. pw[0] = 1 /\ pw[1] = 256
  <2>1. pw[0] = 1 /\ pw[1] = 256 * pw[0]
    BY <1>1, PowerValues, ZenonT(60)
  <2> QED  BY <2>1
<1>3. \A i \in 1 .. 2 : BigEndian(v, 2)[i] = (v \div pw[2 - i]) % 256
  <2>1. 2 \in 0 .. 4
    OBVIOUS
  <2>2. \A q : IsPowers(q) => \A i \in 1 .. 2 : BigEndian(v, 2)[i] = (v \div q[2 - i]) % 256
    BY <2>1, BigEndianOctets, ZenonT(60)
  <2> QED  BY <1>1, <2>2, Zenon
<1>4. PICK b : b = BigEndian(v, 2)
  OBVIOUS
<1>5. b[1] = (v \div pw[1]) % 256 /\ b[2] = (v \div pw[0]) % 256
  <2>1. \A i \in 1 .. 2 : b[i] = (v \div pw[2 - i]) % 256
    BY <1>3, <1>4, Zenon
  <2>2. 1 \in 1 .. 2 /\ 2 \in 1 .. 2 /\ 2 - 1 = 1 /\ 2 - 2 = 0
    OBVIOUS
  <2> QED  BY <2>1, <2>2, ZenonT(60)
<1>6. v \div 1 = v
  OBVIOUS
<1> QED
  BY <1>2, <1>4, <1>5, <1>6, Zenon

\* A length of two octets, read as the code of the determinant reads it.
LEMMA LengthOfOctets ==
  ASSUME NEW v \in Nat, v < 256^2
  PROVE  256 * ((v \div 256) % 256) + (v % 256) = v
<1>1. 256^2 = 256 * 256
  BY SMT
<1>2. v < 256 * 256
  BY <1>1
<1>3. v \div 256 \in 0 .. 255
  BY <1>2, SMT
<1>4. (v \div 256) % 256 = v \div 256
  BY <1>3
<1>5. 256 * (v \div 256) + (v % 256) = v
  BY SMT
<1> QED
  BY <1>4, <1>5

\* The two octets that a number stands for.
HasNumber(o, at, v) == o[at] = (v \div 256) % 256 /\ o[at + 1] = v % 256

LEMMA HoldsTwoOctets ==
  ASSUME NEW o, NEW at \in Nat, NEW v \in Nat, v < 256^2, Holds(o, at, BigEndian(v, 2))
  PROVE  HasNumber(o, at, v)
<1>1. PICK b : b = BigEndian(v, 2)
  OBVIOUS
<1>2. Len(b) = 2 /\ b[1] = (v \div 256) % 256 /\ b[2] = v % 256
  BY <1>1, Uint16Read, TwoOctets, Zenon
<1>3. \A i \in 1 .. 2 : o[at + i - 1] = b[i]
  BY <1>1, <1>2, Zenon DEF Holds
<1>4. o[at] = b[1] /\ o[at + 1] = b[2]
  BY <1>3
<1> QED
  BY <1>2, <1>4, Zenon DEF HasNumber

\* What the determinant code reads in the fixed part of a PDU.
HeaderIsSized(c, pdu, k, n, p) ==
  /\ header_with_segment_offset_size(c) = 8 + 2 * k + n
  /\ IsFileData(c) <=> pdu.payload.kind = "file_data_pdu"
  /\ pdu_data_field_length(c) = Len(p)

LEMMA PduHeaderSize ==
  ASSUME NEW pdu \in cfdpCfdpPDU, NEW c, NEW k, NEW n, NEW p, PduParts(c, pdu, k, n, p)
  PROVE  HeaderIsSized(c, pdu, k, n, p)
<1>1. PICK h : h = pdu.pdu_header
  OBVIOUS
<1>2. PICK f, l : /\ f = CfdpPDU_Encode_flags(h, pdu.payload.kind)
                  /\ l = CfdpPDU_Encode_lengths(h)
  OBVIOUS
<1>3. /\ k \in IdSizes /\ n \in IdSizes /\ Len(p) \in PayloadSizes
      /\ k = Len(h.source_entity_id) /\ n = Len(h.transaction_sequence_number)
      /\ Holds(c, 1, <<f>>) /\ Holds(c, 2, BigEndian(Len(p), 2)) /\ Holds(c, 4, <<l>>)
  BY <1>1, <1>2, Zenon DEF PduParts
<1>4. c[1] = f /\ c[4] = l
  BY <1>3, HoldsOctet, Zenon
<1>5. (f \div 16) % 2 = PduType(pdu.payload.kind)
  <2>1. h \in cfdpPDUHeader
    BY <1>1 DEF cfdpCfdpPDU
  <2>2. FlagsAreRead(f, h, pdu.payload.kind)
    BY <1>2, <2>1, HeaderFlags, Zenon
  <2> QED  BY <2>2, Zenon DEF FlagsAreRead
<1>6. ((l \div 16) % 8) + 1 = k /\ (l % 8) + 1 = n /\ l \in Octet
  <2>1. LengthsAreRead(l, h)
    BY <1>2, <1>3, HeaderLengths, Zenon
  <2> QED  BY <1>3, <2>1, Zenon DEF LengthsAreRead
<1>7. header_with_segment_offset_size(c) = 8 + 2 * k + n
  <2>1. \A x, y \in Nat : 8 + 2 * x + y = 8 + 2 * x + (y - 1) + 1
    OBVIOUS
  <2>2. l \in Nat
    BY <1>6 DEF Octet
  <2>3. 8 + (2 * (((l \div 16) % 8) + 1)) + (l % 8) + 1 = 8 + 2 * k + n
    BY <1>6, <2>2
  <2> QED  BY <1>4, <2>3 DEF header_with_segment_offset_size
<1>8. IsFileData(c) <=> pdu.payload.kind = "file_data_pdu"
  BY <1>4, <1>5 DEF IsFileData, PduType
<1>9. pdu_data_field_length(c) = Len(p)
  <2>1. Len(p) \in Nat /\ Len(p) < 256^2
    BY <1>3, PayloadSizeFacts, Zenon
  <2>2. PICK v : v = Len(p)
    OBVIOUS
  <2>3. c[2] = (v \div 256) % 256 /\ c[2 + 1] = v % 256
    <3>1. 2 \in Nat
      OBVIOUS
    <3>2. HasNumber(c, 2, v)
      BY <1>3, <2>1, <2>2, <3>1, HoldsTwoOctets, Zenon
    <3> QED  BY <3>2, Zenon DEF HasNumber
  <2>4. 256 * ((v \div 256) % 256) + (v % 256) = v
    BY <2>1, <2>2, LengthOfOctets, Zenon
  <2>5. 2 + 1 = 3
    OBVIOUS
  <2> QED  BY <2>2, <2>3, <2>4, <2>5, ZenonT(60) DEF pdu_data_field_length
<1> QED
  BY <1>7, <1>8, <1>9, Zenon DEF HeaderIsSized

\* An encoded File Data PDU has its determinant where the sender removes it, for
\* every length of its identifiers and its segment, and the length in its header
\* counts it: the hypotheses of DeterminantRoundTrip and TransmittedLength hold.
THEOREM EncoderWritesDeterminant ==
  ASSUME NEW pdu \in cfdpCfdpPDU, pdu.payload.kind = "file_data_pdu",
         NEW c \in CfdpPDU_ACN_Encode(pdu)
  PROVE  /\ c \in Seq(Octet) /\ Len(c) >= 4
         /\ Len(pdu.payload.file_data) \in Nat
         /\ HoldsDeterminant(c, Len(pdu.payload.file_data))
         /\ pdu_data_field_length(c) >= 2
<1>1. PICK p, d, a : /\ p = CfdpPDU_Encode_payload(pdu.payload)
                     /\ d = pdu.payload.file_data
                     /\ a = BigEndian(pdu.payload.segment_offset, 4)
  OBVIOUS
<1>2. PICK v : v = Len(d)
  OBVIOUS
<1>3. CfdpPDU_IsConstraintValid(pdu)
  BY EncodedPdu, Zenon
<1>4. PICK k, n : PduParts(c, pdu, k, n, p)
  BY <1>1, EncodedPdu, Zenon
<1>5. /\ header_with_segment_offset_size(c) = 8 + 2 * k + n
      /\ IsFileData(c)
      /\ pdu_data_field_length(c) = Len(p)
  <2>1. HeaderIsSized(c, pdu, k, n, p)
    BY <1>4, PduHeaderSize, Zenon
  <2> QED  BY <2>1, Zenon DEF HeaderIsSized
<1>6. /\ c \in Seq(Octet) /\ Len(c) = 4 + 2 * k + n + Len(p)
      /\ k \in IdSizes /\ n \in IdSizes /\ Holds(c, 5 + 2 * k + n, p)
  BY <1>4, Zenon DEF PduParts
<1>7. k \in Nat /\ n \in Nat
  BY <1>6 DEF IdSizes
<1>8. pdu.payload \in cfdpFileDataPDU /\ FileDataPDU_IsConstraintValid(pdu.payload)
  <2>1. pdu.payload \in cfdpPayloadData
    BY DEF cfdpCfdpPDU
  <2>2. pdu.payload \in cfdpFileDataPDU
    BY <2>1 DEF cfdpPayloadData, cfdpEofPDU, cfdpFinishedPDU, cfdpAckPDU, cfdpMetadataPDU
  <2>3. PayloadData_IsConstraintValid(pdu.payload)
    BY <1>3, Zenon DEF CfdpPDU_IsConstraintValid
  <2> QED  BY <2>2, <2>3, Zenon DEF PayloadData_IsConstraintValid
<1>9. v \in Nat /\ v < 256^2 /\ v \in Segments
  BY <1>1, <1>2, <1>8, SegmentFits, SegmentSizes, Zenon
<1>10. p = FileDataPDU_ACN_Encode(pdu.payload)
  BY <1>1 DEF CfdpPDU_Encode_payload
<1>11. pdu.payload.segment_offset \in uint32_t /\ d \in Seq(Octet)
  BY <1>1, <1>8 DEF cfdpFileDataPDU
<1>12. /\ a \in Seq(Octet) /\ Len(a) = 4
       /\ BigEndian(v, 2) \in Seq(Octet) /\ Len(BigEndian(v, 2)) = 2
  <2>1. a \in Seq(Octet) /\ Len(a) = 4
    BY <1>1, <1>11, Uint32Read, Zenon
  <2> QED  BY <1>9, <2>1, Uint16Read, Zenon
<1>13. IsChain3(p, a, BigEndian(v, 2), d)
  <2>1. p = a \o BigEndian(v, 2) \o d
    BY <1>1, <1>2, <1>10, Zenon DEF FileDataPDU_ACN_Encode
  <2> QED  BY <1>11, <1>12, <2>1, Chain3, Zenon
<1>14. Len(p) = 4 + 2 + v /\ Holds(p, 4 + 1, BigEndian(v, 2))
  BY <1>2, <1>12, <1>13, Zenon DEF IsChain3
<1>15. Holds(c, (8 + 2 * k + n) + 1, BigEndian(v, 2))
  <2>1. Holds(c, (5 + 2 * k + n) + (4 + 1) - 1, BigEndian(v, 2))
    BY <1>6, <1>14, HoldsWithin, Zenon
  <2>2. (5 + 2 * k + n) + (4 + 1) - 1 = (8 + 2 * k + n) + 1
    BY <1>7
  <2> QED  BY <2>1, <2>2, Zenon
<1>16. /\ c[(8 + 2 * k + n) + 1] = (v \div 256) % 256
       /\ c[(8 + 2 * k + n) + 2] = v % 256
  <2>1. (8 + 2 * k + n) + 1 \in Nat /\ (8 + 2 * k + n) + 1 + 1 = (8 + 2 * k + n) + 2
    BY <1>7
  <2>2. HasNumber(c, (8 + 2 * k + n) + 1, v)
    BY <1>9, <1>15, <2>1, HoldsTwoOctets, Zenon
  <2> QED  BY <2>1, <2>2, Zenon DEF HasNumber
<1>17. /\ Len(c) = (8 + 2 * k + n) + 2 + v /\ Len(c) >= 4 /\ Len(p) >= 2
  <2>1. Len(c) = 4 + 2 * k + n + (4 + 2 + v)
    BY <1>6, <1>14, Zenon
  <2> QED  BY <1>7, <1>9, <1>14, <2>1
<1>18. HoldsDeterminant(c, v)
  BY <1>5, <1>16, <1>17, Zenon DEF HoldsDeterminant, determinant_size
<1> QED
  BY <1>1, <1>2, <1>5, <1>6, <1>9, <1>17, <1>18, Zenon

-----------------------------------------------------------------------------
(* The messages to the user. *)

ListingNameSizes == 0 .. 120
MessageSizes == 0 .. 243

LEMMA ListingNameFits ==
  ASSUME NEW name \in Seq(Octet), ListingFileName_IsConstraintValid(name)
  PROVE  Len(name) \in ListingNameSizes
<1>1. PICK k : k = Len(name)
  OBVIOUS
<1>2. k \in Nat /\ k <= 120
  BY <1>1 DEF ListingFileName_IsConstraintValid
<1>3. k \in ListingNameSizes
  BY <1>2 DEF ListingNameSizes
<1> QED
  BY <1>1, <1>3

LEMMA ListingNameSizeFacts ==
  ASSUME NEW k \in ListingNameSizes
  PROVE  k \in Nat /\ k \in Octet /\ k <= 120
BY DEF ListingNameSizes, Octet

\* The decoder D reads what the encoder wrote of the message m.
LEMMA RequestRead ==
  ASSUME NEW m \in cfdpDirectoryListingRequest, DirectoryListingRequest_IsConstraintValid(m)
  PROVE  /\ \E n \in MessageSizes : Written(DirectoryListingRequest_ACN_Encode(m), n)
         /\ \A o : Holds(o, 1, DirectoryListingRequest_ACN_Encode(m)) =>
                     DirectoryListingRequest_ACN_Decode(o) = {m}
<1>1. PICK s, d : s = m.directory_name /\ d = m.directory_file_name
  OBVIOUS
<1>2. PICK k, n : k = Len(s) /\ n = Len(d)
  OBVIOUS
<1> DEFINE c == DirectoryListingRequest_ACN_Encode(m)
<1>3. /\ s \in Seq(Octet) /\ d \in Seq(Octet)
      /\ m = [kind |-> "directory_listing_request", directory_name |-> s,
              directory_file_name |-> d]
  BY <1>1 DEF cfdpDirectoryListingRequest
<1>4. k \in ListingNameSizes /\ n \in ListingNameSizes
  BY <1>1, <1>2, <1>3, ListingNameFits, Zenon DEF DirectoryListingRequest_IsConstraintValid
<1>5. k \in Nat /\ k \in Octet /\ k <= 120 /\ n \in Nat /\ n \in Octet /\ n <= 120
  BY <1>4, ListingNameSizeFacts, Zenon
<1>6. c = <<k>> \o s \o <<n>> \o d
  BY <1>1, <1>2, Zenon DEF DirectoryListingRequest_ACN_Encode
<1> HIDE DEF c
<1>7. /\ <<k>> \in Seq(Octet) /\ Len(<<k>>) = 1
      /\ <<n>> \in Seq(Octet) /\ Len(<<n>>) = 1
  BY <1>5, OneOctet, Zenon
<1>8. IsChain4(c, <<k>>, s, <<n>>, d)
  BY <1>3, <1>6, <1>7, Chain4, Zenon
<1>9. /\ c \in Seq(Octet) /\ Len(c) = 2 + k + n
      /\ Holds(c, 1, <<k>>) /\ Holds(c, 2, s) /\ Holds(c, 2 + k, <<n>>)
      /\ Holds(c, 3 + k, d)
  <2>1. /\ c \in Seq(Octet) /\ Len(c) = 1 + k + 1 + n
        /\ Holds(c, 1, <<k>>) /\ Holds(c, 1 + 1, s) /\ Holds(c, 1 + k + 1, <<n>>)
        /\ Holds(c, 1 + k + 1 + 1, d)
    BY <1>2, <1>7, <1>8, Zenon DEF IsChain4
  <2>2. /\ 1 + k + 1 + n = 2 + k + n /\ 1 + 1 = 2
        /\ 1 + k + 1 = 2 + k /\ 1 + k + 1 + 1 = 3 + k
    BY <1>5
  <2> QED  BY <2>1, <2>2, Zenon
<1>10. ASSUME NEW o, Holds(o, 1, c)
       PROVE  DirectoryListingRequest_ACN_Decode(o) = {m}
  <2>1. Holds(o, 1, <<k>>) /\ Holds(o, 2, s) /\ Holds(o, 2 + k, <<n>>) /\ Holds(o, 3 + k, d)
    <3>1. 1 \in Nat \ {0} /\ 2 \in Nat \ {0} /\ 2 + k \in Nat \ {0} /\ 3 + k \in Nat \ {0}
      BY <1>5
    <3> QED  BY <1>9, <1>10, <3>1, HoldsPart, Zenon
  <2>2. o[1] = k /\ o[2 + k] = n
    BY <2>1, HoldsOctet, Zenon
  <2>3. IsCut(o, 2, k, s) /\ IsCut(o, 3 + k, n, d)
    BY <1>2, <2>1, HoldsCut, Zenon
  <2>4. Slice(o, 2, k) = s /\ Slice(o, 3 + k, n) = d
    BY <2>3, Zenon DEF IsCut
  <2> QED
    BY <1>3, <1>5, <2>2, <2>4, Zenon DEF DirectoryListingRequest_ACN_Decode
<1>11. \E i \in MessageSizes : Written(c, i)
  <2>1. 2 + k + n \in MessageSizes
    BY <1>5 DEF MessageSizes
  <2>2. Written(c, 2 + k + n)
    BY <1>9, Zenon DEF Written
  <2> QED  BY <2>1, <2>2, Zenon
<1> QED
  BY <1>10, <1>11, Zenon DEF c

LEMMA CodeOctet ==
  ASSUME NEW r \in 0 .. 1, NEW o, o = OctetOf(<<<<1, r>>, <<7, 0>>>>)
  PROVE  o \in Octet /\ Bits(o, 0, 1) = r /\ Bits(o, 1, 7) = 0
<1>1. o = 128 * r
  <2>1. Width(1, 2) /\ Width(7, 128)
    BY SMT DEF Width
  <2>2. r \in Nat /\ 0 \in Nat
    OBVIOUS
  <2>3. Sum2(1, r, 7, 0, 128)
    BY <2>1, <2>2, TwoFields, Zenon
  <2> QED  BY <2>3 DEF Sum2
<1>2. \A i \in 0 .. 1, z \in Nat : z = 128 * i =>
        z \in Octet /\ Bits(z, 0, 1) = i /\ Bits(z, 1, 7) = 0
  BY SMT DEF Bits, Octet
<1>3. o \in Nat
  BY <1>1
<1> QED
  BY <1>1, <1>2, <1>3

LEMMA ListingResponseCodes ==
  ASSUME NEW c \in DOMAIN ListingResponseCode_ACN_Encode
  PROVE  /\ ListingResponseCode_ACN_Encode[c] \in 0 .. 1
         /\ ListingResponseCode_ACN_Decode[ListingResponseCode_ACN_Encode[c]] = c
<1>1. c = "successful" \/ c = "unsuccessful"
  BY DEF ListingResponseCode_ACN_Encode
<1> QED
  BY <1>1 DEF ListingResponseCode_ACN_Encode, ListingResponseCode_ACN_Decode

LEMMA ResponseRead ==
  ASSUME NEW m \in cfdpDirectoryListingResponse, DirectoryListingResponse_IsConstraintValid(m)
  PROVE  /\ \E n \in MessageSizes : Written(DirectoryListingResponse_ACN_Encode(m), n)
         /\ \A o : Holds(o, 1, DirectoryListingResponse_ACN_Encode(m)) =>
                     DirectoryListingResponse_ACN_Decode(o) = {m}
<1>1. PICK s, d, r : /\ s = m.directory_name /\ d = m.directory_file_name
                     /\ r = ListingResponseCode_ACN_Encode[m.listing_response_code]
  OBVIOUS
<1>2. PICK k, n : k = Len(s) /\ n = Len(d)
  OBVIOUS
<1> DEFINE c == DirectoryListingResponse_ACN_Encode(m)
           first == OctetOf(<<<<1, r>>, <<7, 0>>>>)
<1>3. /\ s \in Seq(Octet) /\ d \in Seq(Octet)
      /\ m.listing_response_code \in DOMAIN ListingResponseCode_ACN_Encode
      /\ m = [kind |-> "directory_listing_response",
              listing_response_code |-> m.listing_response_code,
              directory_name |-> s, directory_file_name |-> d]
  BY <1>1 DEF cfdpDirectoryListingResponse
<1>4. k \in ListingNameSizes /\ n \in ListingNameSizes
  BY <1>1, <1>2, <1>3, ListingNameFits, Zenon DEF DirectoryListingResponse_IsConstraintValid
<1>5. k \in Nat /\ k \in Octet /\ k <= 120 /\ n \in Nat /\ n \in Octet /\ n <= 120
  BY <1>4, ListingNameSizeFacts, Zenon
<1>6. r \in 0 .. 1 /\ ListingResponseCode_ACN_Decode[r] = m.listing_response_code
  BY <1>1, <1>3, ListingResponseCodes, Zenon
<1>7. first \in Octet /\ Bits(first, 0, 1) = r /\ Bits(first, 1, 7) = 0
  BY <1>6, CodeOctet
<1>8. c = <<first>> \o <<k>> \o s \o <<n>> \o d
  BY <1>1, <1>2, Zenon DEF DirectoryListingResponse_ACN_Encode
<1> HIDE DEF c, first
<1>9. /\ <<k>> \in Seq(Octet) /\ Len(<<k>>) = 1
      /\ <<n>> \in Seq(Octet) /\ Len(<<n>>) = 1
      /\ <<first>> \in Seq(Octet) /\ Len(<<first>>) = 1
  BY <1>5, <1>7, OneOctet, Zenon
<1>10. IsChain5(c, <<first>>, <<k>>, s, <<n>>, d)
  BY <1>3, <1>8, <1>9, Chain5, Zenon
<1>11. /\ c \in Seq(Octet) /\ Len(c) = 3 + k + n
       /\ Holds(c, 1, <<first>>) /\ Holds(c, 2, <<k>>) /\ Holds(c, 3, s)
       /\ Holds(c, 3 + k, <<n>>) /\ Holds(c, 4 + k, d)
  <2>1. /\ c \in Seq(Octet) /\ Len(c) = 1 + 1 + k + 1 + n
        /\ Holds(c, 1, <<first>>) /\ Holds(c, 1 + 1, <<k>>) /\ Holds(c, 1 + 1 + 1, s)
        /\ Holds(c, 1 + 1 + k + 1, <<n>>) /\ Holds(c, 1 + 1 + k + 1 + 1, d)
    BY <1>2, <1>9, <1>10, Zenon DEF IsChain5
  <2>2. /\ 1 + 1 + k + 1 + n = 3 + k + n /\ 1 + 1 = 2 /\ 1 + 1 + 1 = 3
        /\ 1 + 1 + k + 1 = 3 + k /\ 1 + 1 + k + 1 + 1 = 4 + k
    BY <1>5
  <2> QED  BY <2>1, <2>2, Zenon
<1>12. ASSUME NEW o, Holds(o, 1, c)
       PROVE  DirectoryListingResponse_ACN_Decode(o) = {m}
  <2>1. /\ Holds(o, 1, <<first>>) /\ Holds(o, 2, <<k>>) /\ Holds(o, 3, s)
        /\ Holds(o, 3 + k, <<n>>) /\ Holds(o, 4 + k, d)
    <3>1. /\ 1 \in Nat \ {0} /\ 2 \in Nat \ {0} /\ 3 \in Nat \ {0}
          /\ 3 + k \in Nat \ {0} /\ 4 + k \in Nat \ {0}
      BY <1>5
    <3> QED  BY <1>11, <1>12, <3>1, HoldsPart, Zenon
  <2>2. o[1] = first /\ o[2] = k /\ o[3 + k] = n
    BY <2>1, HoldsOctet, Zenon
  <2>3. IsCut(o, 3, k, s) /\ IsCut(o, 4 + k, n, d)
    BY <1>2, <2>1, HoldsCut, Zenon
  <2>4. Slice(o, 3, k) = s /\ Slice(o, 4 + k, n) = d
    BY <2>3, Zenon DEF IsCut
  <2> QED
    BY <1>3, <1>5, <1>6, <1>7, <2>2, <2>4, Zenon DEF DirectoryListingResponse_ACN_Decode
<1>13. \E i \in MessageSizes : Written(c, i)
  <2>1. 3 + k + n \in MessageSizes
    BY <1>5 DEF MessageSizes
  <2>2. Written(c, 3 + k + n)
    BY <1>11, Zenon DEF Written
  <2> QED  BY <2>1, <2>2, Zenon
<1> QED
  BY <1>12, <1>13, Zenon DEF c

LEMMA OriginatingRead ==
  ASSUME NEW m \in cfdpOriginatingTransactionId, OriginatingTransactionId_IsConstraintValid(m)
  PROVE  /\ \E n \in MessageSizes : Written(OriginatingTransactionId_ACN_Encode(m), n)
         /\ \A o : Holds(o, 1, OriginatingTransactionId_ACN_Encode(m)) =>
                     OriginatingTransactionId_ACN_Decode(o) = {m}
<1>1. PICK s, d : s = m.source_entity_id /\ d = m.transaction_sequence_number
  OBVIOUS
<1>2. PICK k, n : k = Len(s) /\ n = Len(d)
  OBVIOUS
<1> DEFINE c == OriginatingTransactionId_ACN_Encode(m)
           first == OctetOf(<<<<1, 0>>, <<3, cfdp_entity_len_encode(k)>>,
                              <<1, 0>>, <<3, cfdp_entity_len_encode(n)>>>>)
<1>3. /\ s \in Seq(Octet) /\ d \in Seq(Octet)
      /\ m = [kind |-> "originating_transaction_id", source_entity_id |-> s,
              transaction_sequence_number |-> d]
  BY <1>1 DEF cfdpOriginatingTransactionId
<1>4. k \in 1 .. 7 /\ n \in 1 .. 7
  BY <1>1, <1>2, Zenon
     DEF OriginatingTransactionId_IsConstraintValid, EntityId_IsConstraintValid,
         TransactionSequenceNumber_IsConstraintValid
<1>5. k \in Nat /\ n \in Nat /\ k <= 7 /\ n <= 7
  BY <1>4
<1>6. /\ first \in Octet /\ Bits(first, 0, 1) = 0 /\ Bits(first, 4, 1) = 0
      /\ cfdp_entity_len_decode(Bits(first, 1, 3)) = k
      /\ cfdp_entity_len_decode(Bits(first, 5, 3)) = n
  <2>1. OfLengths(first, k, n)
    BY Zenon DEF OfLengths
  <2> HIDE DEF first
  <2> QED  BY <1>4, <2>1, LengthsOctet, SMTT(20)
<1>7. c = <<first>> \o s \o d
  BY <1>1, <1>2, Zenon DEF OriginatingTransactionId_ACN_Encode
<1> HIDE DEF c, first
<1>8. <<first>> \in Seq(Octet) /\ Len(<<first>>) = 1
  BY <1>6, OneOctet, Zenon
<1>9. IsChain3(c, <<first>>, s, d)
  BY <1>3, <1>7, <1>8, Chain3, Zenon
<1>10. /\ c \in Seq(Octet) /\ Len(c) = 1 + k + n
       /\ Holds(c, 1, <<first>>) /\ Holds(c, 2, s) /\ Holds(c, 2 + k, d)
  <2>1. /\ c \in Seq(Octet) /\ Len(c) = 1 + k + n
        /\ Holds(c, 1, <<first>>) /\ Holds(c, 1 + 1, s) /\ Holds(c, 1 + k + 1, d)
    BY <1>2, <1>8, <1>9, Zenon DEF IsChain3
  <2>2. 1 + 1 = 2 /\ 1 + k + 1 = 2 + k
    BY <1>5
  <2> QED  BY <2>1, <2>2, Zenon
<1>11. ASSUME NEW o, Holds(o, 1, c)
       PROVE  OriginatingTransactionId_ACN_Decode(o) = {m}
  <2>1. Holds(o, 1, <<first>>) /\ Holds(o, 2, s) /\ Holds(o, 2 + k, d)
    <3>1. 1 \in Nat \ {0} /\ 2 \in Nat \ {0} /\ 2 + k \in Nat \ {0}
      BY <1>5
    <3> QED  BY <1>10, <1>11, <3>1, HoldsPart, Zenon
  <2>2. o[1] = first
    BY <2>1, HoldsOctet, Zenon
  <2>3. IsCut(o, 2, k, s) /\ IsCut(o, 2 + k, n, d)
    BY <1>2, <2>1, HoldsCut, Zenon
  <2>4. Slice(o, 2, k) = s /\ Slice(o, 2 + k, n) = d
    BY <2>3, Zenon DEF IsCut
  <2> QED
    BY <1>3, <1>5, <1>6, <2>2, <2>4, Zenon DEF OriginatingTransactionId_ACN_Decode
<1>12. \E i \in MessageSizes : Written(c, i)
  <2>1. 1 + k + n \in MessageSizes
    BY <1>4, <1>5 DEF MessageSizes
  <2>2. Written(c, 1 + k + n)
    BY <1>10, Zenon DEF Written
  <2> QED  BY <2>1, <2>2, Zenon
<1> QED
  BY <1>11, <1>12, Zenon DEF c

-----------------------------------------------------------------------------
(* The type of a message, and its body. *)

MessageBody(m) ==
  CASE m.kind = "originating_transaction_id" -> OriginatingTransactionId_ACN_Encode(m)
    [] m.kind = "directory_listing_request"  -> DirectoryListingRequest_ACN_Encode(m)
    [] m.kind = "directory_listing_response" -> DirectoryListingResponse_ACN_Encode(m)

MessageFrom(type, rest) ==
  CASE type = "originating_transaction_id" -> OriginatingTransactionId_ACN_Decode(rest)
    [] type = "directory_listing_request"  -> DirectoryListingRequest_ACN_Decode(rest)
    [] type = "directory_listing_response" -> DirectoryListingResponse_ACN_Decode(rest)

BodyIsRead(m) ==
  /\ \E n \in MessageSizes : Written(MessageBody(m), n)
  /\ \A o : Holds(o, 1, MessageBody(m)) => MessageFrom(m.kind, o) = {m}
  /\ m.kind \in DOMAIN MessageType_ACN_Encode

LEMMA BodyRead ==
  ASSUME NEW m \in cfdpMessageToUser, TLV_IsConstraintValid(m)
  PROVE  BodyIsRead(m)
<1>1. CASE m \in cfdpOriginatingTransactionId
  <2>1. m.kind = "originating_transaction_id"
    BY <1>1 DEF cfdpOriginatingTransactionId
  <2>2. OriginatingTransactionId_IsConstraintValid(m)
    BY <2>1 DEF TLV_IsConstraintValid, MessageToUser_IsConstraintValid
  <2>3. /\ MessageBody(m) = OriginatingTransactionId_ACN_Encode(m)
        /\ \A o : MessageFrom(m.kind, o) = OriginatingTransactionId_ACN_Decode(o)
    BY <2>1 DEF MessageBody, MessageFrom
  <2>4. m.kind \in DOMAIN MessageType_ACN_Encode
    BY <2>1 DEF MessageType_ACN_Encode
  <2> QED  BY <1>1, <2>2, <2>3, <2>4, OriginatingRead, Zenon DEF BodyIsRead
<1>2. CASE m \in cfdpDirectoryListingRequest
  <2>1. m.kind = "directory_listing_request"
    BY <1>2 DEF cfdpDirectoryListingRequest
  <2>2. DirectoryListingRequest_IsConstraintValid(m)
    BY <2>1 DEF TLV_IsConstraintValid, MessageToUser_IsConstraintValid
  <2>3. /\ MessageBody(m) = DirectoryListingRequest_ACN_Encode(m)
        /\ \A o : MessageFrom(m.kind, o) = DirectoryListingRequest_ACN_Decode(o)
    BY <2>1 DEF MessageBody, MessageFrom
  <2>4. m.kind \in DOMAIN MessageType_ACN_Encode
    BY <2>1 DEF MessageType_ACN_Encode
  <2> QED  BY <1>2, <2>2, <2>3, <2>4, RequestRead, Zenon DEF BodyIsRead
<1>3. CASE m \in cfdpDirectoryListingResponse
  <2>1. m.kind = "directory_listing_response"
    BY <1>3 DEF cfdpDirectoryListingResponse
  <2>2. DirectoryListingResponse_IsConstraintValid(m)
    BY <2>1 DEF TLV_IsConstraintValid, MessageToUser_IsConstraintValid
  <2>3. /\ MessageBody(m) = DirectoryListingResponse_ACN_Encode(m)
        /\ \A o : MessageFrom(m.kind, o) = DirectoryListingResponse_ACN_Decode(o)
    BY <2>1 DEF MessageBody, MessageFrom
  <2>4. m.kind \in DOMAIN MessageType_ACN_Encode
    BY <2>1 DEF MessageType_ACN_Encode
  <2> QED  BY <1>3, <2>2, <2>3, <2>4, ResponseRead, Zenon DEF BodyIsRead
<1> QED
  BY <1>1, <1>2, <1>3, Zenon DEF cfdpMessageToUser

LEMMA MessageTypes ==
  ASSUME NEW c \in DOMAIN MessageType_ACN_Encode
  PROVE  /\ MessageType_ACN_Encode[c] \in Octet
         /\ Named(MessageType_ACN_Decode, MessageType_ACN_Encode[c]) = {c}
<1>1. PICK i : i = MessageType_ACN_Encode[c]
  OBVIOUS
<1>2. \/ c = "originating_transaction_id" /\ i = 10
      \/ c = "directory_listing_request" /\ i = 16
      \/ c = "directory_listing_response" /\ i = 17
  BY <1>1 DEF MessageType_ACN_Encode
<1>3. i \in Octet
  BY <1>2 DEF Octet
<1>4. i \in DOMAIN MessageType_ACN_Decode /\ MessageType_ACN_Decode[i] = c
  BY <1>2 DEF MessageType_ACN_Decode
<1> QED
  BY <1>1, <1>3, <1>4, NamedIs, Zenon

\* What is left of octets from position k on.
LEMMA RestHolds ==
  ASSUME NEW o, NEW k, NEW b, Holds(o, k, b)
  PROVE  Holds(SubSeq(o, k, Len(o)), 1, b)
<1>1. /\ o \in Seq(Octet) /\ b \in Seq(Octet) /\ k \in Nat \ {0}
      /\ k + Len(b) - 1 <= Len(o)
      /\ \A i \in 1 .. Len(b) : o[k + i - 1] = b[i]
  BY DEF Holds
<1>2. PICK m \in Nat, j \in Nat : m = Len(o) /\ j = Len(b)
  BY <1>1
<1>3. PICK n \in Nat : n = m - k + 1
  <2>1. m - k + 1 \in Nat
    BY <1>1, <1>2
  <2> QED  BY <2>1
<1>4. PICK t : t = SubSeq(o, k, m)
  OBVIOUS
<1>5. t \in Seq(Octet) /\ Len(t) = n /\ \A i \in 1 .. n : t[i] = o[k + i - 1]
  BY <1>1, <1>2, <1>3, <1>4
<1>6. 1 + j - 1 <= n
  BY <1>1, <1>2, <1>3
<1>7. \A i \in 1 .. j : i \in 1 .. n /\ 1 + i - 1 = i
  BY <1>6
<1>8. \A i \in 1 .. j : t[1 + i - 1] = b[i]
  BY <1>1, <1>2, <1>5, <1>7, Zenon
<1>9. 1 \in Nat \ {0}
  OBVIOUS
<1> QED
  BY <1>1, <1>2, <1>4, <1>5, <1>6, <1>8, <1>9, Zenon DEF Holds

LEMMA MessageRead ==
  ASSUME NEW m \in cfdpMessageToUser, TLV_IsConstraintValid(m)
  PROVE  /\ \E n \in MessageSizes : Written(MessageToUserWithHeader_ACN_Encode(m), 5 + n)
         /\ \A o : Holds(o, 1, MessageToUserWithHeader_ACN_Encode(m)) =>
                     MessageToUserWithHeader_ACN_Decode(o) = {m}
<1>1. PICK c, b, i, t :
        /\ c = MessageToUserWithHeader_ACN_Encode(m) /\ b = MessageBody(m)
        /\ i = message_identifier /\ t = MessageType_ACN_Encode[m.kind]
  OBVIOUS
<1>2. /\ \E n \in MessageSizes : Written(b, n)
      /\ \A o : Holds(o, 1, b) => MessageFrom(m.kind, o) = {m}
      /\ m.kind \in DOMAIN MessageType_ACN_Encode
  <2>1. BodyIsRead(m)
    BY BodyRead, Zenon
  <2> QED  BY <1>1, <2>1, Zenon DEF BodyIsRead
<1>3. PICK n \in MessageSizes : b \in Seq(Octet) /\ Len(b) = n
  BY <1>2, Zenon DEF Written
<1>4. i \in Seq(Octet) /\ Len(i) = 4
  BY <1>1 DEF message_identifier, Octet
<1>5. t \in Octet /\ Named(MessageType_ACN_Decode, t) = {m.kind}
  BY <1>1, <1>2, MessageTypes, Zenon
<1>6. c = i \o <<t>> \o b
  BY <1>1, Zenon DEF MessageToUserWithHeader_ACN_Encode, MessageBody
<1>7. <<t>> \in Seq(Octet) /\ Len(<<t>>) = 1
  BY <1>5, OneOctet, Zenon
<1>8. IsChain3(c, i, <<t>>, b)
  BY <1>3, <1>4, <1>6, <1>7, Chain3, Zenon
<1>9. /\ c \in Seq(Octet) /\ Len(c) = 5 + n
      /\ Holds(c, 1, i) /\ Holds(c, 5, <<t>>) /\ Holds(c, 6, b)
  <2>1. /\ c \in Seq(Octet) /\ Len(c) = 4 + 1 + n
        /\ Holds(c, 1, i) /\ Holds(c, 4 + 1, <<t>>) /\ Holds(c, 4 + 1 + 1, b)
    BY <1>3, <1>4, <1>7, <1>8, Zenon DEF IsChain3
  <2>2. 4 + 1 = 5 /\ 4 + 1 + 1 = 6
    OBVIOUS
  <2> QED  BY <2>1, <2>2, Zenon
<1>10. ASSUME NEW o, Holds(o, 1, c)
       PROVE  MessageToUserWithHeader_ACN_Decode(o) = {m}
  <2>1. Holds(o, 1, i) /\ Holds(o, 5, <<t>>) /\ Holds(o, 6, b)
    <3>1. 1 \in Nat \ {0} /\ 5 \in Nat \ {0} /\ 6 \in Nat \ {0}
      OBVIOUS
    <3> QED  BY <1>9, <1>10, <3>1, HoldsPart, Zenon
  <2>2. o[5] = t
    BY <2>1, HoldsOctet, Zenon
  <2>3. Slice(o, 1, 4) = message_identifier
    <3>1. IsCut(o, 1, 4, i)
      BY <1>4, <2>1, HoldsCut, Zenon
    <3> QED  BY <1>1, <3>1, Zenon DEF IsCut
  <2>4. PICK rest : rest = SubSeq(o, 6, Len(o))
    OBVIOUS
  <2>5. MessageFrom(m.kind, rest) = {m}
    BY <1>2, <2>1, <2>4, RestHolds, Zenon
  <2>6. MessageToUserWithHeader_ACN_Decode(o) =
          UNION {MessageFrom(type, rest) : type \in Named(MessageType_ACN_Decode, t)}
    BY <2>2, <2>3, <2>4, Zenon DEF MessageToUserWithHeader_ACN_Decode, MessageFrom
  <2>7. {MessageFrom(type, rest) : type \in {m.kind}} = {{m}}
    BY <2>5
  <2>8. UNION {{m}} = {m}
    OBVIOUS
  <2> QED  BY <1>5, <2>6, <2>7, <2>8, Zenon
<1> QED
  BY <1>1, <1>9, <1>10, Zenon DEF Written

-----------------------------------------------------------------------------
(* The TLV of a message, anywhere in the octets of a PDU. *)

\* c is the TLV of the message m.
TlvIsRead(m, c) ==
  /\ TLV_ACN_Encode(m) = {c}
  /\ c \in Seq(Octet) /\ Len(c) \in Nat \ {0}
  /\ \A o, at : Holds(o, at, c) =>
       TLV_ACN_Decode(o, at) = {[message |-> m, next |-> at + Len(c)]}

LEMMA TlvSizes ==
  ASSUME NEW n \in MessageSizes
  PROVE  /\ 5 + n \in Nat /\ 5 + n \in Octet /\ 5 + n <= MessageToUserWithHeader_REQUIRED_BYTES
         /\ MessageToUserWithHeader_REQUIRED_BYTES - (5 + n) \in Nat
BY DEF MessageSizes, MessageToUserWithHeader_REQUIRED_BYTES, Octet

\* A message to the user that its type admits is encoded, in at least one octet,
\* and read again wherever its TLV stands, and the next one is looked for right
\* behind it: a request's names and a response's code come through as sent.
THEOREM TlvRead ==
  ASSUME NEW m \in cfdpMessageToUser, TLV_IsConstraintValid(m)
  PROVE  \E c : TlvIsRead(m, c)
<1>1. PICK v : v = MessageToUserWithHeader_ACN_Encode(m)
  OBVIOUS
<1>2. /\ \E n \in MessageSizes : Written(v, 5 + n)
      /\ \A o : Holds(o, 1, v) => MessageToUserWithHeader_ACN_Decode(o) = {m}
  BY <1>1, MessageRead, Zenon
<1>3. PICK n \in MessageSizes : Written(v, 5 + n)
  BY <1>2
<1>4. PICK s : s = 5 + n
  OBVIOUS
<1>5. v \in Seq(Octet) /\ Len(v) = s
  BY <1>3, <1>4, Zenon DEF Written
<1>6. /\ s \in Nat /\ s \in Octet /\ s <= MessageToUserWithHeader_REQUIRED_BYTES
      /\ MessageToUserWithHeader_REQUIRED_BYTES - s \in Nat
  BY <1>4, TlvSizes, Zenon
<1>7. PICK a, c : a = <<2, s>> /\ c = a \o v
  OBVIOUS
<1>8. a \in Seq(Octet) /\ Len(a) = 2 /\ a[1] = 2 /\ a[2] = s
  <2>1. 2 \in Octet
    BY DEF Octet
  <2> QED  BY <1>6, <1>7, <2>1
<1>9. IsChain2(c, a, v)
  BY <1>5, <1>7, <1>8, Chain2, Zenon
<1>10. c \in Seq(Octet) /\ Len(c) = 2 + s /\ Holds(c, 1, a) /\ Holds(c, 3, v)
  <2>1. c \in Seq(Octet) /\ Len(c) = 2 + s /\ Holds(c, 1, a) /\ Holds(c, 2 + 1, v)
    BY <1>5, <1>8, <1>9, Zenon DEF IsChain2
  <2>2. 2 + 1 = 3
    OBVIOUS
  <2> QED  BY <2>1, <2>2, Zenon
<1>11. TLV_ACN_Encode(m) = {c}
  BY <1>1, <1>5, <1>7, Zenon DEF TLV_ACN_Encode
<1>12. ASSUME NEW o, NEW at, Holds(o, at, c)
       PROVE  TLV_ACN_Decode(o, at) = {[message |-> m, next |-> at + Len(c)]}
  <2>1. o \in Seq(Octet) /\ at \in Nat \ {0} /\ at + (2 + s) - 1 <= Len(o)
    BY <1>10, <1>12, Zenon DEF Holds
  <2>2. PICK l \in Nat : l = Len(o)
    BY <2>1
  <2>3. /\ at + 1 <= l /\ at + 1 + s <= l
        /\ at + 1 - 1 = at /\ at + 3 - 1 = at + 2
        /\ at + 2 + s = at + (2 + s)
    BY <1>6, <2>1, <2>2
  <2>4. Holds(o, at, a) /\ Holds(o, at + 2, v)
    <3>1. Holds(o, at + 1 - 1, a) /\ Holds(o, at + 3 - 1, v)
      BY <1>10, <1>12, HoldsWithin, Zenon
    <3> QED  BY <2>3, <3>1, Zenon
  <2>5. o[at] = 2 /\ o[at + 1] = s
    <3>1. \A i \in 1 .. 2 : o[at + i - 1] = a[i]
      BY <1>8, <2>4, Zenon DEF Holds
    <3>2. o[at] = a[1] /\ o[at + 1] = a[2]
      BY <2>1, <3>1
    <3> QED  BY <1>8, <3>2
  <2>6. IsCut(o, at + 2, s, v)
    BY <1>5, <2>4, HoldsCut, Zenon
  <2>7. PICK z : z = Zeros(MessageToUserWithHeader_REQUIRED_BYTES - s)
    OBVIOUS
  <2>8. z \in Seq(Octet)
    BY <1>6, <2>7, ZerosAreOctets, Zenon
  <2>9. Holds(v \o z, 1, v)
    BY <1>5, <2>8, HoldsItself, HoldsBefore, Zenon
  <2>10. MessageToUserWithHeader_ACN_Decode(v \o z) = {m}
    BY <1>2, <2>9, Zenon
  <2>11. TLV_ACN_Decode(o, at) =
           {[message |-> x, next |-> at + 2 + s] :
              x \in {d \in MessageToUserWithHeader_ACN_Decode(v \o z) : TLV_IsConstraintValid(d)}}
    BY <1>6, <2>2, <2>3, <2>5, <2>6, <2>7, Zenon DEF TLV_ACN_Decode, IsCut
  <2>12. {d \in {m} : TLV_IsConstraintValid(d)} = {m}
    OBVIOUS
  <2>13. {[message |-> x, next |-> at + 2 + s] : x \in {m}} = {[message |-> m, next |-> at + 2 + s]}
    OBVIOUS
  <2> QED  BY <1>10, <2>3, <2>10, <2>11, <2>12, <2>13, Zenon
<1>13. Len(c) \in Nat \ {0}
  BY <1>6, <1>10
<1> QED
  BY <1>10, <1>11, <1>12, <1>13, Zenon DEF TlvIsRead
=============================================================================
