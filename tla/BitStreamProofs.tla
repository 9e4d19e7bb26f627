--------------------------- MODULE BitStreamProofs ---------------------------
(***************************************************************************)
(* Proofs about BitStream, for every buffer and every field a writer may    *)
(* append.  The stream is looked at through the bits of its positions:      *)
(* Appended says what an append does to them and Got what a read returns of *)
(* them.  Each call of the run-time is shown to do one or the other, its    *)
(* loops by induction over their rounds; the invariant then says where the  *)
(* fields are, and the refinement of BitQueue follows from both.            *)
(***************************************************************************)
EXTENDS BitStream, DataInduction

-----------------------------------------------------------------------------
Stream == [buf : Seq(Octet), currentByte : Nat, currentBit : 0 .. 7]

\* The bit at position p of a buffer, in the order of the stream.
Bit(s, p) == (7 - (p % 8)) \in s.buf[p \div 8 + 1]

Size(s) == 8 * Len(s.buf)

\* The octet and the bit of a position, and a position of them.
LEMMA Position ==
  ASSUME NEW i \in Nat, NEW k \in 0 .. 7
  PROVE  (8 * i + k) \div 8 = i /\ (8 * i + k) % 8 = k
OBVIOUS

LEMMA Split ==
  ASSUME NEW p \in Nat
  PROVE  /\ p \div 8 \in Nat /\ p % 8 \in 0 .. 7
         /\ p = 8 * (p \div 8) + (p % 8)
OBVIOUS

\* A position within n octets is in one of them.
LEMMA Inside ==
  ASSUME NEW n \in Nat, NEW p \in 0 .. 8 * n - 1
  PROVE  p \div 8 \in 0 .. n - 1 /\ p \div 8 + 1 \in 1 .. n
OBVIOUS

\* A merge changes one octet: where the mask lets it through the old bit stays.
LEMMA MergeBits ==
  ASSUME NEW s \in Stream, NEW mask, NEW v \in SUBSET (0 .. 7),
         s.currentByte < Len(s.buf)
  PROVE  /\ Merge(s, mask, v) \in Stream
         /\ Len(Merge(s, mask, v).buf) = Len(s.buf)
         /\ Merge(s, mask, v).currentByte = s.currentByte
         /\ Merge(s, mask, v).currentBit = s.currentBit
         /\ \A p \in 0 .. Size(s) - 1 :
              Bit(Merge(s, mask, v), p) <=>
                IF p \div 8 = s.currentByte
                THEN 7 - (p % 8) \in v \/ (Bit(s, p) /\ 7 - (p % 8) \in mask)
                ELSE Bit(s, p)
<1> DEFINE i == s.currentByte + 1
           new == [s.buf EXCEPT ![i] = (@ \cap mask) \cup v]
<1>1. /\ s.buf \in Seq(Octet) /\ Len(s.buf) \in Nat
      /\ s.currentByte \in Nat /\ i \in 1 .. Len(s.buf)
  BY DEF Stream
<1>2. (s.buf[i] \cap mask) \cup v \in Octet
  <2>1. s.buf[i] \in Octet
    BY <1>1
  <2> QED
    BY <2>1 DEF Octet
<1>3. new \in Seq(Octet) /\ Len(new) = Len(s.buf)
  BY <1>1, <1>2
<1>4. Merge(s, mask, v) = [s EXCEPT !.buf = new]
  BY DEF Merge, Stream
<1>5. \A j \in 1 .. Len(s.buf) :
        new[j] = IF j = i THEN (s.buf[i] \cap mask) \cup v ELSE s.buf[j]
  BY <1>1
<1> HIDE DEF new
<1>6. /\ Merge(s, mask, v) \in Stream
      /\ Merge(s, mask, v).buf = new
      /\ Merge(s, mask, v).currentByte = s.currentByte
      /\ Merge(s, mask, v).currentBit = s.currentBit
  BY <1>3, <1>4 DEF Stream
<1>7. ASSUME NEW p \in 0 .. Size(s) - 1
      PROVE  Bit(Merge(s, mask, v), p) <=>
                IF p \div 8 = s.currentByte
                THEN 7 - (p % 8) \in v \/ (Bit(s, p) /\ 7 - (p % 8) \in mask)
                ELSE Bit(s, p)
  <2>1. p \div 8 \in Nat /\ p \div 8 + 1 \in 1 .. Len(s.buf)
    BY <1>1, Inside DEF Size
  <2>2. p \div 8 + 1 = i <=> p \div 8 = s.currentByte
    BY <1>1, <2>1
  <2> QED
    BY <1>5, <1>6, <2>1, <2>2 DEF Bit
<1> QED
  BY <1>3, <1>6, <1>7
-----------------------------------------------------------------------------
\* A set of weights shifted up and down, within the octet.
LEMMA ShiftUp ==
  ASSUME NEW v \in SUBSET Nat, NEW n \in Nat
  PROVE  /\ Shl(v, n) \in SUBSET (0 .. 7)
         /\ \A b \in 0 .. 7 : b \in Shl(v, n) <=> b - n \in v
BY DEF Shl, Low

LEMMA ShiftDown ==
  ASSUME NEW v \in SUBSET Nat, NEW n \in Nat
  PROVE  /\ Shr(v, n) \in SUBSET (0 .. 7)
         /\ \A b \in 0 .. 7 : b \in Shr(v, n) <=> b + n \in v
BY DEF Shr, Low

-----------------------------------------------------------------------------
Fits(s, n) == Cursor(s) + n <= Size(s)

\* Behind the cursor there are only zeros.
Clean(s) == \A p \in Cursor(s) .. Size(s) - 1 : ~Bit(s, p)

\* The first m of the n bits of the value v are appended to s, which gives t:
\* what was before the cursor stays, what is behind the new one is zero.
Appended(s, t, v, n, m) ==
  /\ t \in Stream /\ Len(t.buf) = Len(s.buf)
  /\ Cursor(t) = Cursor(s) + m
  /\ \A p \in 0 .. Cursor(s) - 1 : Bit(t, p) <=> Bit(s, p)
  /\ \A i \in 1 .. m : Bit(t, Cursor(s) + i - 1) <=> n - i \in v
  /\ Clean(t)

\* The numbers of a stream.
LEMMA Sizes ==
  ASSUME NEW s \in Stream
  PROVE  /\ Len(s.buf) \in Nat /\ Size(s) \in Nat /\ Cursor(s) \in Nat
         /\ s.currentByte \in Nat /\ s.currentBit \in 0 .. 7
BY DEF Stream, Size, Cursor

\* Appends follow each other: none, two in a row, and two that are the same.
LEMMA AppendNothing ==
  ASSUME NEW s \in Stream, Clean(s), NEW v, NEW n
  PROVE  Appended(s, s, v, n, 0)
BY Sizes DEF Appended

LEMMA AppendMore ==
  ASSUME NEW s \in Stream, NEW t, NEW u, NEW v, NEW n \in Nat,
         NEW m \in Nat, NEW k \in Nat,
         Appended(s, t, v, n, m), Appended(t, u, v, n - m, k)
  PROVE  Appended(s, u, v, n, m + k)
<1>1. /\ t \in Stream /\ u \in Stream
      /\ Len(t.buf) = Len(s.buf) /\ Len(u.buf) = Len(s.buf)
      /\ Cursor(t) = Cursor(s) + m /\ Cursor(u) = Cursor(s) + (m + k)
      /\ Cursor(s) \in Nat /\ Clean(u)
  BY Sizes DEF Appended
<1>2. \A p \in 0 .. Cursor(s) - 1 : Bit(u, p) <=> Bit(s, p)
  BY <1>1 DEF Appended
<1>3. ASSUME NEW i \in 1 .. m + k
      PROVE  Bit(u, Cursor(s) + i - 1) <=> n - i \in v
  <2>1. CASE i <= m
    <3>1. i \in 1 .. m /\ Cursor(s) + i - 1 \in 0 .. Cursor(t) - 1
      BY <1>1, <2>1
    <3> QED  BY <3>1 DEF Appended
  <2>2. CASE i > m
    <3>1. PICK j \in 1 .. k : i = m + j
      BY <2>2
    <3>2. Cursor(t) + j - 1 = Cursor(s) + i - 1 /\ (n - m) - j = n - i
      BY <1>1, <3>1
    <3> QED  BY <3>2 DEF Appended
  <2> QED  BY <2>1, <2>2
<1> QED
  BY <1>1, <1>2, <1>3 DEF Appended

LEMMA AppendSame ==
  ASSUME NEW s, NEW t, NEW w, NEW a, NEW v, NEW n, NEW m,
         Appended(s, t, w, a, m), \A i \in 1 .. m : a - i \in w <=> n - i \in v
  PROVE  Appended(s, t, v, n, m)
BY DEF Appended

\* Two ways to name a bit of the same octet.
LEMMA SameBit ==
  ASSUME NEW r \in Nat, NEW d \in 0 .. 7, NEW q \in Nat, NEW b \in 0 .. 7,
         NEW j \in Nat, 8 * r + d = 8 * q + b + 8 * j
  PROVE  d = b
OBVIOUS

\* A position as octet and bit.
LEMMA At ==
  ASSUME NEW p \in Nat
  PROVE  \E q \in Nat, k \in 0 .. 7 : p = 8 * q + k /\ p \div 8 = q /\ p % 8 = k
BY Split

MoveTo(s, q, r) == [s EXCEPT !.currentByte = q, !.currentBit = r]

\* A stream whose cursor is moved keeps its buffer.
LEMMA Moved ==
  ASSUME NEW s \in Stream, NEW q \in Nat, NEW r \in 0 .. 7
  PROVE  /\ MoveTo(s, q, r) \in Stream /\ MoveTo(s, q, r).buf = s.buf
         /\ MoveTo(s, q, r).currentByte = q /\ MoveTo(s, q, r).currentBit = r
BY DEF Stream, MoveTo

\* Skip moves the cursor by n bits and carries into the next octets.
LEMMA SkipMoves ==
  ASSUME NEW s \in Stream, NEW n \in Nat
  PROVE  /\ Skip(s, n) \in Stream /\ Skip(s, n).buf = s.buf
         /\ Cursor(Skip(s, n)) = Cursor(s) + n
         /\ \A p : Bit(Skip(s, n), p) <=> Bit(s, p)
<1>1. PICK cB \in Nat, cb \in 0 .. 7 : s.currentByte = cB /\ s.currentBit = cb
  BY DEF Stream
<1>2. PICK a \in Nat : a = cb + n
  OBVIOUS
<1>3. a \div 8 \in Nat /\ a % 8 \in 0 .. 7 /\ a = 8 * (a \div 8) + (a % 8)
  BY Split
<1>4. PICK q \in Nat, r \in 0 .. 7 : q = cB + a \div 8 /\ r = a % 8
  BY <1>3
<1>5. Skip(s, n) = MoveTo(s, q, r)
  BY <1>1, <1>2, <1>4, Zenon DEF Skip, MoveTo
<1>6. /\ Skip(s, n) \in Stream /\ Skip(s, n).buf = s.buf
      /\ Skip(s, n).currentByte = q
      /\ Skip(s, n).currentBit = r
  <2>1. /\ MoveTo(s, q, r) \in Stream /\ MoveTo(s, q, r).buf = s.buf
        /\ MoveTo(s, q, r).currentByte = q /\ MoveTo(s, q, r).currentBit = r
    BY Moved, ZenonT(60)
  <2> QED  BY <1>5, <2>1, Zenon
<1>7. 8 * q + r = (8 * cB + cb) + n
  BY <1>2, <1>3, <1>4
<1> QED
  BY <1>1, <1>6, <1>7 DEF Cursor, Bit

\* BitStream_AppendNBitZero appends zeros, although it writes nothing: behind
\* the cursor there are zeros already.
LEMMA AppendZeros ==
  ASSUME NEW s \in Stream, Clean(s), NEW n \in Nat, Fits(s, n), NEW v, NEW w,
         \A i \in 1 .. n : w - i \notin v
  PROVE  Appended(s, BitStream_AppendNBitZero(s, n), v, w, n)
<1> DEFINE t == Skip(s, n)
<1>1. /\ t \in Stream /\ t.buf = s.buf /\ Cursor(t) = Cursor(s) + n
      /\ \A p : Bit(t, p) <=> Bit(s, p)
  BY SkipMoves
<1> HIDE DEF t
<1>2. /\ Cursor(s) \in Nat /\ Size(s) \in Nat /\ Size(t) = Size(s)
      /\ Cursor(s) + n <= Size(s)
  BY <1>1, Sizes DEF Fits, Size
<1>3. \A i \in 1 .. n : ~Bit(t, Cursor(s) + i - 1)
  BY <1>1, <1>2 DEF Clean
<1>4. Clean(t)
  BY <1>1, <1>2 DEF Clean
<1>5. Appended(s, t, v, w, n)
  BY <1>1, <1>2, <1>3, <1>4 DEF Appended
<1> QED
  BY <1>5 DEF t, BitStream_AppendNBitZero

\* An append ors its value into zeros: so it is enough to say which bits are
\* one after it.
LEMMA AppendOr ==
  ASSUME NEW s \in Stream, Clean(s), NEW n \in Nat, Fits(s, n),
         NEW v \in SUBSET (0 .. n - 1),
         NEW t \in Stream, Len(t.buf) = Len(s.buf), Cursor(t) = Cursor(s) + n,
         \A p \in 0 .. Size(s) - 1 :
           Bit(t, p) <=> Bit(s, p) \/ Cursor(s) + n - 1 - p \in v
  PROVE  Appended(s, t, v, n, n)
<1>1. PICK c \in Nat, size \in Nat : c = Cursor(s) /\ size = Size(s)
  BY Sizes
<1>2. /\ c + n <= size /\ Cursor(t) = c + n /\ Size(t) = size
      /\ \A p \in c .. size - 1 : ~Bit(s, p)
      /\ \A p \in 0 .. size - 1 : Bit(t, p) <=> Bit(s, p) \/ c + n - 1 - p \in v
  BY <1>1 DEF Fits, Clean, Size
<1>3. ASSUME NEW p \in 0 .. c - 1
      PROVE  Bit(t, p) <=> Bit(s, p)
  <2>1. p \in 0 .. size - 1 /\ ~(c + n - 1 - p \in v)
    BY <1>2
  <2> QED  BY <1>2, <2>1
<1>4. ASSUME NEW i \in 1 .. n
      PROVE  Bit(t, c + i - 1) <=> n - i \in v
  <2>1. PICK p \in 0 .. size - 1 : p = c + i - 1
    BY <1>2
  <2>2. p \in c .. size - 1 /\ c + n - 1 - p = n - i
    BY <2>1
  <2> QED  BY <1>2, <2>1, <2>2
<1>5. ASSUME NEW p \in c + n .. size - 1
      PROVE  ~Bit(t, p)
  <2>1. p \in 0 .. size - 1 /\ p \in c .. size - 1 /\ ~(c + n - 1 - p \in v)
    BY <1>2
  <2> QED  BY <1>2, <2>1
<1>6. Clean(t)
  BY <1>1, <1>2, <1>5 DEF Clean
<1> QED
  BY <1>1, <1>2, <1>3, <1>4, <1>6 DEF Appended

\* A mask that keeps the ones of the octet q makes the merge an or.
Keeps(s, q, mask) ==
  \A p \in 0 .. Size(s) - 1 : p \div 8 = q /\ Bit(s, p) => 7 - (p % 8) \in mask

\* Masks that keep what is before the cursor make a merge an or.
LEMMA MergeOr ==
  ASSUME NEW s \in Stream, NEW mask, NEW w \in SUBSET (0 .. 7),
         NEW q \in Nat, q = s.currentByte, q < Len(s.buf),
         Keeps(s, q, mask),
         NEW t, t = Merge(s, mask, w)
  PROVE  /\ t \in Stream /\ Len(t.buf) = Len(s.buf)
         /\ t.currentByte = q /\ t.currentBit = s.currentBit
         /\ \A p \in 0 .. Size(s) - 1 :
              Bit(t, p) <=> Bit(s, p) \/ (p \div 8 = q /\ 7 - (p % 8) \in w)
<1>1. /\ t \in Stream /\ Len(t.buf) = Len(s.buf)
      /\ t.currentByte = q /\ t.currentBit = s.currentBit
      /\ \A p \in 0 .. Size(s) - 1 :
           Bit(t, p) <=> IF p \div 8 = q
                         THEN 7 - (p % 8) \in w \/ (Bit(s, p) /\ 7 - (p % 8) \in mask)
                         ELSE Bit(s, p)
  BY MergeBits
<1>2. ASSUME NEW p \in 0 .. Size(s) - 1
      PROVE  Bit(t, p) <=> Bit(s, p) \/ (p \div 8 = q /\ 7 - (p % 8) \in w)
  BY <1>1, Zenon DEF Keeps
<1> QED
  BY <1>1, <1>2

\* In a clean stream the ones of the octet at the cursor are in its first bits.
LEMMA HighKeeps ==
  ASSUME NEW s \in Stream, Clean(s), NEW mask, High(s.currentBit) \subseteq mask,
         NEW p \in 0 .. Size(s) - 1, p \div 8 = s.currentByte, Bit(s, p)
  PROVE  7 - (p % 8) \in mask
<1>1. PICK q \in Nat, cb \in 0 .. 7, size \in Nat :
         q = s.currentByte /\ cb = s.currentBit /\ size = Size(s)
  BY Sizes
<1>2. PICK o \in Nat, k \in 0 .. 7 : p = 8 * o + k /\ p \div 8 = o /\ p % 8 = k
  BY <1>1, At
<1>3. Cursor(s) = 8 * q + cb
  BY <1>1 DEF Cursor
<1>4. ~(p \in 8 * q + cb .. size - 1)
  BY <1>1, <1>3 DEF Clean
<1>5. k < cb
  BY <1>1, <1>2, <1>4
<1>6. 7 - k \in High(cb)
  BY <1>5 DEF High
<1> QED
  BY <1>1, <1>2, <1>6

\* Where the bits of a value lie that ends at position e, octet q for octet q.
LEMMA ValuePosition ==
  ASSUME NEW q \in Nat, NEW e \in Nat, NEW p \in Nat
  PROVE  p \div 8 = q => 8 * q + e - 1 - p = (7 - (p % 8)) - (8 - e)
OBVIOUS

\* The bits of t are those of s and, up to n places behind its cursor, of v.
Ored(s, t, v, n) ==
  /\ t \in Stream /\ Len(t.buf) = Len(s.buf) /\ t.currentBit = s.currentBit
  /\ \A p \in 0 .. Size(s) - 1 :
       Bit(t, p) <=> Bit(s, p) \/ Cursor(s) + n - 1 - p \in v

\* A merge of n bits within the octet at the cursor.
MergedOne(s, t, mask, v, n) ==
  /\ s.currentByte < Len(s.buf) /\ s.currentBit + n <= 8
  /\ High(s.currentBit) \subseteq mask
  /\ t = Merge(s, mask, Shl(v, 8 - (s.currentBit + n)))

\* A merge of n bits into the octet at the cursor and, e of them, the next one.
MergedTwo(s, m, t, first, second, v, n, e) ==
  /\ s.currentByte + 1 < Len(s.buf) /\ s.currentBit + n = 8 + e
  /\ High(s.currentBit) \subseteq first
  /\ m = [Merge(s, first, Shr(v, e)) EXCEPT !.currentByte = @ + 1]
  /\ t = Merge(m, second, Shl(v, 8 - e))

\* A merge of n bits into the octet at the cursor.
LEMMA OneOctet ==
  ASSUME NEW s \in Stream, Clean(s), NEW n \in 0 .. 8, NEW v \in SUBSET (0 .. n - 1),
         NEW mask, NEW t, MergedOne(s, t, mask, v, n)
  PROVE  Ored(s, t, v, n) /\ t.currentByte = s.currentByte
<1>0. PICK q \in Nat, cb \in 0 .. 7, size \in Nat, c \in Nat :
        q = s.currentByte /\ cb = s.currentBit /\ size = Size(s) /\ c = Cursor(s)
  BY Sizes
<1>1. PICK e \in 0 .. 8 : e = cb + n /\ n <= e /\ c + n = 8 * q + e
  <2>1. c = 8 * q + cb
    BY <1>0 DEF Cursor
  <2>2. cb + n <= 8
    BY <1>0 DEF MergedOne
  <2> QED  BY <2>1, <2>2
<1> DEFINE w == Shl(v, 8 - e)
<1>2. 8 - e \in Nat /\ v \in SUBSET Nat
  OBVIOUS
<1>3. w \in SUBSET (0 .. 7) /\ \A b \in 0 .. 7 : b \in w <=> b - (8 - e) \in v
  BY <1>2, ShiftUp
<1> HIDE DEF w
<1>4. /\ t \in Stream /\ Len(t.buf) = Len(s.buf)
      /\ t.currentByte = s.currentByte /\ t.currentBit = s.currentBit
      /\ \A p \in 0 .. size - 1 :
           Bit(t, p) <=> Bit(s, p) \/ (p \div 8 = q /\ 7 - (p % 8) \in w)
  <2>1. Keeps(s, q, mask)
    BY <1>0, HighKeeps DEF MergedOne, Keeps
  <2>2. q < Len(s.buf)
    BY <1>0 DEF MergedOne
  <2>3. t = Merge(s, mask, w)
    BY <1>0, <1>1 DEF w, MergedOne
  <2>4. /\ t \in Stream /\ Len(t.buf) = Len(s.buf)
        /\ t.currentByte = q /\ t.currentBit = s.currentBit
        /\ \A p \in 0 .. Size(s) - 1 :
             Bit(t, p) <=> Bit(s, p) \/ (p \div 8 = q /\ 7 - (p % 8) \in w)
    <3>1. q = s.currentByte /\ w \in SUBSET (0 .. 7)
      BY <1>0, <1>3
    <3> QED  BY <2>1, <2>2, <2>3, <3>1, MergeOr
  <2> QED  BY <1>0, <2>4
<1>5. ASSUME NEW p \in 0 .. size - 1
      PROVE  p \div 8 = q /\ 7 - (p % 8) \in w <=> 8 * q + e - 1 - p \in v
  <2>1. p \in Nat /\ p % 8 \in 0 .. 7 /\ 7 - (p % 8) \in 0 .. 7
    BY Split
  <2>2. p \div 8 = q => 8 * q + e - 1 - p = (7 - (p % 8)) - (8 - e)
    BY <2>1, ValuePosition
  <2>3. 8 * q + e - 1 - p \in v => p \div 8 = q
    <3>1. 8 * q + e - 1 - p \in v => 8 * q + e - 1 - p \in 0 .. n - 1
      OBVIOUS
    <3> QED  BY <1>1, <2>1, <3>1
  <2> QED  BY <1>3, <2>1, <2>2, <2>3
<1>6. ASSUME NEW p \in 0 .. size - 1
      PROVE  Bit(t, p) <=> Bit(s, p) \/ 8 * q + e - 1 - p \in v
  BY <1>4, <1>5
<1>7. \A p \in 0 .. size - 1 : c + n - 1 - p = 8 * q + e - 1 - p
  BY <1>1
<1>8. \A p \in 0 .. Size(s) - 1 :
         Bit(t, p) <=> Bit(s, p) \/ Cursor(s) + n - 1 - p \in v
  BY <1>0, <1>6, <1>7
<1> QED
  BY <1>0, <1>4, <1>8 DEF Ored

\* Across the end of an octet: v has 8 - currentBit bits in the octet at the
\* cursor and e in the next one.
LEMMA TwoOctets ==
  ASSUME NEW s \in Stream, Clean(s), NEW e \in 1 .. 7, NEW n \in Nat,
         NEW v \in SUBSET (0 .. n - 1), NEW first, NEW second, NEW m, NEW t,
         MergedTwo(s, m, t, first, second, v, n, e)
  PROVE  Ored(s, t, v, n) /\ t.currentByte = s.currentByte + 1
<1>0. /\ s.currentByte + 1 < Len(s.buf) /\ s.currentBit + n = 8 + e
      /\ High(s.currentBit) \subseteq first
      /\ m = [Merge(s, first, Shr(v, e)) EXCEPT !.currentByte = @ + 1]
      /\ t = Merge(m, second, Shl(v, 8 - e))
  BY DEF MergedTwo
<1>1. PICK q \in Nat, cb \in 0 .. 7, len \in Nat, size \in Nat, c \in Nat :
        /\ q = s.currentByte /\ cb = s.currentBit /\ len = Len(s.buf)
        /\ size = Size(s) /\ c = Cursor(s)
  BY Sizes
<1>2. /\ q + 1 < len /\ cb + n = 8 + e /\ size = 8 * len
      /\ c = 8 * q + cb /\ q + 1 \in Nat /\ v \in SUBSET Nat
  <2>1. q + 1 < len /\ cb + n = 8 + e
    BY <1>0, <1>1
  <2>2. size = 8 * len /\ c = 8 * q + cb
    BY <1>1 DEF Cursor, Size
  <2>3. q + 1 \in Nat /\ v \in SUBSET Nat
    OBVIOUS
  <2> QED  BY <2>1, <2>2, <2>3
<1> DEFINE w1 == Shr(v, e)
           w2 == Shl(v, 8 - e)
           a == Merge(s, first, w1)
<1>3. w1 \in SUBSET (0 .. 7) /\ \A b \in 0 .. 7 : b \in w1 <=> b + e \in v
  BY <1>2, ShiftDown
<1>4. w2 \in SUBSET (0 .. 7) /\ \A b \in 0 .. 7 : b \in w2 <=> b - (8 - e) \in v
  BY <1>2, ShiftUp
<1> HIDE DEF w1, w2
<1>5. /\ a \in Stream /\ Len(a.buf) = len
      /\ a.currentByte = q /\ a.currentBit = cb
      /\ \A p \in 0 .. size - 1 :
           Bit(a, p) <=> Bit(s, p) \/ (p \div 8 = q /\ 7 - (p % 8) \in w1)
  <2>1. Keeps(s, q, first)
    BY <1>0, <1>1, HighKeeps DEF Keeps
  <2>2. q < Len(s.buf)
    BY <1>1, <1>2, SMTT(30)
  <2>3. /\ a \in Stream /\ Len(a.buf) = Len(s.buf)
        /\ a.currentByte = q /\ a.currentBit = s.currentBit
        /\ \A p \in 0 .. Size(s) - 1 :
             Bit(a, p) <=> Bit(s, p) \/ (p \div 8 = q /\ 7 - (p % 8) \in w1)
    <3>1. q = s.currentByte /\ w1 \in SUBSET (0 .. 7) /\ a = Merge(s, first, w1)
      BY <1>1, <1>3
    <3> HIDE DEF a
    <3> QED  BY <2>1, <2>2, <3>1, MergeOr
  <2> QED  BY <1>1, <2>3
<1> HIDE DEF a
<1>6. /\ m \in Stream /\ m.buf = a.buf
      /\ m.currentByte = q + 1 /\ m.currentBit = cb
  <2>1. m = [a EXCEPT !.currentByte = @ + 1]
    BY <1>0 DEF a, w1
  <2>2. m = [a EXCEPT !.currentByte = q + 1]
    BY <1>5, <2>1, Zenon
  <2> QED  BY <1>2, <1>5, <2>2 DEF Stream
<1>7. \A p : Bit(m, p) <=> Bit(a, p)
  BY <1>6 DEF Bit
<1>8. ASSUME NEW p \in 0 .. size - 1
      PROVE  ~(p \div 8 = q + 1 /\ Bit(m, p))
  <2> SUFFICES ASSUME p \div 8 = q + 1
               PROVE  ~Bit(m, p)
    OBVIOUS
  <2>1. p >= c
    BY <1>2
  <2>2. ~Bit(s, p)
    BY <1>0, <1>1, <2>1 DEF Clean
  <2>3. p \div 8 # q
    OBVIOUS
  <2> QED  BY <1>5, <1>7, <2>2, <2>3
<1>9. /\ t \in Stream /\ Len(t.buf) = Len(m.buf)
      /\ t.currentByte = q + 1 /\ t.currentBit = m.currentBit
      /\ \A p \in 0 .. size - 1 :
           Bit(t, p) <=> Bit(m, p) \/ (p \div 8 = q + 1 /\ 7 - (p % 8) \in w2)
  <2>1. Size(m) = size
    BY <1>2, <1>5, <1>6 DEF Size
  <2>2. Keeps(m, q + 1, second)
    BY <1>8, <2>1 DEF Keeps
  <2>3. t = Merge(m, second, w2)
    BY <1>0 DEF w2
  <2>4. q + 1 = m.currentByte /\ q + 1 < Len(m.buf)
    BY <1>2, <1>5, <1>6
  <2>5. PICK qq \in Nat : qq = q + 1
    BY <1>2
  <2>6. /\ t \in Stream /\ Len(t.buf) = Len(m.buf)
        /\ t.currentByte = qq /\ t.currentBit = m.currentBit
        /\ \A p \in 0 .. Size(m) - 1 :
             Bit(t, p) <=> Bit(m, p) \/ (p \div 8 = qq /\ 7 - (p % 8) \in w2)
    <3>1. qq = m.currentByte /\ qq < Len(m.buf) /\ Keeps(m, qq, second)
      BY <2>2, <2>4, <2>5, Zenon
    <3>2. m \in Stream /\ w2 \in SUBSET (0 .. 7)
      BY <1>4, <1>6
    <3> QED  BY <2>3, <3>1, <3>2, MergeOr
  <2> QED  BY <2>1, <2>5, <2>6
<1>10. ASSUME NEW p \in 0 .. size - 1
       PROVE  \/ p \div 8 = q /\ 7 - (p % 8) \in w1
              \/ p \div 8 = q + 1 /\ 7 - (p % 8) \in w2
              <=> c + n - 1 - p \in v
  <2>1. PICK o \in Nat, k \in 0 .. 7 : p = 8 * o + k /\ p \div 8 = o /\ p % 8 = k
    BY <1>2, At
  <2>2. /\ 7 - k \in w1 <=> (7 - k) + e \in v
        /\ 7 - k \in w2 <=> (7 - k) - (8 - e) \in v
    BY <1>3, <1>4
  <2>3. o = q => c + n - 1 - p = (7 - k) + e
    BY <1>2, <2>1
  <2>4. o = q + 1 => c + n - 1 - p = (7 - k) - (8 - e)
    BY <1>2, <2>1
  <2>5. c + n - 1 - p \in v => o = q \/ o = q + 1
    <3>1. c + n - 1 - p \in v => c + n - 1 - p \in 0 .. n - 1
      OBVIOUS
    <3> QED  BY <1>2, <2>1, <3>1
  <2>6. ~(q = q + 1)
    OBVIOUS
  <2> QED  BY <2>1, <2>2, <2>3, <2>4, <2>5, <2>6
<1>11. ASSUME NEW p \in 0 .. size - 1
       PROVE  Bit(t, p) <=> Bit(s, p) \/ c + n - 1 - p \in v
  BY <1>5, <1>7, <1>9, <1>10
<1> QED
  BY <1>1, <1>5, <1>6, <1>9, <1>11 DEF Ored

-----------------------------------------------------------------------------
\* BitStream_AppendPartialByte appends up to eight bits.
LEMMA AppendPartial ==
  ASSUME NEW s \in Stream, Clean(s), NEW n \in 1 .. 8, Fits(s, n),
         NEW v \in SUBSET (0 .. n - 1)
  PROVE  Appended(s, BitStream_AppendPartialByte(s, v, n), v, n, n)
<1>1. PICK q \in Nat, cb \in 0 .. 7, len \in Nat, size \in Nat, c \in Nat :
        /\ q = s.currentByte /\ cb = s.currentBit /\ len = Len(s.buf)
        /\ size = Size(s) /\ c = Cursor(s)
  BY Sizes
<1>2. size = 8 * len /\ c = 8 * q + cb /\ c + n <= size
  BY <1>1 DEF Cursor, Size, Fits
<1>3. CASE cb + n <= 8
  <2>1. PICK t : t = Merge(s, High(cb) \cup Low(8 - (cb + n)), Shl(v, 8 - (cb + n)))
    OBVIOUS
  <2>2. BitStream_AppendPartialByte(s, v, n) = Skip(t, n)
    BY <1>1, <1>3, <2>1 DEF BitStream_AppendPartialByte
  <2>3. Ored(s, t, v, n) /\ t.currentByte = s.currentByte
    <3>1. PICK mask : mask = High(cb) \cup Low(8 - (cb + n))
      OBVIOUS
    <3>2. High(s.currentBit) \subseteq mask
      BY <1>1, <3>1
    <3>3. t = Merge(s, mask, Shl(v, 8 - (s.currentBit + n)))
      BY <1>1, <2>1, <3>1
    <3>4. q < len /\ n \in 0 .. 8
      BY <1>2
    <3>5. s.currentByte < Len(s.buf) /\ s.currentBit + n <= 8
      BY <1>1, <1>3, <3>4
    <3>6. MergedOne(s, t, mask, v, n)
      BY <3>2, <3>3, <3>5 DEF MergedOne
    <3> QED  BY <3>4, <3>6, OneOctet
  <2>4. PICK u : u = Skip(t, n)
    OBVIOUS
  <2>5. /\ u \in Stream /\ u.buf = t.buf /\ Cursor(u) = Cursor(t) + n
        /\ \A p : Bit(u, p) <=> Bit(t, p)
    BY <2>3, <2>4, SkipMoves DEF Ored
  <2>6. /\ Len(u.buf) = Len(s.buf) /\ Cursor(u) = Cursor(s) + n
        /\ \A p \in 0 .. Size(s) - 1 :
             Bit(u, p) <=> Bit(s, p) \/ Cursor(s) + n - 1 - p \in v
    BY <2>3, <2>5 DEF Cursor, Ored
  <2>7. Appended(s, u, v, n, n)
    BY <2>5, <2>6, AppendOr
  <2> QED  BY <2>2, <2>4, <2>7
<1>4. CASE cb + n > 8
  <2>1. PICK e \in 1 .. 7 : cb + n = 8 + e /\ e = (cb + n) - 8
    BY <1>4
  <2>2. PICK m : m = [Merge(s, High(cb), Shr(v, e)) EXCEPT !.currentByte = @ + 1]
    OBVIOUS
  <2>3. PICK t : t = Merge(m, High(e), Shl(v, 8 - e))
    OBVIOUS
  <2>4. PICK u : u = [t EXCEPT !.currentBit = e]
    OBVIOUS
  <2>5. BitStream_AppendPartialByte(s, v, n) = u
    BY <1>1, <1>4, <2>1, <2>2, <2>3, <2>4 DEF BitStream_AppendPartialByte
  <2>6. Ored(s, t, v, n) /\ t.currentByte = s.currentByte + 1
    <3>1. q + 1 < len /\ n \in Nat
      BY <1>2, <2>1
    <3>2. MergedTwo(s, m, t, High(cb), High(e), v, n, e)
      BY <1>1, <2>1, <2>2, <2>3, <3>1 DEF MergedTwo
    <3> QED  BY <3>1, <3>2, TwoOctets
  <2>7. /\ u \in Stream /\ u.buf = t.buf
        /\ u.currentByte = t.currentByte /\ u.currentBit = e
    BY <2>4, <2>6 DEF Stream, Ored
  <2>8. /\ Cursor(u) = Cursor(s) + n
        /\ \A p : Bit(u, p) <=> Bit(t, p)
    <3>1. 8 * (q + 1) + e = c + n
      BY <1>2, <2>1
    <3>2. Cursor(u) = 8 * (q + 1) + e
      BY <1>1, <2>6, <2>7 DEF Cursor
    <3> QED  BY <1>1, <2>7, <3>1, <3>2 DEF Bit
  <2>9. Appended(s, u, v, n, n)
    <3>1. /\ Len(u.buf) = Len(s.buf) /\ Cursor(u) = Cursor(s) + n /\ u \in Stream
          /\ \A p \in 0 .. Size(s) - 1 :
               Bit(u, p) <=> Bit(s, p) \/ Cursor(s) + n - 1 - p \in v
      BY <2>6, <2>7, <2>8 DEF Ored
    <3> QED  BY <3>1, AppendOr
  <2> QED  BY <2>5, <2>9
<1> QED
  BY <1>3, <1>4

\* BitStream_AppendByte0 appends the eight low bits.
LEMMA AppendByte ==
  ASSUME NEW s \in Stream, Clean(s), Fits(s, 8), NEW v \in SUBSET (0 .. 7)
  PROVE  Appended(s, BitStream_AppendByte0(s, v), v, 8, 8)
<1>1. PICK q \in Nat, cb \in 0 .. 7, len \in Nat, size \in Nat, c \in Nat :
        /\ q = s.currentByte /\ cb = s.currentBit /\ len = Len(s.buf)
        /\ size = Size(s) /\ c = Cursor(s)
  BY Sizes
<1>2. size = 8 * len /\ c = 8 * q + cb /\ c + 8 <= size
  BY <1>1 DEF Cursor, Size, Fits
<1>3. PICK m : m = [Merge(s, High(cb), Shr(v, cb)) EXCEPT !.currentByte = @ + 1]
  OBVIOUS
<1>4. CASE cb = 0
  <2>1. BitStream_AppendByte0(s, v) = m
    BY <1>1, <1>3, <1>4 DEF BitStream_AppendByte0
  <2>2. PICK t : t = Merge(s, High(cb), Shr(v, cb))
    OBVIOUS
  <2>3. Shr(v, cb) = Shl(v, 8 - (cb + 8))
    BY <1>4 DEF Shr, Shl, Low
  <2>4. Ored(s, t, v, 8) /\ t.currentByte = s.currentByte
    <3>1. q < len
      BY <1>2
    <3>2. MergedOne(s, t, High(cb), v, 8)
      BY <1>1, <1>4, <2>2, <2>3, <3>1 DEF MergedOne
    <3>3. PICK n \in 0 .. 8 : n = 8
      OBVIOUS
    <3>4. v \in SUBSET (0 .. n - 1)
      BY <3>3
    <3>5. Ored(s, t, v, n) /\ t.currentByte = s.currentByte
      BY <3>2, <3>3, <3>4, OneOctet
    <3> QED  BY <3>3, <3>5
  <2>5. /\ m \in Stream /\ m.buf = t.buf
        /\ m.currentByte = q + 1 /\ m.currentBit = cb
    <3>1. m = [t EXCEPT !.currentByte = q + 1]
      BY <1>1, <1>3, <2>2, <2>4, Zenon
    <3> QED  BY <1>1, <2>4, <3>1 DEF Stream, Ored
  <2>6. /\ Cursor(m) = Cursor(s) + 8
        /\ \A p : Bit(m, p) <=> Bit(t, p)
    <3>1. 8 * (q + 1) + cb = c + 8
      BY <1>2
    <3> QED  BY <1>1, <2>5, <3>1 DEF Bit, Cursor
  <2>7. Appended(s, m, v, 8, 8)
    <3>1. /\ Len(m.buf) = Len(s.buf) /\ Cursor(m) = Cursor(s) + 8 /\ m \in Stream
          /\ \A p \in 0 .. Size(s) - 1 :
               Bit(m, p) <=> Bit(s, p) \/ Cursor(s) + 8 - 1 - p \in v
      BY <2>4, <2>5, <2>6 DEF Ored
    <3>2. 8 \in Nat /\ v \in SUBSET (0 .. 8 - 1)
      OBVIOUS
    <3> QED  BY <3>1, <3>2, AppendOr
  <2> QED  BY <2>1, <2>7
<1>5. CASE cb # 0
  <2>1. PICK t : t = Merge(m, Low(8 - cb), Shl(v, 8 - cb))
    OBVIOUS
  <2>2. BitStream_AppendByte0(s, v) = t
    BY <1>1, <1>3, <1>5, <2>1 DEF BitStream_AppendByte0
  <2>3. Ored(s, t, v, 8) /\ t.currentByte = s.currentByte + 1
    <3>1. q + 1 < len /\ cb \in 1 .. 7 /\ 8 \in Nat /\ v \in SUBSET (0 .. 8 - 1)
      BY <1>2, <1>5
    <3>2. MergedTwo(s, m, t, High(cb), Low(8 - cb), v, 8, cb)
      BY <1>1, <1>3, <2>1, <3>1 DEF MergedTwo
    <3> QED  BY <3>1, <3>2, TwoOctets
  <2>4. Cursor(t) = Cursor(s) + 8
    <3>1. 8 * (q + 1) + cb = c + 8
      BY <1>2
    <3> QED  BY <1>1, <2>3, <3>1 DEF Cursor, Ored
  <2>5. 8 \in Nat /\ v \in SUBSET (0 .. 8 - 1)
    OBVIOUS
  <2>6. Appended(s, t, v, 8, 8)
    BY <2>3, <2>4, <2>5, AppendOr DEF Ored
  <2> QED  BY <2>2, <2>6
<1> QED
  BY <1>4, <1>5

-----------------------------------------------------------------------------
(* The loops over octets. *)

\* A merge yields a stream, wherever the cursor is.
LEMMA MergeType ==
  ASSUME NEW s \in Stream, NEW mask, NEW v \in SUBSET (0 .. 7)
  PROVE  /\ Merge(s, mask, v) \in Stream
         /\ Merge(s, mask, v).currentByte = s.currentByte
         /\ Merge(s, mask, v).currentBit = s.currentBit
<1> DEFINE i == s.currentByte + 1
           new == [s.buf EXCEPT ![i] = (@ \cap mask) \cup v]
<1>1. s.buf \in Seq(Octet) /\ Len(s.buf) \in Nat /\ i \in Nat
  BY DEF Stream
<1>2. new \in Seq(Octet)
  <2>1. CASE i \in 1 .. Len(s.buf)
    <3>1. s.buf[i] \in Octet
      BY <1>1, <2>1
    <3>2. (s.buf[i] \cap mask) \cup v \in Octet
      BY <3>1 DEF Octet
    <3> QED  BY <1>1, <2>1, <3>2
  <2>2. CASE i \notin 1 .. Len(s.buf)
    <3>1. PICK f \in Seq(Octet), j \in Nat : f = s.buf /\ j = i
      BY <1>1, Zenon
    <3>2. j \notin 1 .. Len(f)
      BY <2>2, <3>1
    <3>3. [f EXCEPT ![j] = (f[j] \cap mask) \cup v] = f
      BY <3>2
    <3> QED  BY <3>1, <3>3
  <2> QED  BY <2>1, <2>2
<1>3. Merge(s, mask, v) = [s EXCEPT !.buf = new]
  BY DEF Merge, Stream
<1> HIDE DEF new
<1> QED
  BY <1>2, <1>3 DEF Stream

LEMMA ShiftType ==
  ASSUME NEW v, NEW n
  PROVE  Shr(v, n) \in SUBSET (0 .. 7) /\ Shl(v, n) \in SUBSET (0 .. 7)
BY DEF Shr, Shl, Low

\* One round of the loop of BitStream_AppendByteArray.
OctetPut(x, v, cb, first, second) ==
  Merge([Merge(x, first, Shr(v, cb)) EXCEPT !.currentByte = @ + 1],
        second, Shl(v, 8 - cb))

LEMMA OctetPutType ==
  ASSUME NEW x \in Stream, NEW v, NEW cb, NEW first, NEW second
  PROVE  OctetPut(x, v, cb, first, second) \in Stream
<1>1. PICK m : m = Merge(x, first, Shr(v, cb))
  OBVIOUS
<1>2. m \in Stream
  BY <1>1, ShiftType, MergeType
<1>3. [m EXCEPT !.currentByte = @ + 1] \in Stream
  BY <1>2, SMTT(30) DEF Stream
<1>4. PICK u : u = [m EXCEPT !.currentByte = @ + 1]
  OBVIOUS
<1>5. Merge(u, second, Shl(v, 8 - cb)) \in Stream
  BY <1>3, <1>4, ShiftType, MergeType
<1> QED
  BY <1>1, <1>4, <1>5, Zenon DEF OctetPut

\* An octet that is put at the cursor, over one octet or two, is appended.
LEMMA OctetPutAppends ==
  ASSUME NEW x \in Stream, Clean(x), Fits(x, 8), NEW v \in SUBSET (0 .. 7),
         x.currentBit # 0, NEW first, High(x.currentBit) \subseteq first, NEW second
  PROVE  Appended(x, OctetPut(x, v, x.currentBit, first, second), v, 8, 8)
<1>1. PICK q \in Nat, cb \in 0 .. 7, len \in Nat, size \in Nat, c \in Nat :
        /\ q = x.currentByte /\ cb = x.currentBit /\ len = Len(x.buf)
        /\ size = Size(x) /\ c = Cursor(x)
  BY Sizes
<1>2. size = 8 * len /\ c = 8 * q + cb /\ c + 8 <= size
  BY <1>1 DEF Cursor, Size, Fits
<1>3. cb \in 1 .. 7
  BY <1>1
<1>4. q + 1 < len
  BY <1>2, <1>3
<1>5. PICK m : m = [Merge(x, first, Shr(v, cb)) EXCEPT !.currentByte = @ + 1]
  OBVIOUS
<1>6. PICK t : t = Merge(m, second, Shl(v, 8 - cb))
  OBVIOUS
<1>7. OctetPut(x, v, x.currentBit, first, second) = t
  BY <1>1, <1>5, <1>6, Zenon DEF OctetPut
<1>8. MergedTwo(x, m, t, first, second, v, 8, cb)
  BY <1>1, <1>4, <1>5, <1>6 DEF MergedTwo
<1>9. 8 \in Nat /\ v \in SUBSET (0 .. 8 - 1)
  OBVIOUS
<1>10. Ored(x, t, v, 8) /\ t.currentByte = x.currentByte + 1
  BY <1>3, <1>8, <1>9, TwoOctets
<1>11. Cursor(t) = Cursor(x) + 8
  <2>1. 8 * (q + 1) + cb = c + 8
    BY <1>2
  <2> QED  BY <1>1, <1>10, <2>1 DEF Cursor, Ored
<1>12. Appended(x, t, v, 8, 8)
  BY <1>9, <1>10, <1>11, AppendOr DEF Ored
<1> QED
  BY <1>7, <1>12

\* A loop whose every round appends the next octet of the value.
LEMMA AppendLoop ==
  ASSUME NEW s \in Stream, NEW k \in Nat, NEW g, NEW v, NEW n \in Nat, NEW m \in Nat,
         Fits(s, m + 8 * k), Appended(s, g[0], v, n, m),
         \A i \in 1 .. k :
           /\ g[i - 1] \in Stream /\ Clean(g[i - 1]) /\ Fits(g[i - 1], 8)
           /\ Appended(s, g[i - 1], v, n, m + 8 * (i - 1))
           => Appended(g[i - 1], g[i], v, n - (m + 8 * (i - 1)), 8)
  PROVE  \A i \in 0 .. k : Appended(s, g[i], v, n, m + 8 * i)
<1> DEFINE S == {i \in 0 .. k : Appended(s, g[i], v, n, m + 8 * i)}
<1>1. 0 \in S
  OBVIOUS
<1>2. ASSUME NEW i \in 1 .. k, i - 1 \in S
      PROVE  i \in S
  <2>1. PICK j \in Nat : j = m + 8 * (i - 1)
    OBVIOUS
  <2>2. Appended(s, g[i - 1], v, n, j)
    BY <1>2, <2>1
  <2>3. PICK c \in Nat, size \in Nat : c = Cursor(s) /\ size = Size(s)
    BY Sizes
  <2>4. c + (m + 8 * k) <= size
    BY <2>3 DEF Fits
  <2>5. c + j + 8 <= size
    BY <2>1, <2>4
  <2>6. g[i - 1] \in Stream /\ Clean(g[i - 1]) /\ Fits(g[i - 1], 8)
    <3>1. /\ g[i - 1] \in Stream /\ Clean(g[i - 1])
          /\ Len(g[i - 1].buf) = Len(s.buf) /\ Cursor(g[i - 1]) = Cursor(s) + j
      BY <2>2 DEF Appended
    <3>2. Size(g[i - 1]) = size
      BY <2>3, <3>1 DEF Size
    <3> QED  BY <2>3, <2>5, <3>1, <3>2 DEF Fits
  <2>7. Appended(g[i - 1], g[i], v, n - j, 8)
    BY <2>1, <2>2, <2>6
  <2>8. Appended(s, g[i], v, n, j + 8)
    BY <2>2, <2>7, AppendMore
  <2>9. j + 8 = m + 8 * i /\ i \in 0 .. k
    BY <2>1
  <2> QED  BY <2>8, <2>9
<1>3. 0 .. k \subseteq S
  <2> HIDE DEF S
  <2> QED  BY <1>1, <1>2, InductionUpTo
<1> QED
  BY <1>3

\* The octets of arr are the leading ones of the value v of n bits.
Leading(arr, v, n) ==
  \A i \in 1 .. Len(arr) : \A b \in 0 .. 7 : b \in arr[i] <=> n - 8 * i + b \in v

\* BitStream_AppendByteArray appends octets, off an octet boundary.
LEMMA AppendArray ==
  ASSUME NEW s \in Stream, Clean(s), s.currentBit # 0, NEW arr \in Seq(Octet),
         Fits(s, 8 * Len(arr)), NEW v, NEW n \in Nat, Leading(arr, v, n)
  PROVE  Appended(s, BitStream_AppendByteArray(s, arr), v, n, 8 * Len(arr))
<1>1. PICK k \in Nat, cb \in 1 .. 7 : k = Len(arr) /\ cb = s.currentBit
  BY DEF Stream
<1> DEFINE Kept(i, mask) == IF i \in {1, Len(arr)} THEN mask ELSE Low(8)
           F(x, i) == OctetPut(x, arr[i], s.currentBit,
                               Kept(i, High(s.currentBit)), Kept(i, Low(8 - s.currentBit)))
           put[i \in 0 .. Len(arr)] == IF i = 0 THEN s ELSE F(put[i - 1], i)
<1>2. BitStream_AppendByteArray(s, arr) = put[Len(arr)]
  BY DEF BitStream_AppendByteArray, OctetPut
<1>3. put = [i \in 0 .. Len(arr) |-> IF i = 0 THEN s ELSE F(put[i - 1], i)]
  <2> DEFINE step == [y \in Stream \X (1 .. k) |-> F(y[1], y[2])]
  <2>1. step \in Steps(Stream, k)
    BY OctetPutType DEF Steps
  <2>2. \A x \in Stream, i \in 1 .. k : step[<<x, i>>] = F(x, i)
    OBVIOUS
  <2> HIDE DEF step, F
  <2>a. PICK g : Iterates(g, k, Stream, s, step)
    BY <2>1, Recursion
  <2>3. /\ g \in [0 .. k -> Stream] /\ g[0] = s
        /\ \A i \in 1 .. k : g[i] = step[<<g[i - 1], i>>]
    BY <2>a DEF Iterates
  <2>4. ASSUME NEW i \in 1 .. k
        PROVE  g[i] = F(g[i - 1], i)
    <3>1. g[i - 1] \in Stream
      BY <2>3
    <3> QED  BY <2>2, <2>3, <3>1
  <2>5. g = [i \in 0 .. k |-> IF i = 0 THEN s ELSE F(g[i - 1], i)]
    BY <2>3, <2>4
  <2>6. g = [i \in 0 .. Len(arr) |-> IF i = 0 THEN s ELSE F(g[i - 1], i)]
    BY <1>1, <2>5
  <2> QED  BY <2>6
<1> HIDE DEF put
<1>4. put[0] = s /\ \A i \in 1 .. k : put[i] = F(put[i - 1], i)
  <2> HIDE DEF F
  <2>1. put = [i \in 0 .. k |-> IF i = 0 THEN s ELSE F(put[i - 1], i)]
    BY <1>1, <1>3
  <2> QED  BY <2>1
<1>5. ASSUME NEW i \in 1 .. k,
             put[i - 1] \in Stream, Clean(put[i - 1]), Fits(put[i - 1], 8),
             Appended(s, put[i - 1], v, n, 0 + 8 * (i - 1))
      PROVE  Appended(put[i - 1], put[i], v, n - (0 + 8 * (i - 1)), 8)
  <2>1. PICK x \in Stream : x = put[i - 1]
    BY <1>5
  <2>2. x.currentBit = s.currentBit
    <3>1. PICK q \in Nat, c \in Nat : q = s.currentByte /\ c = Cursor(s)
      BY Sizes
    <3>2. PICK r \in Nat, d \in 0 .. 7 : r = x.currentByte /\ d = x.currentBit
      BY Sizes
    <3>3. 8 * r + d = 8 * q + cb + 8 * (i - 1)
      <4>1. Cursor(x) = Cursor(s) + (0 + 8 * (i - 1))
        BY <1>5, <2>1 DEF Appended
      <4>2. Cursor(x) = 8 * r + d /\ Cursor(s) = 8 * q + cb
        BY <1>1, <3>1, <3>2 DEF Cursor
      <4> QED  BY <4>1, <4>2
    <3>4. PICK j \in Nat, b \in 0 .. 7 : j = i - 1 /\ b = cb
      <4>1. i - 1 \in Nat /\ cb \in 0 .. 7
        OBVIOUS
      <4> QED  BY <4>1
    <3>5. d = b
      <4>1. 8 * r + d = 8 * q + b + 8 * j
        BY <3>3, <3>4
      <4> QED  BY <4>1, SameBit
    <3> QED  BY <1>1, <3>2, <3>4, <3>5
  <2>3. PICK first, second : /\ first = Kept(i, High(s.currentBit))
                             /\ second = Kept(i, Low(8 - s.currentBit))
    OBVIOUS
  <2>4. High(x.currentBit) \subseteq first
    <3>1. High(cb) \subseteq Low(8)
      BY DEF High, Low
    <3> QED  BY <1>1, <2>2, <2>3, <3>1
  <2>5. arr[i] \in SUBSET (0 .. 7)
    BY <1>1 DEF Octet
  <2>6. Appended(x, OctetPut(x, arr[i], x.currentBit, first, second), arr[i], 8, 8)
    <3>1. Clean(x) /\ Fits(x, 8) /\ x.currentBit # 0
      BY <1>1, <1>5, <2>1, <2>2
    <3> QED  BY <2>4, <2>5, <3>1, OctetPutAppends
  <2>7. put[i] = OctetPut(x, arr[i], x.currentBit, first, second)
    BY <1>4, <2>1, <2>2, <2>3, Zenon
  <2>8. PICK a \in Int : a = n - (0 + 8 * (i - 1))
    OBVIOUS
  <2>9. ASSUME NEW j \in 1 .. 8
        PROVE  8 - j \in arr[i] <=> a - j \in v
    <3>1. PICK b \in 0 .. 7 : b = 8 - j
      OBVIOUS
    <3>2. b \in arr[i] <=> n - 8 * i + b \in v
      BY <1>1 DEF Leading
    <3>3. n - 8 * i + b = a - j
      BY <2>8, <3>1
    <3> QED  BY <3>1, <3>2, <3>3
  <2>10. Appended(x, put[i], v, a, 8)
    BY <2>6, <2>7, <2>9, AppendSame
  <2> QED  BY <2>1, <2>8, <2>10
<1>6. Fits(s, 0 + 8 * k) /\ Appended(s, put[0], v, n, 0)
  BY <1>1, <1>4, AppendNothing
<1> HIDE DEF Kept, F
<1>7. \A i \in 0 .. k : Appended(s, put[i], v, n, 0 + 8 * i)
  BY <1>5, <1>6, AppendLoop
<1>8. Appended(s, put[k], v, n, 8 * k)
  BY <1>7
<1> QED
  BY <1>1, <1>2, <1>8

\* BitStream_EncodeOctetString_no_length appends octets, wherever the cursor is.
LEMMA AppendOctets ==
  ASSUME NEW s \in Stream, Clean(s), NEW arr \in Seq(Octet),
         Fits(s, 8 * Len(arr)), NEW v, NEW n \in Nat, Leading(arr, v, n)
  PROVE  Appended(s, BitStream_EncodeOctetString_no_length(s, arr), v, n, 8 * Len(arr))
<1>1. CASE s.currentBit # 0
  <2>1. BitStream_EncodeOctetString_no_length(s, arr) = BitStream_AppendByteArray(s, arr)
    BY <1>1 DEF BitStream_EncodeOctetString_no_length
  <2> QED  BY <1>1, <2>1, AppendArray
<1>2. CASE s.currentBit = 0
  <2>1. PICK q \in Nat, len \in Nat, size \in Nat, c \in Nat, k \in Nat :
          /\ q = s.currentByte /\ len = Len(s.buf) /\ k = Len(arr)
          /\ size = Size(s) /\ c = Cursor(s)
    BY Sizes
  <2>2. size = 8 * len /\ c = 8 * q /\ c + 8 * k <= size /\ q + k \in Nat
    BY <1>2, <2>1, SMTT(30) DEF Cursor, Size, Fits
  <2> DEFINE new == [i \in DOMAIN s.buf |->
                       IF i - q \in DOMAIN arr THEN arr[i - q] ELSE s.buf[i]]
             t == [s EXCEPT !.buf = new, !.currentByte = q + k]
  <2>3. BitStream_EncodeOctetString_no_length(s, arr) = t
    <3>1. s.currentByte + Len(arr) = q + k
      BY <2>1
    <3> QED  BY <1>2, <2>1, <3>1, Zenon DEF BitStream_EncodeOctetString_no_length
  <2>4. new \in Seq(Octet) /\ Len(new) = len
    <3>1. s.buf \in Seq(Octet) /\ DOMAIN s.buf = 1 .. len
      BY <2>1 DEF Stream
    <3>2. ASSUME NEW i \in 1 .. len
          PROVE  (IF i - q \in DOMAIN arr THEN arr[i - q] ELSE s.buf[i]) \in Octet
      <4>1. CASE i - q \in DOMAIN arr
        BY <4>1
      <4>2. CASE i - q \notin DOMAIN arr
        BY <2>1, <3>1, <4>2
      <4> QED  BY <4>1, <4>2
    <3> QED  BY <3>1, <3>2
  <2>5. \A i \in 1 .. len : new[i] = IF i - q \in 1 .. k THEN arr[i - q] ELSE s.buf[i]
    BY <2>1 DEF Stream
  <2> HIDE DEF new
  <2>6. /\ t \in Stream /\ t.buf = new
        /\ t.currentByte = q + k /\ t.currentBit = 0
    BY <1>2, <2>2, <2>4 DEF Stream
  <2> HIDE DEF t
  <2>7. ASSUME NEW p \in 0 .. size - 1
        PROVE  Bit(t, p) <=> IF p \in c .. c + 8 * k - 1
                             THEN n - (p - c + 1) \in v ELSE Bit(s, p)
    <3>1. PICK o \in Nat, b \in 0 .. 7 : p = 8 * o + b /\ p \div 8 = o /\ p % 8 = b
      BY At
    <3>2. PICK j \in 1 .. len : j = o + 1
      BY <2>2, <3>1
    <3>3. Bit(t, p) <=> 7 - b \in new[j]
      BY <2>6, <3>1, <3>2 DEF Bit
    <3>4. Bit(s, p) <=> 7 - b \in s.buf[j]
      BY <3>1, <3>2 DEF Bit
    <3>5. p \in c .. c + 8 * k - 1 <=> j - q \in 1 .. k
      BY <2>2, <3>1, <3>2
    <3>6. ASSUME j - q \in 1 .. k
          PROVE  7 - b \in arr[j - q] <=> n - (p - c + 1) \in v
      <4>a. j - q \in 1 .. k /\ 7 - b \in 0 .. 7
        BY <3>6
      <4>1. PICK i \in 1 .. k, d \in 0 .. 7 : i = j - q /\ d = 7 - b
        BY <4>a
      <4>2. d \in arr[i] <=> n - 8 * i + d \in v
        BY <2>1 DEF Leading
      <4>3. n - 8 * i + d = n - (p - c + 1)
        BY <2>2, <3>1, <3>2, <4>1
      <4> QED  BY <4>1, <4>2, <4>3
    <3> QED  BY <2>5, <3>3, <3>4, <3>5, <3>6
  <2>8. Cursor(t) = c + 8 * k
    <3>1. 8 * (q + k) + 0 = c + 8 * k
      BY <2>2
    <3> QED  BY <2>6, <3>1 DEF Cursor
  <2>9. \A p \in 0 .. c - 1 : Bit(t, p) <=> Bit(s, p)
    <3>1. \A p \in 0 .. c - 1 : p \in 0 .. size - 1 /\ p \notin c .. c + 8 * k - 1
      BY <2>2
    <3> QED  BY <2>7, <3>1
  <2>10. ASSUME NEW i \in 1 .. 8 * k
         PROVE  Bit(t, c + i - 1) <=> n - i \in v
    <3>1. PICK p \in 0 .. size - 1 : p = c + i - 1
      BY <2>2
    <3>2. p \in c .. c + 8 * k - 1 /\ n - (p - c + 1) = n - i
      BY <3>1
    <3> QED  BY <2>7, <3>1, <3>2
  <2>11. Clean(t)
    <3>1. ASSUME NEW p \in c + 8 * k .. size - 1
          PROVE  ~Bit(t, p)
      <4>1. p \in 0 .. size - 1 /\ p \notin c .. c + 8 * k - 1 /\ p \in c .. size - 1
        OBVIOUS
      <4>2. ~Bit(s, p)
        BY <2>1, <4>1 DEF Clean
      <4> QED  BY <2>7, <4>1, <4>2
    <3>2. Size(t) = size
      BY <2>2, <2>4, <2>6 DEF Size
    <3> QED  BY <2>8, <3>1, <3>2 DEF Clean
  <2>12. Appended(s, t, v, n, 8 * k)
    BY <2>1, <2>4, <2>6, <2>8, <2>9, <2>10, <2>11 DEF Appended
  <2> QED  BY <2>1, <2>3, <2>12
<1> QED
  BY <1>1, <1>2

-----------------------------------------------------------------------------
(* The values of a field. *)

\* The bits of a value are those of the field.
LEMMA ValueBits ==
  ASSUME NEW bits, NEW p \in Nat, NEW n \in Nat
  PROVE  /\ ValueAt(bits, p, n) \in SUBSET (0 .. n - 1)
         /\ \A i \in 1 .. n : n - i \in ValueAt(bits, p, n) <=> bits[p + i]
BY DEF ValueAt

\* The significant bits.
LEMMA SignificantBits ==
  ASSUME NEW n \in Nat, NEW v \in SUBSET (0 .. n - 1)
  PROVE  NumberOfBits(v) \in 0 .. n /\ v \in SUBSET (0 .. NumberOfBits(v) - 1)
<1>1. CASE v = {}
  BY <1>1 DEF NumberOfBits
<1>2. CASE v # {}
  <2>1. \E b \in v : \A c \in v : c <= b
    BY <1>2, Maximum
  <2>2. PICK m \in v : m = (CHOOSE b \in v : \A c \in v : c <= b) /\ \A c \in v : c <= m
    BY <2>1
  <2>3. NumberOfBits(v) = 1 + m
    BY <1>2, <2>2 DEF NumberOfBits
  <2>4. m \in 0 .. n - 1
    BY <2>2
  <2>5. ASSUME NEW c \in v
        PROVE  c \in 0 .. (1 + m) - 1
    BY <2>2, <2>4
  <2> QED  BY <2>3, <2>4, <2>5
<1> QED
  BY <1>1, <1>2

\* BitStream_AppendBits appends the bits of a field.
LEMMA AppendBitPattern ==
  ASSUME NEW s \in Stream, Clean(s), NEW bits \in Seq(BOOLEAN), Fits(s, Len(bits))
  PROVE  Appended(s, BitStream_AppendBits(s, bits),
                  ValueAt(bits, 0, Len(bits)), Len(bits), Len(bits))
<1>a. PICK L \in Nat : L = Len(bits)
  OBVIOUS
<1>b. PICK k \in Nat, r \in 0 .. 7 : k = L \div 8 /\ r = L % 8
  BY Split
<1>1. L = 8 * k + r
  BY <1>b, Split
<1>2. PICK v : v = ValueAt(bits, 0, L)
  OBVIOUS
<1>3. \A i \in 1 .. L : L - i \in v <=> bits[i]
  <2>1. \A i \in 1 .. L : L - i \in ValueAt(bits, 0, L) <=> bits[0 + i]
    BY ValueBits
  <2>2. \A i \in 1 .. L : 0 + i = i
    OBVIOUS
  <2> QED  BY <1>2, <2>1, <2>2
<1>4. PICK arr : arr = Octets(bits)
  OBVIOUS
<1>5. arr \in Seq(Octet) /\ Len(arr) = k /\ \A i \in 1 .. k : arr[i] = ValueAt(bits, 8 * (i - 1), 8)
  <2>1. arr = [i \in 1 .. k |-> ValueAt(bits, 8 * (i - 1), 8)]
    BY <1>a, <1>b, <1>4 DEF Octets
  <2>2. ASSUME NEW i \in 1 .. k
        PROVE  ValueAt(bits, 8 * (i - 1), 8) \in Octet
    <3>1. ValueAt(bits, 8 * (i - 1), 8) \in SUBSET (0 .. 8 - 1)
      BY ValueBits
    <3> QED  BY <3>1 DEF Octet
  <2> QED  BY <2>1, <2>2
<1>6. ASSUME NEW i \in 1 .. k, NEW b \in 0 .. 7
      PROVE  b \in arr[i] <=> L - 8 * i + b \in v
  <2>1. PICK j \in 1 .. 8, p \in Nat : j = 8 - b /\ p = 8 * (i - 1)
    OBVIOUS
  <2>2. 8 - j \in ValueAt(bits, p, 8) <=> bits[p + j]
    BY ValueBits
  <2>3. PICK m \in 1 .. L : m = p + j
    <3>1. p + j \in Nat /\ p + j >= 1 /\ p + j <= 8 * k
      BY <2>1
    <3>2. p + j \in 1 .. L
      BY <1>1, <3>1
    <3> QED  BY <3>2
  <2>4. 8 - j = b /\ L - m = L - 8 * i + b
    BY <2>1, <2>3
  <2> QED  BY <1>3, <1>5, <2>1, <2>2, <2>3, <2>4
<1>7. PICK u : u = BitStream_EncodeOctetString_no_length(s, arr)
  OBVIOUS
<1>8. Appended(s, u, v, L, 8 * k)
  <2>1. Fits(s, 8 * Len(arr))
    <3>1. Cursor(s) \in Nat /\ Size(s) \in Nat /\ Cursor(s) + L <= Size(s)
      BY <1>a, Sizes DEF Fits
    <3>2. PICK c \in Nat, size \in Nat : c = Cursor(s) /\ size = Size(s)
      BY <3>1
    <3>3. c + 8 * k <= size
      BY <1>1, <3>1, <3>2
    <3> QED  BY <1>5, <3>2, <3>3 DEF Fits
  <2>2. Leading(arr, v, L)
    BY <1>5, <1>6 DEF Leading
  <2>3. Appended(s, u, v, L, 8 * Len(arr))
    BY <1>5, <1>7, <2>1, <2>2, AppendOctets
  <2> QED  BY <1>5, <2>3
<1>9. CASE r = 0
  <2>1. BitStream_AppendBits(s, bits) = u
    BY <1>a, <1>b, <1>4, <1>7, <1>9 DEF BitStream_AppendBits
  <2> QED  BY <1>a, <1>1, <1>2, <1>8, <1>9, <2>1
<1>10. CASE r # 0
  <2>1. PICK w : w = ValueAt(bits, L - r, r)
    OBVIOUS
  <2>2. BitStream_AppendBits(s, bits) = BitStream_AppendPartialByte(u, w, r)
    BY <1>a, <1>b, <1>4, <1>7, <1>10, <2>1 DEF BitStream_AppendBits
  <2>3. PICK m \in Nat : m = L - r
    BY <1>1
  <2>4. w \in SUBSET (0 .. r - 1) /\ \A i \in 1 .. r : r - i \in w <=> bits[m + i]
    <3>1. /\ ValueAt(bits, m, r) \in SUBSET (0 .. r - 1)
          /\ \A i \in 1 .. r : r - i \in ValueAt(bits, m, r) <=> bits[m + i]
      <4>1. r \in Nat
        OBVIOUS
      <4> QED  BY <4>1, ValueBits
    <3> QED  BY <2>1, <2>3, <3>1
  <2>5. u \in Stream /\ Clean(u) /\ Fits(u, r)
    <3>1. /\ u \in Stream /\ Clean(u) /\ Len(u.buf) = Len(s.buf)
          /\ Cursor(u) = Cursor(s) + 8 * k
      BY <1>8 DEF Appended
    <3>2. PICK c \in Nat, size \in Nat : c = Cursor(s) /\ size = Size(s)
      BY Sizes
    <3>3. c + L <= size
      BY <1>a, <3>2 DEF Fits
    <3>4. c + 8 * k + r <= size
      BY <1>1, <3>3
    <3> QED  BY <3>1, <3>2, <3>4 DEF Fits, Size
  <2>6. Appended(u, BitStream_AppendPartialByte(u, w, r), w, r, r)
    BY <1>10, <2>4, <2>5, AppendPartial
  <2>7. ASSUME NEW i \in 1 .. r
        PROVE  r - i \in w <=> (L - 8 * k) - i \in v
    <3>1. PICK j \in 1 .. L : j = m + i
      BY <1>1, <2>3
    <3>2. L - j = (L - 8 * k) - i
      BY <1>1, <2>3, <3>1
    <3> QED  BY <1>3, <2>4, <3>1, <3>2
  <2>8. Appended(u, BitStream_AppendPartialByte(u, w, r), v, L - 8 * k, r)
    BY <2>6, <2>7, AppendSame
  <2>9. Appended(s, BitStream_AppendPartialByte(u, w, r), v, L, 8 * k + r)
    <3>1. PICK e \in Nat : e = 8 * k
      OBVIOUS
    <3>2. r \in Nat
      OBVIOUS
    <3>3. Appended(s, u, v, L, e) /\ Appended(u, BitStream_AppendPartialByte(u, w, r), v, L - e, r)
      BY <1>8, <2>8, <3>1
    <3>4. Appended(s, BitStream_AppendPartialByte(u, w, r), v, L, e + r)
      BY <3>2, <3>3, AppendMore
    <3> QED  BY <3>1, <3>4
  <2> QED  BY <1>a, <1>1, <1>2, <2>2, <2>9
<1> QED
  BY <1>9, <1>10

-----------------------------------------------------------------------------
(* The integers. *)

\* Appending an octet to any stream gives a stream.
LEMMA ByteType ==
  ASSUME NEW s \in Stream, NEW v
  PROVE  BitStream_AppendByte0(s, v) \in Stream
<1>1. PICK m : m = Merge(s, High(s.currentBit), Shr(v, s.currentBit))
  OBVIOUS
<1>2. m \in Stream
  BY <1>1, ShiftType, MergeType
<1>3. [m EXCEPT !.currentByte = @ + 1] \in Stream
  BY <1>2, SMTT(30) DEF Stream
<1>4. PICK u : u = [m EXCEPT !.currentByte = @ + 1]
  OBVIOUS
<1>5. Merge(u, Low(8 - s.currentBit), Shl(v, 8 - s.currentBit)) \in Stream
  BY <1>3, <1>4, ShiftType, MergeType
<1> QED
  BY <1>1, <1>3, <1>4, <1>5, Zenon DEF BitStream_AppendByte0

\* A round of the loops over the octets of an integer: j octets are left.
LEMMA AppendNextByte ==
  ASSUME NEW x \in Stream, Clean(x), Fits(x, 8), NEW n \in Nat,
         NEW v \in SUBSET (0 .. n - 1), NEW j \in Nat
  PROVE  Appended(x, BitStream_AppendByte0(x, Shr(v, 8 * j)), v, 8 * j + 8, 8)
<1>1. PICK w : w = Shr(v, 8 * j)
  OBVIOUS
<1>2. w \in SUBSET (0 .. 7) /\ \A b \in 0 .. 7 : b \in w <=> b + 8 * j \in v
  <2>1. v \in SUBSET Nat /\ 8 * j \in Nat
    OBVIOUS
  <2> QED  BY <1>1, <2>1, ShiftDown
<1>3. Appended(x, BitStream_AppendByte0(x, w), w, 8, 8)
  BY <1>2, AppendByte
<1>4. ASSUME NEW i \in 1 .. 8
      PROVE  8 - i \in w <=> (8 * j + 8) - i \in v
  <2>1. 8 - i \in 0 .. 7 /\ (8 - i) + 8 * j = (8 * j + 8) - i
    OBVIOUS
  <2> QED  BY <1>2, <2>1
<1> QED
  BY <1>1, <1>3, <1>4, AppendSame

\* The loop itself: k octets of v behind what g[0] has appended.
LEMMA AppendBytes ==
  ASSUME NEW s \in Stream, NEW k \in Nat, NEW m \in Nat, Fits(s, m + 8 * k),
         NEW v \in SUBSET (0 .. (m + 8 * k) - 1),
         NEW g, Appended(s, g[0], v, m + 8 * k, m),
         \A i \in 1 .. k : g[i] = BitStream_AppendByte0(g[i - 1], Shr(v, 8 * (k - i)))
  PROVE  Appended(s, g[k], v, m + 8 * k, m + 8 * k)
<1>1. PICK n \in Nat : n = m + 8 * k
  OBVIOUS
<1>2. ASSUME NEW i \in 1 .. k,
             g[i - 1] \in Stream, Clean(g[i - 1]), Fits(g[i - 1], 8)
      PROVE  Appended(g[i - 1], g[i], v, n - (m + 8 * (i - 1)), 8)
  <2>1. PICK j \in Nat : j = k - i
    OBVIOUS
  <2>2. v \in SUBSET (0 .. n - 1)
    BY <1>1
  <2>3. Appended(g[i - 1], BitStream_AppendByte0(g[i - 1], Shr(v, 8 * j)), v, 8 * j + 8, 8)
    BY <1>2, <2>2, AppendNextByte
  <2>4. g[i] = BitStream_AppendByte0(g[i - 1], Shr(v, 8 * j))
    BY <2>1
  <2>5. 8 * j + 8 = n - (m + 8 * (i - 1))
    BY <1>1, <2>1
  <2> QED  BY <2>3, <2>4, <2>5
<1>3. Fits(s, m + 8 * k) /\ Appended(s, g[0], v, n, m)
  BY <1>1
<1>4. \A i \in 0 .. k : Appended(s, g[i], v, n, m + 8 * i)
  BY <1>2, <1>3, AppendLoop
<1>5. Appended(s, g[k], v, n, m + 8 * k)
  BY <1>4
<1> QED
  BY <1>1, <1>5

\* A function defined by the loop over the octets of v exists.
LEMMA BytesExist ==
  ASSUME NEW a \in Stream, NEW k \in Nat, NEW v
  PROVE  \E g : g = [i \in 0 .. k |->
                  IF i = 0 THEN a
                  ELSE BitStream_AppendByte0(g[i - 1], Shr(v, 8 * (k - i)))]
<1> DEFINE F(x, i) == BitStream_AppendByte0(x, Shr(v, 8 * (k - i)))
           step == [y \in Stream \X (1 .. k) |-> F(y[1], y[2])]
<1>1. step \in Steps(Stream, k)
  BY ByteType DEF Steps
<1>2. \A x \in Stream, i \in 1 .. k : step[<<x, i>>] = F(x, i)
  OBVIOUS
<1> HIDE DEF step, F
<1>3. PICK g : Iterates(g, k, Stream, a, step)
  BY <1>1, Recursion
<1>4. /\ g \in [0 .. k -> Stream] /\ g[0] = a
      /\ \A i \in 1 .. k : g[i] = step[<<g[i - 1], i>>]
  BY <1>3 DEF Iterates
<1>5. ASSUME NEW i \in 1 .. k
      PROVE  g[i] = F(g[i - 1], i)
  <2>1. g[i - 1] \in Stream
    BY <1>4
  <2> QED  BY <1>2, <1>4, <2>1
<1>6. g = [i \in 0 .. k |-> IF i = 0 THEN a ELSE F(g[i - 1], i)]
  BY <1>4, <1>5
<1> QED
  BY <1>6 DEF F

\* BitStream_EncodeNonNegativeInteger appends the significant bits.
LEMMA AppendInteger ==
  ASSUME NEW s \in Stream, Clean(s), NEW L \in Nat, NEW v \in SUBSET (0 .. L - 1),
         Fits(s, NumberOfBits(v))
  PROVE  Appended(s, BitStream_EncodeNonNegativeInteger(s, v),
                  v, NumberOfBits(v), NumberOfBits(v))
<1>1. PICK n \in Nat : n = NumberOfBits(v)
  BY SignificantBits
<1>2. v \in SUBSET (0 .. n - 1)
  BY <1>1, SignificantBits
<1>3. PICK k \in Nat, r \in 0 .. 7 : k = n \div 8 /\ r = n % 8
  BY Split
<1>4. n = r + 8 * k
  BY <1>3, Split
<1> DEFINE a == IF r = 0 THEN s ELSE BitStream_AppendPartialByte(s, Shr(v, n - r), r)
           bytes[i \in 0 .. n \div 8] ==
             IF i > 0
             THEN BitStream_AppendByte0(bytes[i-1], Shr(v, 8 * (n \div 8 - i)))
             ELSE IF n % 8 = 0 THEN s
             ELSE BitStream_AppendPartialByte(s, Shr(v, n - (n % 8)), n % 8)
<1>5. BitStream_EncodeNonNegativeInteger(s, v) = bytes[n \div 8]
  BY <1>1 DEF BitStream_EncodeNonNegativeInteger
<1>6. Appended(s, a, v, n, r)
  <2>1. CASE r = 0
    BY <2>1, AppendNothing
  <2>2. CASE r # 0
    <3>0. PICK m \in Nat : m = n - r
      <4>1. n - r \in Nat
        BY <1>4
      <4> QED  BY <4>1
    <3>1. PICK w : w = Shr(v, m)
      OBVIOUS
    <3>2. w \in SUBSET (0 .. 7) /\ \A b \in 0 .. 7 : b \in w <=> b + m \in v
      <4>1. v \in SUBSET Nat
        BY <1>2
      <4> QED  BY <3>1, <4>1, ShiftDown
    <3>3. w \in SUBSET (0 .. r - 1)
      <4>1. ASSUME NEW b \in w
            PROVE  b \in 0 .. r - 1
        <5>1. b \in 0 .. 7 /\ b + m \in 0 .. n - 1
          BY <1>2, <3>2
        <5> QED  BY <3>0, <5>1
      <4> QED  BY <4>1
    <3>4. Fits(s, r)
      <4>1. PICK c \in Nat, size \in Nat : c = Cursor(s) /\ size = Size(s)
        BY Sizes
      <4>2. c + n <= size
        BY <1>1, <4>1 DEF Fits
      <4>3. c + r <= size
        BY <1>4, <4>2
      <4> QED  BY <4>1, <4>3 DEF Fits
    <3>5. Appended(s, BitStream_AppendPartialByte(s, w, r), w, r, r)
      <4>1. r \in 1 .. 8
        BY <2>2
      <4> QED  BY <3>3, <3>4, <4>1, AppendPartial
    <3>6. ASSUME NEW i \in 1 .. r
          PROVE  r - i \in w <=> n - i \in v
      <4>1. r - i \in 0 .. 7 /\ (r - i) + m = n - i
        BY <3>0
      <4> QED  BY <3>2, <4>1
    <3>7. Appended(s, BitStream_AppendPartialByte(s, w, r), v, n, r)
      BY <3>5, <3>6, AppendSame
    <3> QED  BY <2>2, <3>0, <3>1, <3>7
  <2> QED  BY <2>1, <2>2
<1>7. bytes = [i \in 0 .. k |-> IF i = 0 THEN a
                  ELSE BitStream_AppendByte0(bytes[i - 1], Shr(v, 8 * (k - i)))]
  <2> DEFINE F(x, i) == BitStream_AppendByte0(x, Shr(v, 8 * (k - i)))
  <2>1. \E g : g = [i \in 0 .. k |-> IF i = 0 THEN a ELSE F(g[i - 1], i)]
    <3>1. a \in Stream
      BY <1>6 DEF Appended
    <3> HIDE DEF a
    <3> QED  BY <3>1, BytesExist, ZenonT(60)
  <2>2. bytes = CHOOSE g : g = [i \in 0 .. k |->
                    IF i > 0 THEN F(g[i - 1], i) ELSE a]
    BY <1>3
  <2> HIDE DEF bytes, F, a
  <2>3. \A g : [i \in 0 .. k |-> IF i > 0 THEN F(g[i - 1], i) ELSE a]
                = [i \in 0 .. k |-> IF i = 0 THEN a ELSE F(g[i - 1], i)]
    OBVIOUS
  <2>4. PICK g : g = [i \in 0 .. k |-> IF i > 0 THEN F(g[i - 1], i) ELSE a]
    BY <2>1, <2>3
  <2>5. bytes = [i \in 0 .. k |-> IF i > 0 THEN F(bytes[i - 1], i) ELSE a]
    BY <2>2, <2>4, Zenon
  <2>6. bytes = [i \in 0 .. k |-> IF i = 0 THEN a ELSE F(bytes[i - 1], i)]
    BY <2>3, <2>5
  <2> QED  BY <2>6 DEF F
<1> HIDE DEF bytes, a
<1>8. bytes[0] = a /\ \A i \in 1 .. k :
        bytes[i] = BitStream_AppendByte0(bytes[i - 1], Shr(v, 8 * (k - i)))
  BY <1>7
<1>9. Appended(s, bytes[k], v, r + 8 * k, r + 8 * k)
  <2>1. Fits(s, r + 8 * k)
    BY <1>1, <1>4
  <2>2. v \in SUBSET (0 .. (r + 8 * k) - 1) /\ r \in Nat
    BY <1>2, <1>4
  <2>3. Appended(s, bytes[0], v, r + 8 * k, r)
    BY <1>4, <1>6, <1>8
  <2> QED  BY <1>8, <2>1, <2>2, <2>3, AppendBytes
<1> QED
  BY <1>1, <1>3, <1>4, <1>5, <1>9

\* Acn_Enc_Int_PositiveInteger_ConstSize pads with zeros on the left.
LEMMA AppendConstSize ==
  ASSUME NEW s \in Stream, Clean(s), NEW width \in Nat, Fits(s, width),
         NEW v \in SUBSET (0 .. width - 1)
  PROVE  Appended(s, Acn_Enc_Int_PositiveInteger_ConstSize(s, v, width),
                  v, width, width)
<1>1. PICK n \in 0 .. width : n = NumberOfBits(v) /\ v \in SUBSET (0 .. n - 1)
  BY SignificantBits
<1>2. PICK m \in Nat : m = width - n
  OBVIOUS
<1>3. PICK u : u = BitStream_AppendNBitZero(s, m)
  OBVIOUS
<1>4. PICK c \in Nat, size \in Nat : c = Cursor(s) /\ size = Size(s)
  BY Sizes
<1>5. c + width <= size
  BY <1>4 DEF Fits
<1>6. c + m <= size /\ c + m + n <= size
  BY <1>2, <1>5
<1>7. Appended(s, u, v, width, m)
  <2>1. Fits(s, m)
    BY <1>4, <1>6 DEF Fits
  <2>2. \A i \in 1 .. m : width - i \notin v
    BY <1>1, <1>2
  <2> QED  BY <1>3, <2>1, <2>2, AppendZeros
<1>8. u \in Stream /\ Clean(u) /\ Fits(u, n)
  <2>1. u \in Stream /\ Clean(u) /\ Len(u.buf) = Len(s.buf) /\ Cursor(u) = Cursor(s) + m
    BY <1>7 DEF Appended
  <2> QED  BY <1>4, <1>6, <2>1 DEF Fits, Size
<1>9. Appended(u, BitStream_EncodeNonNegativeInteger(u, v), v, n, n)
  <2>1. Fits(u, NumberOfBits(v))
    BY <1>1, <1>8
  <2> QED  BY <1>1, <1>8, <2>1, AppendInteger
<1>10. width - m = n /\ m + n = width /\ n \in Nat
  BY <1>2
<1>11. Appended(s, BitStream_EncodeNonNegativeInteger(u, v), v, width, m + n)
  <2>1. Appended(u, BitStream_EncodeNonNegativeInteger(u, v), v, width - m, n)
    BY <1>9, <1>10
  <2> QED  BY <1>7, <1>10, <2>1, AppendMore
<1>12. Acn_Enc_Int_PositiveInteger_ConstSize(s, v, width)
         = BitStream_EncodeNonNegativeInteger(u, v)
  BY <1>1, <1>2, <1>3 DEF Acn_Enc_Int_PositiveInteger_ConstSize
<1> QED
  BY <1>10, <1>11, <1>12

\* Acn_Enc_Int_PositiveInteger_ConstSize_big_endian_B appends whole octets.
LEMMA AppendBigEndian ==
  ASSUME NEW s \in Stream, Clean(s), NEW k \in Nat, Fits(s, 8 * k),
         NEW v \in SUBSET (0 .. 8 * k - 1)
  PROVE  Appended(s, Acn_Enc_Int_PositiveInteger_ConstSize_big_endian_B(s, v, k),
                  v, 8 * k, 8 * k)
<1> DEFINE bytes[i \in 0 .. k] ==
             IF i = 0 THEN s
             ELSE BitStream_AppendByte0(bytes[i-1], Shr(v, 8 * (k - i)))
<1>1. Acn_Enc_Int_PositiveInteger_ConstSize_big_endian_B(s, v, k) = bytes[k]
  BY DEF Acn_Enc_Int_PositiveInteger_ConstSize_big_endian_B
<1>2. bytes = [i \in 0 .. k |-> IF i = 0 THEN s
                  ELSE BitStream_AppendByte0(bytes[i - 1], Shr(v, 8 * (k - i)))]
  <2> DEFINE F(x, i) == BitStream_AppendByte0(x, Shr(v, 8 * (k - i)))
  <2>1. \E g : g = [i \in 0 .. k |-> IF i = 0 THEN s ELSE F(g[i - 1], i)]
    BY BytesExist, ZenonT(60)
  <2>2. bytes = CHOOSE g : g = [i \in 0 .. k |-> IF i = 0 THEN s ELSE F(g[i - 1], i)]
    OBVIOUS
  <2> HIDE DEF bytes, F
  <2>3. bytes = [i \in 0 .. k |-> IF i = 0 THEN s ELSE F(bytes[i - 1], i)]
    BY <2>1, <2>2, Zenon
  <2> QED  BY <2>3 DEF F
<1> HIDE DEF bytes
<1>3. bytes[0] = s /\ \A i \in 1 .. k :
        bytes[i] = BitStream_AppendByte0(bytes[i - 1], Shr(v, 8 * (k - i)))
  BY <1>2
<1>4. PICK m \in Nat : m = 0
  OBVIOUS
<1>5. Appended(s, bytes[k], v, m + 8 * k, m + 8 * k)
  <2>1. m + 8 * k = 8 * k
    BY <1>4
  <2>2. Fits(s, m + 8 * k)
    BY <2>1
  <2>3. v \in SUBSET (0 .. (m + 8 * k) - 1)
    BY <2>1
  <2>4. Appended(s, bytes[0], v, m + 8 * k, m)
    BY <1>3, <1>4, AppendNothing
  <2> QED  BY <1>3, <2>2, <2>3, <2>4, AppendBytes
<1>6. m + 8 * k = 8 * k
  BY <1>4
<1> QED
  BY <1>1, <1>5, <1>6

-----------------------------------------------------------------------------
\* The value of a field.
Value(f) == ValueAt(f.bits, 0, Len(f.bits))

\* Every call appends the bits of its field.
LEMMA EncodeAppends ==
  ASSUME NEW s \in Stream, Clean(s), NEW f \in Fields, Fits(s, Len(f.bits))
  PROVE  Appended(s, Encode(s, f), Value(f), Len(f.bits), Len(f.bits))
<1>1. PICK n \in Nat, bits \in Seq(BOOLEAN) : bits = f.bits /\ n = Len(bits)
  BY FieldsAssumption
<1>2. PICK v : v = ValueAt(bits, 0, n)
  OBVIOUS
<1>3. v \in SUBSET (0 .. n - 1)
  BY <1>2, ValueBits
<1>4. Fits(s, n)
  BY <1>1
<1>5. CASE f.call = "ConstSize"
  <2>1. Encode(s, f) = Acn_Enc_Int_PositiveInteger_ConstSize(s, v, n)
    BY <1>1, <1>2, <1>5 DEF Encode
  <2>2. Appended(s, Acn_Enc_Int_PositiveInteger_ConstSize(s, v, n), v, n, n)
    BY <1>3, <1>4, AppendConstSize
  <2> QED  BY <1>1, <1>2, <2>1, <2>2 DEF Value
<1>6. CASE f.call = "ConstSize_8"
  <2>1. Encode(s, f) = BitStream_AppendByte0(s, v)
    BY <1>1, <1>2, <1>6 DEF Encode
  <2>2. n = 8
    BY <1>1, <1>6, FieldsAssumption
  <2>3. Fits(s, 8) /\ v \in SUBSET (0 .. 7)
    BY <1>3, <1>4, <2>2
  <2>4. Appended(s, BitStream_AppendByte0(s, v), v, 8, 8)
    BY <2>3, AppendByte
  <2> QED  BY <1>1, <1>2, <2>1, <2>2, <2>4 DEF Value
<1>7. CASE f.call = "big_endian"
  <2>1. Encode(s, f) = Acn_Enc_Int_PositiveInteger_ConstSize_big_endian_B(s, v, n \div 8)
    BY <1>1, <1>2, <1>7 DEF Encode
  <2>2. n % 8 = 0
    BY <1>1, <1>7, FieldsAssumption
  <2>3. PICK k \in Nat : k = n \div 8 /\ n = 8 * k
    <3>1. n \div 8 \in Nat /\ n = 8 * (n \div 8)
      BY <2>2, Split
    <3> QED  BY <3>1
  <2>4. Fits(s, 8 * k) /\ v \in SUBSET (0 .. 8 * k - 1)
    BY <1>3, <1>4, <2>3
  <2>5. Appended(s, Acn_Enc_Int_PositiveInteger_ConstSize_big_endian_B(s, v, k),
                 v, 8 * k, 8 * k)
    BY <2>4, AppendBigEndian
  <2> QED  BY <1>1, <1>2, <2>1, <2>3, <2>5 DEF Value
<1>8. CASE f.call = "BitPattern"
  <2>1. Encode(s, f) = BitStream_AppendBits(s, bits)
    BY <1>1, <1>8 DEF Encode
  <2>2. Appended(s, BitStream_AppendBits(s, bits), ValueAt(bits, 0, Len(bits)),
                 Len(bits), Len(bits))
    BY <1>1, <1>4, AppendBitPattern
  <2> QED  BY <1>1, <2>1, <2>2 DEF Value
<1>9. CASE f.call = "OctetString"
  <2>1. PICK arr : arr = Octets(bits)
    OBVIOUS
  <2>2. Encode(s, f) = BitStream_EncodeOctetString_no_length(s, arr)
    BY <1>1, <1>9, <2>1 DEF Encode
  <2>3. n % 8 = 0
    BY <1>1, <1>9, FieldsAssumption
  <2>4. BitStream_AppendBits(s, bits) = BitStream_EncodeOctetString_no_length(s, arr)
    BY <1>1, <2>1, <2>3 DEF BitStream_AppendBits
  <2>5. Appended(s, BitStream_AppendBits(s, bits), ValueAt(bits, 0, Len(bits)),
                 Len(bits), Len(bits))
    BY <1>1, <1>4, AppendBitPattern
  <2> QED  BY <1>1, <2>2, <2>4, <2>5 DEF Value
<1> QED
  BY <1>5, <1>6, <1>7, <1>8, <1>9, FieldsAssumption DEF Calls

-----------------------------------------------------------------------------
(* The reads. *)

\* A read of n bits: it succeeds when there are that many, and then its value
\* has the bits at the cursor.
Got(s, r, n) ==
  /\ r.ok <=> Fits(s, n)
  /\ r.stream \in Stream /\ r.stream.buf = s.buf
  /\ Cursor(s) <= Size(s) => Cursor(r.stream) <= Size(s) + 7
  /\ Fits(s, n) =>
       /\ Cursor(r.stream) = Cursor(s) + n
       /\ r.value \in SUBSET (0 .. n - 1)
       /\ \A b \in 0 .. n - 1 : b \in r.value <=> Bit(s, Cursor(s) + n - 1 - b)

\* The bits of the octet i; behind the buffer it has none that are known.
LEMMA OctetBits ==
  ASSUME NEW s \in Stream, NEW i \in Nat
  PROVE  /\ OctetAt(s, i) \in SUBSET (0 .. 7)
         /\ i < Len(s.buf) =>
              \A b \in 0 .. 7 : b \in OctetAt(s, i) <=> Bit(s, 8 * i + (7 - b))
<1>1. CASE i < Len(s.buf)
  <2>1. i + 1 \in 1 .. Len(s.buf) /\ s.buf \in Seq(Octet)
    BY <1>1 DEF Stream
  <2>2. OctetAt(s, i) = s.buf[i + 1] /\ s.buf[i + 1] \in Octet
    BY <1>1, <2>1 DEF OctetAt
  <2>3. ASSUME NEW b \in 0 .. 7
        PROVE  b \in OctetAt(s, i) <=> Bit(s, 8 * i + (7 - b))
    <3>1. PICK k \in 0 .. 7 : k = 7 - b
      OBVIOUS
    <3>2. (8 * i + k) \div 8 = i /\ (8 * i + k) % 8 = k
      BY Position
    <3>3. 7 - k = b
      BY <3>1
    <3> QED  BY <2>2, <3>1, <3>2, <3>3 DEF Bit
  <2> QED  BY <2>2, <2>3 DEF Octet
<1>2. CASE ~(i < Len(s.buf))
  BY <1>2 DEF OctetAt
<1> QED
  BY <1>1, <1>2

\* Eight bits that begin at bit cb of octet q.
Window(s, q, cb) == Shl(OctetAt(s, q), cb) \cup Shr(OctetAt(s, q + 1), 8 - cb)

\* Eight bits across two octets, as the reads put them together.
LEMMA WindowBits ==
  ASSUME NEW s \in Stream, NEW q \in Nat, NEW cb \in 0 .. 7,
         8 * q + cb + 8 <= Size(s)
  PROVE  /\ Window(s, q, cb) \in SUBSET (0 .. 7)
         /\ \A b \in 0 .. 7 : b \in Window(s, q, cb) <=> Bit(s, 8 * q + cb + 7 - b)
<1>1. PICK len \in Nat : len = Len(s.buf) /\ 8 * q + cb + 8 <= 8 * len
  BY Sizes DEF Size
<1>2. PICK x, y : x = OctetAt(s, q) /\ y = OctetAt(s, q + 1)
  OBVIOUS
<1>3. q < len /\ (cb > 0 => q + 1 < len) /\ q + 1 \in Nat
  BY <1>1
<1>4. x \in SUBSET (0 .. 7) /\ \A b \in 0 .. 7 : b \in x <=> Bit(s, 8 * q + (7 - b))
  BY <1>1, <1>2, <1>3, OctetBits
<1>5. /\ y \in SUBSET (0 .. 7)
      /\ cb > 0 => \A b \in 0 .. 7 : b \in y <=> Bit(s, 8 * (q + 1) + (7 - b))
  BY <1>1, <1>2, <1>3, OctetBits
<1>6. PICK u, w : u = Shl(x, cb) /\ w = Shr(y, 8 - cb)
  OBVIOUS
<1>7. u \in SUBSET (0 .. 7) /\ \A b \in 0 .. 7 : b \in u <=> b - cb \in x
  <2>1. x \in SUBSET Nat /\ cb \in Nat
    BY <1>4
  <2> QED  BY <1>6, <2>1, ShiftUp
<1>8. w \in SUBSET (0 .. 7) /\ \A b \in 0 .. 7 : b \in w <=> b + (8 - cb) \in y
  <2>1. y \in SUBSET Nat /\ 8 - cb \in Nat
    BY <1>5
  <2> QED  BY <1>6, <2>1, ShiftDown
<1>9. Window(s, q, cb) = u \cup w
  BY <1>2, <1>6 DEF Window
<1>10. ASSUME NEW b \in 0 .. 7
       PROVE  b \in u \cup w <=> Bit(s, 8 * q + cb + 7 - b)
  <2>1. CASE b >= cb
    <3>1. PICK d \in 0 .. 7 : d = b - cb
      BY <2>1
    <3>2. ~(b + (8 - cb) \in y)
      BY <1>5, <2>1
    <3>3. 8 * q + (7 - d) = 8 * q + cb + 7 - b
      BY <3>1
    <3> QED  BY <1>4, <1>7, <1>8, <3>1, <3>2, <3>3
  <2>2. CASE b < cb
    <3>1. PICK d \in 0 .. 7 : d = b + (8 - cb)
      BY <2>2
    <3>2. ~(b - cb \in x)
      BY <1>4, <2>2
    <3>3. 8 * (q + 1) + (7 - d) = 8 * q + cb + 7 - b
      BY <3>1
    <3>4. cb > 0
      BY <2>2
    <3> QED  BY <1>5, <1>7, <1>8, <3>1, <3>2, <3>3, <3>4
  <2> QED  BY <2>1, <2>2
<1> QED
  BY <1>7, <1>8, <1>9, <1>10

\* BitStream_ReadByte reads eight bits, or fails when they are not there.
LEMMA ReadByteGets ==
  ASSUME NEW s \in Stream
  PROVE  Got(s, BitStream_ReadByte(s), 8)
<1>1. PICK q \in Nat, cb \in 0 .. 7, len \in Nat, size \in Nat, c \in Nat :
        /\ q = s.currentByte /\ cb = s.currentBit /\ len = Len(s.buf)
        /\ size = Size(s) /\ c = Cursor(s)
  BY Sizes
<1>2. size = 8 * len /\ c = 8 * q + cb
  BY <1>1 DEF Cursor, Size
<1>3. PICK r : r = BitStream_ReadByte(s)
  OBVIOUS
<1>4. PICK few : few = (IF cb > 0 THEN 2 ELSE 1)
  OBVIOUS
<1>5. (len - q < few) <=> ~(c + 8 <= size)
  BY <1>2, <1>4
<1>6. r = IF len - q < few
          THEN Result(FALSE, {}, s)
          ELSE Result(TRUE, Window(s, q, cb), [s EXCEPT !.currentByte = @ + 1])
  BY <1>1, <1>3, <1>4 DEF BitStream_ReadByte, Window
<1>7. CASE len - q < few
  <2>1. ~r.ok /\ r.stream = s
    BY <1>6, <1>7 DEF Result
  <2>2. ~Fits(s, 8)
    BY <1>1, <1>5, <1>7 DEF Fits
  <2>3. c <= size => c <= size + 7
    OBVIOUS
  <2> QED  BY <1>1, <1>3, <2>1, <2>2, <2>3 DEF Got
<1>8. CASE ~(len - q < few)
  <2>1. PICK t : t = [s EXCEPT !.currentByte = q + 1]
    OBVIOUS
  <2>2. r.ok /\ r.stream = t /\ r.value = Window(s, q, cb)
    <3>1. t = [s EXCEPT !.currentByte = @ + 1]
      BY <1>1, <2>1
    <3> QED  BY <1>6, <1>8, <3>1 DEF Result
  <2>3. t \in Stream /\ t.buf = s.buf /\ t.currentByte = q + 1 /\ t.currentBit = cb
    BY <1>1, <2>1 DEF Stream
  <2>4. Fits(s, 8) /\ c + 8 <= size
    BY <1>1, <1>5, <1>8 DEF Fits
  <2>5. Cursor(t) = c + 8
    <3>1. 8 * (q + 1) + cb = c + 8
      BY <1>2
    <3> QED  BY <2>3, <3>1 DEF Cursor
  <2>6. /\ r.value \in SUBSET (0 .. 8 - 1)
        /\ \A b \in 0 .. 8 - 1 : b \in r.value <=> Bit(s, c + 8 - 1 - b)
    <3>1. 8 * q + cb + 8 <= Size(s)
      BY <1>1, <1>2, <2>4
    <3>2. /\ r.value \in SUBSET (0 .. 7)
          /\ \A b \in 0 .. 7 : b \in r.value <=> Bit(s, 8 * q + cb + 7 - b)
      BY <2>2, <3>1, WindowBits
    <3>3. \A b \in 0 .. 7 : 8 * q + cb + 7 - b = c + 8 - 1 - b
      BY <1>2
    <3> QED  BY <3>2, <3>3
  <2>7. c + 8 <= size + 7
    BY <2>4
  <2> QED  BY <1>1, <1>3, <2>2, <2>3, <2>4, <2>5, <2>6, <2>7 DEF Got
<1> QED
  BY <1>7, <1>8

\* BitStream_ReadPartialByte reads n bits.
LEMMA ReadPartialGets ==
  ASSUME NEW s \in Stream, NEW n \in 1 .. 7
  PROVE  Got(s, BitStream_ReadPartialByte(s, n), n)
<1>1. PICK q \in Nat, cb \in 0 .. 7, len \in Nat, size \in Nat, c \in Nat :
        /\ q = s.currentByte /\ cb = s.currentBit /\ len = Len(s.buf)
        /\ size = Size(s) /\ c = Cursor(s)
  BY Sizes
<1>2. size = 8 * len /\ c = 8 * q + cb
  BY <1>1 DEF Cursor, Size
<1>3. PICK total \in Nat : total = cb + n
  OBVIOUS
<1>4. PICK t : t = Skip(s, n)
  OBVIOUS
<1>5. t \in Stream /\ t.buf = s.buf /\ Cursor(t) = c + n
  <2>1. n \in Nat
    OBVIOUS
  <2> QED  BY <1>1, <1>4, <2>1, SkipMoves
<1>6. PICK x, y : x = OctetAt(s, q) /\ y = OctetAt(s, q + 1)
  OBVIOUS
<1>7. PICK v : v = (IF total <= 8 THEN Shr(x, 8 - total)
                    ELSE Shl(x, total - 8) \cup Shr(y, 16 - total))
  OBVIOUS
<1>8. PICK r : r = BitStream_ReadPartialByte(s, n)
  OBVIOUS
<1>9. r = Result(8 * t.currentByte + t.currentBit <= 8 * Len(s.buf), v \cap Low(n), t)
  BY <1>1, <1>3, <1>4, <1>6, <1>7, <1>8 DEF BitStream_ReadPartialByte
<1>10. /\ r.ok = (Cursor(t) <= Size(s)) /\ r.value = v \cap Low(n) /\ r.stream = t
  BY <1>9 DEF Result, Cursor, Size
<1>11. r.ok <=> Fits(s, n)
  BY <1>1, <1>5, <1>10 DEF Fits
<1>12. c <= size => c + n <= size + 7
  OBVIOUS
<1>13. ASSUME c + n <= size, NEW b \in 0 .. n - 1
       PROVE  b \in v <=> Bit(s, c + n - 1 - b)
  <2>1. q < len /\ q + 1 \in Nat /\ (total > 8 => q + 1 < len)
    BY <1>2, <1>3, <1>13
  <2>2. x \in SUBSET (0 .. 7) /\ \A d \in 0 .. 7 : d \in x <=> Bit(s, 8 * q + (7 - d))
    BY <1>1, <1>6, <2>1, OctetBits
  <2>3. /\ y \in SUBSET (0 .. 7)
        /\ total > 8 => \A d \in 0 .. 7 : d \in y <=> Bit(s, 8 * (q + 1) + (7 - d))
    BY <1>1, <1>6, <2>1, OctetBits
  <2>4. b \in 0 .. 7
    OBVIOUS
  <2>5. CASE total <= 8
    <3>1. PICK u : u = Shr(x, 8 - total)
      OBVIOUS
    <3>2. b \in u <=> b + (8 - total) \in x
      <4>1. x \in SUBSET Nat /\ 8 - total \in Nat
        BY <2>2, <2>5
      <4> QED  BY <2>4, <3>1, <4>1, ShiftDown
    <3>3. PICK d \in 0 .. 7 : d = b + (8 - total)
      BY <1>3, <2>5
    <3>4. 8 * q + (7 - d) = c + n - 1 - b
      BY <1>2, <1>3, <3>3
    <3> QED  BY <1>7, <2>2, <2>5, <3>1, <3>2, <3>3, <3>4
  <2>6. CASE total > 8
    <3>1. PICK u, w : u = Shl(x, total - 8) /\ w = Shr(y, 16 - total)
      OBVIOUS
    <3>2. b \in u <=> b - (total - 8) \in x
      <4>1. x \in SUBSET Nat /\ total - 8 \in Nat
        BY <2>2, <2>6
      <4> QED  BY <2>4, <3>1, <4>1, ShiftUp
    <3>3. b \in w <=> b + (16 - total) \in y
      <4>1. y \in SUBSET Nat /\ 16 - total \in Nat
        BY <1>3, <2>3
      <4> QED  BY <2>4, <3>1, <4>1, ShiftDown
    <3>4. v = u \cup w
      BY <1>7, <2>6, <3>1
    <3>5. CASE b >= total - 8
      <4>1. PICK d \in 0 .. 7 : d = b - (total - 8)
        BY <1>3, <2>6, <3>5
      <4>2. ~(b + (16 - total) \in y)
        BY <1>3, <2>3, <2>6, <3>5
      <4>3. 8 * q + (7 - d) = c + n - 1 - b
        BY <1>2, <1>3, <4>1
      <4> QED  BY <2>2, <3>2, <3>3, <3>4, <4>1, <4>2, <4>3
    <3>6. CASE b < total - 8
      <4>1. PICK d \in 0 .. 7 : d = b + (16 - total)
        BY <1>3, <2>6, <3>6
      <4>2. ~(b - (total - 8) \in x)
        BY <1>3, <2>2, <2>6, <3>6
      <4>3. 8 * (q + 1) + (7 - d) = c + n - 1 - b
        BY <1>2, <1>3, <4>1
      <4> QED  BY <2>3, <2>6, <3>2, <3>3, <3>4, <4>1, <4>2, <4>3
    <3> QED  BY <1>3, <3>5, <3>6
  <2> QED  BY <2>5, <2>6
<1>14. v \cap Low(n) \in SUBSET (0 .. n - 1)
  BY DEF Low
<1>15. ASSUME c + n <= size, NEW b \in 0 .. n - 1
       PROVE  b \in r.value <=> Bit(s, c + n - 1 - b)
  <2>1. b \in r.value <=> b \in v
    BY <1>10 DEF Low
  <2> QED  BY <1>13, <1>15, <2>1
<1>16. Fits(s, n) => c + n <= size
  BY <1>1 DEF Fits
<1> QED
  BY <1>1, <1>5, <1>8, <1>10, <1>11, <1>12, <1>14, <1>15, <1>16 DEF Got

\* BitStream_DecodeOctetString_no_length reads k octets.
LEMMA OctetStringGets ==
  ASSUME NEW s \in Stream, NEW k \in Nat
  PROVE  Got(s, BitStream_DecodeOctetString_no_length(s, k), 8 * k)
<1>1. PICK q \in Nat, cb \in 0 .. 7, len \in Nat, size \in Nat, c \in Nat :
        /\ q = s.currentByte /\ cb = s.currentBit /\ len = Len(s.buf)
        /\ size = Size(s) /\ c = Cursor(s)
  BY Sizes
<1>2. size = 8 * len /\ c = 8 * q + cb
  BY <1>1 DEF Cursor, Size
<1>3. PICK r : r = BitStream_DecodeOctetString_no_length(s, k)
  OBVIOUS
<1>4. PICK t : t = [s EXCEPT !.currentByte = q + k]
  OBVIOUS
<1> DEFINE v == UNION {{b + 8 * (k - 1 - i) : b \in Window(s, q + i, cb)} : i \in 0 .. k - 1}
<1>5. r = IF c + 8 * k > size THEN Result(FALSE, {}, s) ELSE Result(TRUE, v, t)
  <2>1. 8 * (q + k) + cb = c + 8 * k
    BY <1>2
  <2>2. 8 * (s.currentByte + k) + s.currentBit > 8 * Len(s.buf) <=> c + 8 * k > size
    BY <1>1, <1>2, <2>1
  <2>3. t = [s EXCEPT !.currentByte = @ + k]
    BY <1>1, <1>4
  <2>a. BitStream_DecodeOctetString_no_length(s, k) =
          IF 8 * (s.currentByte + k) + s.currentBit > 8 * Len(s.buf)
          THEN Result(FALSE, {}, s)
          ELSE Result(TRUE,
                 UNION {{b + 8 * (k - 1 - i)
                           : b \in Window(s, s.currentByte + i, s.currentBit)}
                          : i \in 0 .. k - 1},
                 [s EXCEPT !.currentByte = @ + k])
    BY DEF BitStream_DecodeOctetString_no_length, Window
  <2>4. r = IF 8 * (s.currentByte + k) + s.currentBit > 8 * Len(s.buf)
            THEN Result(FALSE, {}, s) ELSE Result(TRUE, v, t)
    BY <1>1, <1>3, <2>3, <2>a
  <2> HIDE DEF v
  <2> QED  BY <2>2, <2>4
<1>6. CASE c + 8 * k > size
  <2>1. ~r.ok /\ r.stream = s
    BY <1>5, <1>6 DEF Result
  <2>2. ~Fits(s, 8 * k)
    BY <1>1, <1>6 DEF Fits
  <2>3. c <= size => c <= size + 7
    OBVIOUS
  <2> QED  BY <1>1, <1>3, <2>1, <2>2, <2>3 DEF Got
<1>7. CASE c + 8 * k <= size
  <2>1. r.ok /\ r.stream = t /\ r.value = v
    BY <1>5, <1>7 DEF Result
  <2>2. t \in Stream /\ t.buf = s.buf /\ t.currentByte = q + k /\ t.currentBit = cb
    BY <1>1, <1>4 DEF Stream
  <2>3. Fits(s, 8 * k)
    BY <1>1, <1>7 DEF Fits
  <2>4. Cursor(t) = c + 8 * k
    <3>1. 8 * (q + k) + cb = c + 8 * k
      BY <1>2
    <3> QED  BY <2>2, <3>1 DEF Cursor
  <2>5. ASSUME NEW i \in 0 .. k - 1
        PROVE  /\ Window(s, q + i, cb) \in SUBSET (0 .. 7)
               /\ \A b \in 0 .. 7 : b \in Window(s, q + i, cb) <=>
                                      Bit(s, c + 8 * i + 7 - b)
    <3>1. PICK j \in Nat : j = q + i
      OBVIOUS
    <3>2. 8 * j + cb + 8 <= size
      BY <1>2, <1>7, <3>1
    <3>3. /\ Window(s, j, cb) \in SUBSET (0 .. 7)
          /\ \A b \in 0 .. 7 : b \in Window(s, j, cb) <=> Bit(s, 8 * j + cb + 7 - b)
      BY <1>1, <3>2, WindowBits
    <3>4. \A b \in 0 .. 7 : 8 * j + cb + 7 - b = c + 8 * i + 7 - b
      BY <1>2, <3>1
    <3> QED  BY <3>1, <3>3, <3>4
  <2>6. ASSUME NEW w \in v
        PROVE  w \in 0 .. 8 * k - 1
    <3>1. PICK i \in 0 .. k - 1 : w \in {b + 8 * (k - 1 - i) : b \in Window(s, q + i, cb)}
      OBVIOUS
    <3>2. PICK b \in 0 .. 7 : w = b + 8 * (k - 1 - i)
      BY <2>5, <3>1
    <3> QED  BY <3>2
  <2>7. ASSUME NEW w \in 0 .. 8 * k - 1
        PROVE  w \in v <=> Bit(s, c + 8 * k - 1 - w)
    <3>0. w \in Nat
      OBVIOUS
    <3>1. PICK o \in Nat, d \in 0 .. 7 : w = 8 * o + d
      BY <3>0, At
    <3>2. PICK j \in 0 .. k - 1 : j = k - 1 - o
      BY <3>1
    <3>3. w = d + 8 * (k - 1 - j)
      BY <3>1, <3>2
    <3>4. d \in Window(s, q + j, cb) <=> Bit(s, c + 8 * k - 1 - w)
      <4>1. c + 8 * j + 7 - d = c + 8 * k - 1 - w
        BY <3>3
      <4> QED  BY <2>5, <4>1
    <3>5. ASSUME d \in Window(s, q + j, cb)
          PROVE  w \in v
      <4>1. w \in {b + 8 * (k - 1 - j) : b \in Window(s, q + j, cb)}
        BY <3>3, <3>5
      <4> QED  BY <4>1
    <3>6. ASSUME w \in v
          PROVE  d \in Window(s, q + j, cb)
      <4>1. PICK i \in 0 .. k - 1 : w \in {b + 8 * (k - 1 - i) : b \in Window(s, q + i, cb)}
        BY <3>6
      <4>2. PICK b \in Window(s, q + i, cb) : w = b + 8 * (k - 1 - i)
        BY <4>1
      <4>3. b \in 0 .. 7
        BY <2>5
      <4>4. i = j /\ b = d
        BY <3>3, <4>2, <4>3
      <4> QED  BY <4>4
    <3> QED  BY <3>4, <3>5, <3>6
  <2> HIDE DEF v
  <2>8. v \in SUBSET (0 .. 8 * k - 1)
    BY <2>6
  <2>9. c + 8 * k <= size + 7
    BY <1>7
  <2> QED  BY <1>1, <1>3, <2>1, <2>2, <2>3, <2>4, <2>7, <2>8, <2>9 DEF Got
<1> QED
  BY <1>6, <1>7

Results == [ok : BOOLEAN, value : SUBSET Nat, stream : Stream]

\* A round of the loop of BitStream_DecodeNonNegativeInteger.
NextOctet(r) ==
  LET o == BitStream_ReadByte(r.stream)
  IN  Result(r.ok /\ o.ok, {b + 8 : b \in r.value} \cup o.value, o.stream)

LEMMA ReadByteType ==
  ASSUME NEW s \in Stream
  PROVE  BitStream_ReadByte(s) \in Results
<1>1. Window(s, s.currentByte, s.currentBit) \in SUBSET Nat
  <2>1. /\ Shl(OctetAt(s, s.currentByte), s.currentBit) \in SUBSET Nat
        /\ Shr(OctetAt(s, s.currentByte + 1), 8 - s.currentBit) \in SUBSET Nat
    BY ShiftType
  <2> QED  BY <2>1 DEF Window
<1>2. PICK few : few = (IF s.currentBit > 0 THEN 2 ELSE 1)
  OBVIOUS
<1>3. PICK t : t = [s EXCEPT !.currentByte = @ + 1]
  OBVIOUS
<1>4. BitStream_ReadByte(s) = IF Len(s.buf) - s.currentByte < few
                              THEN Result(FALSE, {}, s)
                              ELSE Result(TRUE, Window(s, s.currentByte, s.currentBit), t)
  BY <1>2, <1>3 DEF BitStream_ReadByte, Window
<1>5. BitStream_ReadByte(s).stream \in Stream
  BY ReadByteGets DEF Got
<1> QED
  BY <1>1, <1>4, <1>5 DEF Result, Results

\* What is read of a value, then the k bits behind it: the value grows by them.
Joined(r, o, k) == Result(r.ok /\ o.ok, {b + k : b \in r.value} \cup o.value, o.stream)

\* Two reads in a row, their values joined, are one read.
LEMMA JoinGets ==
  ASSUME NEW s \in Stream, NEW r \in Results, NEW n \in Nat, Got(s, r, n),
         NEW k \in Nat, NEW o \in Results, Got(r.stream, o, k), r.ok
  PROVE  Joined(r, o, k) \in Results /\ Got(s, Joined(r, o, k), n + k)
<1>1. r.ok \in BOOLEAN /\ r.value \in SUBSET Nat /\ r.stream \in Stream
  BY DEF Results
<1>u. PICK u \in Stream : u = r.stream
  BY <1>1
<1>2. u = r.stream
  BY <1>u
<1>3. o.ok \in BOOLEAN /\ o.value \in SUBSET Nat /\ o.stream \in Stream
  BY DEF Results
<1>4. Got(u, o, k)
  BY <1>2
<1>5. PICK v : v = {b + k : b \in r.value} \cup o.value
  OBVIOUS
<1>6. PICK e : e = Joined(r, o, k)
  OBVIOUS
<1>7. e.ok = (r.ok /\ o.ok) /\ e.value = v /\ e.stream = o.stream
  BY <1>5, <1>6 DEF Joined, Result
<1>8. e \in Results
  <2>1. e = [ok |-> (r.ok /\ o.ok), value |-> v, stream |-> o.stream]
    BY <1>5, <1>6 DEF Joined, Result
  <2>2. v \in SUBSET Nat
    BY <1>1, <1>3, <1>5
  <2>3. (r.ok /\ o.ok) \in BOOLEAN
    OBVIOUS
  <2> QED  BY <1>3, <2>1, <2>2, <2>3 DEF Results
<1>9. PICK c \in Nat, size \in Nat, d \in Nat :
        c = Cursor(s) /\ size = Size(s) /\ d = Cursor(u)
  BY Sizes
<1>10. /\ Size(u) = size /\ o.stream.buf = s.buf
       /\ d = c + n /\ c + n <= size
       /\ d <= size => Cursor(o.stream) <= size + 7
       /\ o.ok <=> d + k <= size
  BY <1>2, <1>4, <1>9 DEF Got, Size, Fits
<1>11. e.ok <=> c + (n + k) <= size
  <2>1. e.ok <=> o.ok
    BY <1>7
  <2>2. d + k <= size <=> c + (n + k) <= size
    BY <1>10
  <2> QED  BY <1>10, <2>1, <2>2
<1>12. CASE c + (n + k) <= size
  <2>1. /\ d = c + n /\ d + k <= size /\ c + n <= size
    BY <1>10, <1>12
  <2>2. /\ r.value \in SUBSET (0 .. n - 1)
        /\ \A b \in 0 .. n - 1 : b \in r.value <=> Bit(s, c + n - 1 - b)
    BY <1>9, <2>1 DEF Got, Fits
  <2>3. /\ o.value \in SUBSET (0 .. k - 1) /\ Cursor(o.stream) = d + k
        /\ \A b \in 0 .. k - 1 : b \in o.value <=> Bit(u, d + k - 1 - b)
    <3>1. Fits(u, k)
      BY <1>9, <1>10, <2>1 DEF Fits
    <3>2. /\ o.value \in SUBSET (0 .. k - 1) /\ Cursor(o.stream) = d + k
          /\ \A b \in 0 .. k - 1 : b \in o.value <=> Bit(u, d + k - 1 - b)
      BY <1>4, <1>9, <3>1 DEF Got
    <3> QED  BY <3>2
  <2>4. \A p : Bit(u, p) <=> Bit(s, p)
    BY <1>2 DEF Got, Bit
  <2>5. v \in SUBSET (0 .. (n + k) - 1)
    <3>1. ASSUME NEW w \in v
          PROVE  w \in 0 .. (n + k) - 1
      <4>1. CASE w \in o.value
        BY <2>3, <4>1
      <4>2. CASE w \in {b + k : b \in r.value}
        BY <2>2, <4>2
      <4> QED  BY <1>5, <4>1, <4>2
    <3> QED  BY <3>1
  <2>6. ASSUME NEW w \in 0 .. (n + k) - 1
        PROVE  w \in v <=> Bit(s, c + (n + k) - 1 - w)
    <3>1. CASE w < k
      <4>1. w \notin {b + k : b \in r.value}
        BY <2>2, <3>1
      <4>2. w \in 0 .. k - 1 /\ d + k - 1 - w = c + (n + k) - 1 - w
        BY <2>1, <3>1
      <4>3. w \in o.value <=> Bit(s, c + (n + k) - 1 - w)
        BY <2>3, <2>4, <4>2
      <4> QED  BY <1>5, <4>1, <4>3
    <3>2. CASE w >= k
      <4>1. PICK b \in 0 .. n - 1 : b = w - k
        BY <3>2
      <4>2. w \notin o.value
        BY <2>3, <3>2
      <4>3. w \in {a + k : a \in r.value} <=> b \in r.value
        <5>1. ASSUME b \in r.value
              PROVE  w \in {a + k : a \in r.value}
          <6>1. w = b + k
            BY <4>1
          <6> QED  BY <5>1, <6>1
        <5>2. ASSUME w \in {a + k : a \in r.value}
              PROVE  b \in r.value
          <6>1. PICK a \in r.value : w = a + k
            BY <5>2
          <6>2. a \in Nat
            BY <1>1
          <6>3. a = b
            BY <4>1, <6>1, <6>2
          <6> QED  BY <6>3
        <5> QED  BY <5>1, <5>2
      <4>4. c + n - 1 - b = c + (n + k) - 1 - w
        BY <4>1
      <4>5. b \in r.value <=> Bit(s, c + (n + k) - 1 - w)
        BY <2>2, <4>4
      <4> QED  BY <1>5, <4>2, <4>3, <4>5
    <3> QED  BY <3>1, <3>2
  <2>7. /\ Cursor(e.stream) = c + (n + k) /\ e.ok /\ e.stream \in Stream
        /\ e.stream.buf = s.buf /\ c + (n + k) <= size + 7
    <3>1. Cursor(e.stream) = d + k
      BY <1>7, <2>3
    <3>2. d + k = c + (n + k) /\ c + (n + k) <= size + 7
      BY <1>12, <2>1
    <3> QED  BY <1>3, <1>7, <1>10, <1>11, <1>12, <3>1, <3>2
  <2>8. Fits(s, n + k)
    BY <1>9, <1>12 DEF Fits
  <2>9. /\ e.value \in SUBSET (0 .. (n + k) - 1)
        /\ \A b \in 0 .. (n + k) - 1 : b \in e.value <=> Bit(s, Cursor(s) + (n + k) - 1 - b)
    BY <1>7, <1>9, <2>5, <2>6
  <2>10. Got(s, e, n + k)
    BY <1>9, <2>7, <2>8, <2>9 DEF Got
  <2> QED  BY <1>6, <1>8, <2>10
<1>13. CASE ~(c + (n + k) <= size)
  <2>1. ~Fits(s, n + k)
    BY <1>9, <1>13 DEF Fits
  <2>2. Cursor(e.stream) <= size + 7
    BY <1>7, <1>10
  <2>3. ~e.ok /\ e.stream \in Stream /\ e.stream.buf = s.buf
    BY <1>3, <1>7, <1>10, <1>11, <1>13
  <2>4. Got(s, e, n + k)
    BY <1>9, <2>1, <2>2, <2>3 DEF Got
  <2> QED  BY <1>6, <1>8, <2>4
<1> QED
  BY <1>12, <1>13

\* A round of the loop reads eight bits more, and a failed read stays failed.
LEMMA NextOctetGets ==
  ASSUME NEW s \in Stream, NEW r \in Results, NEW n \in Nat, Got(s, r, n)
  PROVE  NextOctet(r) \in Results /\ Got(s, NextOctet(r), n + 8)
<1>1. r.ok \in BOOLEAN /\ r.value \in SUBSET Nat /\ r.stream \in Stream
  BY DEF Results
<1>o. PICK o : o = BitStream_ReadByte(r.stream)
  OBVIOUS
<1>2. o \in Results /\ Got(r.stream, o, 8)
  BY <1>1, <1>o, ReadByteType, ReadByteGets
<1>3. NextOctet(r) = Joined(r, o, 8)
  BY <1>o DEF NextOctet, Joined
<1>4. CASE r.ok
  BY <1>2, <1>3, <1>4, JoinGets
<1>5. CASE ~r.ok
  <2>1. PICK e : e = Joined(r, o, 8)
    OBVIOUS
  <2>2. /\ e = [ok |-> (r.ok /\ o.ok), value |-> {b + 8 : b \in r.value} \cup o.value,
                stream |-> o.stream]
        /\ ~e.ok /\ e.stream = o.stream
    BY <1>5, <2>1 DEF Joined, Result
  <2>3. e \in Results
    <3>1. {b + 8 : b \in r.value} \cup o.value \in SUBSET Nat /\ o.stream \in Stream
      BY <1>1, <1>2 DEF Results
    <3>2. (r.ok /\ o.ok) \in BOOLEAN
      OBVIOUS
    <3> QED  BY <2>2, <3>1, <3>2 DEF Results
  <2>4. PICK c \in Nat, size \in Nat, d \in Nat :
          c = Cursor(s) /\ size = Size(s) /\ d = Cursor(r.stream)
    BY <1>1, Sizes
  <2>5. /\ Size(r.stream) = size /\ o.stream.buf = s.buf /\ o.stream \in Stream
        /\ d <= size => Cursor(o.stream) <= size + 7
        /\ o.ok <=> d + 8 <= size
        /\ c <= size => d <= size + 7
        /\ ~(c + n <= size)
    BY <1>2, <1>5, <2>4 DEF Got, Size, Fits
  <2>6. ~Fits(s, n + 8)
    <3>1. ~(c + (n + 8) <= size)
      BY <2>5
    <3> QED  BY <2>4, <3>1 DEF Fits
  <2>7. c <= size => Cursor(o.stream) <= size + 7
    <3>1. CASE d <= size
      BY <2>5, <3>1
    <3>2. CASE ~(d <= size)
      <4>1. ~o.ok
        BY <2>5, <3>2
      <4>2. o.stream = r.stream
        BY <1>o, <4>1 DEF BitStream_ReadByte, Result
      <4> QED  BY <2>4, <2>5, <4>2
    <3> QED  BY <3>1, <3>2
  <2>8. Got(s, e, n + 8)
    BY <2>2, <2>4, <2>5, <2>6, <2>7 DEF Got
  <2> QED  BY <1>3, <2>1, <2>3, <2>8
<1> QED
  BY <1>4, <1>5
LEMMA NextOctetType ==
  ASSUME NEW r \in Results
  PROVE  NextOctet(r) \in Results
<1>1. r.ok \in BOOLEAN /\ r.value \in SUBSET Nat /\ r.stream \in Stream
  BY DEF Results
<1>2. PICK o : o = BitStream_ReadByte(r.stream)
  OBVIOUS
<1>3. o.ok \in BOOLEAN /\ o.value \in SUBSET Nat /\ o.stream \in Stream
  BY <1>1, <1>2, ReadByteType DEF Results
<1>4. NextOctet(r) = [ok |-> (r.ok /\ o.ok), value |-> {b + 8 : b \in r.value} \cup o.value,
                      stream |-> o.stream]
  BY <1>2 DEF NextOctet, Result
<1>5. {b + 8 : b \in r.value} \cup o.value \in SUBSET Nat
  BY <1>1, <1>3
<1>6. (r.ok /\ o.ok) \in BOOLEAN
  OBVIOUS
<1> QED
  BY <1>3, <1>4, <1>5, <1>6 DEF Results

\* Nothing is read yet.
LEMMA NothingGets ==
  ASSUME NEW s \in Stream, Fits(s, 0)
  PROVE  Result(TRUE, {}, s) \in Results /\ Got(s, Result(TRUE, {}, s), 0)
<1>1. PICK c \in Nat, size \in Nat : c = Cursor(s) /\ size = Size(s)
  BY Sizes
<1>2. c + 0 <= size
  BY <1>1 DEF Fits
<1>3. PICK e : e = Result(TRUE, {}, s)
  OBVIOUS
<1>4. e = [ok |-> TRUE, value |-> {}, stream |-> s]
  BY <1>3 DEF Result
<1>5. e.ok = TRUE /\ e.value = {} /\ e.stream = s
  BY <1>4
<1>6. e \in Results
  BY <1>4 DEF Results
<1>7. c <= size + 7 /\ c = c + 0 /\ 0 .. 0 - 1 = {}
  BY <1>2
<1>8. Got(s, e, 0)
  BY <1>1, <1>5, <1>7 DEF Got
<1> QED
  BY <1>3, <1>6, <1>8

\* The loop over the whole octets of BitStream_DecodeNonNegativeInteger ends.
LEMMA OctetsExist ==
  ASSUME NEW start \in Results, NEW k \in Nat
  PROVE  \E g : g = [i \in 0 .. k |-> IF i = 0 THEN start ELSE NextOctet(g[i - 1])]
<1> DEFINE step == [y \in Results \X (1 .. k) |-> NextOctet(y[1])]
<1>1. step \in Steps(Results, k)
  BY NextOctetType DEF Steps
<1>2. \A x \in Results, i \in 1 .. k : step[<<x, i>>] = NextOctet(x)
  OBVIOUS
<1> HIDE DEF step
<1>3. PICK g : Iterates(g, k, Results, start, step)
  BY <1>1, Recursion
<1>4. /\ g \in [0 .. k -> Results] /\ g[0] = start
      /\ \A i \in 1 .. k : g[i] = step[<<g[i - 1], i>>]
  BY <1>3 DEF Iterates
<1>5. ASSUME NEW i \in 1 .. k
      PROVE  g[i] = NextOctet(g[i - 1])
  <2>1. g[i - 1] \in Results
    BY <1>4
  <2> QED  BY <1>2, <1>4, <2>1
<1>6. g = [i \in 0 .. k |-> IF i = 0 THEN start ELSE NextOctet(g[i - 1])]
  BY <1>4, <1>5
<1> QED
  BY <1>6

LEMMA ReadPartialType ==
  ASSUME NEW s \in Stream, NEW n \in 1 .. 7
  PROVE  BitStream_ReadPartialByte(s, n) \in Results
<1>1. BitStream_ReadPartialByte(s, n).stream \in Stream
  BY ReadPartialGets DEF Got
<1>2. PICK v, t, g : BitStream_ReadPartialByte(s, n) = Result(g <= 8 * Len(s.buf), v \cap Low(n), t)
  BY DEF BitStream_ReadPartialByte
<1>3. v \cap Low(n) \in SUBSET Nat
  BY DEF Low
<1>4. (g <= 8 * Len(s.buf)) \in BOOLEAN
  OBVIOUS
<1>5. t \in Stream
  BY <1>1, <1>2 DEF Result
<1> QED
  BY <1>2, <1>3, <1>4, <1>5 DEF Result, Results

\* Reading an unsigned value of any width gets its bits, or fails when they are
\* not all there.
LEMMA IntegerGets ==
  ASSUME NEW s \in Stream, Fits(s, 0), NEW width \in Nat
  PROVE  Got(s, BitStream_DecodeNonNegativeInteger(s, width), width)
<1>1. PICK k \in Nat, n \in 0 .. 7 :
        k = width \div 8 /\ n = width % 8 /\ width = 8 * k + n
  OBVIOUS
<1> DEFINE whole[i \in 0 .. width \div 8] ==
             IF i = 0 THEN Result(TRUE, {}, s)
             ELSE LET r == BitStream_ReadByte(whole[i-1].stream)
                  IN  Result(whole[i-1].ok /\ r.ok,
                             {b + 8 : b \in whole[i-1].value} \cup r.value, r.stream)
<1>2. BitStream_DecodeNonNegativeInteger(s, width) =
        LET head == whole[width \div 8]
            tail == BitStream_ReadPartialByte(head.stream, width % 8)
        IN  IF width % 8 = 0 \/ ~head.ok THEN head
            ELSE Result(tail.ok, {b + (width % 8) : b \in head.value} \cup tail.value,
                        tail.stream)
  BY DEF BitStream_DecodeNonNegativeInteger
<1>3. PICK start : start = Result(TRUE, {}, s)
  OBVIOUS
<1>6. start \in Results /\ Got(s, start, 0)
  BY <1>3, NothingGets
<1>4. whole = [i \in 0 .. k |-> IF i = 0 THEN start ELSE NextOctet(whole[i - 1])]
  <2>1. \E g : g = [i \in 0 .. k |-> IF i = 0 THEN start ELSE NextOctet(g[i - 1])]
    BY <1>6, OctetsExist
  <2>2. whole = CHOOSE g : g = [i \in 0 .. k |-> IF i = 0 THEN start ELSE NextOctet(g[i - 1])]
    BY <1>1, <1>3 DEF NextOctet
  <2> HIDE DEF whole
  <2> QED  BY <2>1, <2>2, Zenon
<1> HIDE DEF whole
<1>5. whole[0] = start /\ \A i \in 1 .. k : whole[i] = NextOctet(whole[i - 1])
  BY <1>4
<1>7. whole[k] \in Results /\ Got(s, whole[k], 8 * k)
  <2> DEFINE S == {i \in 0 .. k : whole[i] \in Results /\ Got(s, whole[i], 8 * i)}
  <2>1. 0 \in S
    <3>1. 8 * 0 = 0
      OBVIOUS
    <3> QED  BY <1>5, <1>6, <3>1
  <2>2. ASSUME NEW i \in 1 .. k, i - 1 \in S
        PROVE  i \in S
    <3>1. PICK j \in 0 .. k : j = i - 1
      OBVIOUS
    <3>2. whole[j] \in Results /\ Got(s, whole[j], 8 * j)
      BY <2>2, <3>1
    <3>3. NextOctet(whole[j]) \in Results /\ Got(s, NextOctet(whole[j]), 8 * j + 8)
      <4>1. 8 * j \in Nat
        OBVIOUS
      <4> QED  BY <3>2, <4>1, NextOctetGets
    <3>4. whole[i] = NextOctet(whole[j]) /\ 8 * j + 8 = 8 * i /\ i \in 0 .. k
      BY <1>5, <3>1
    <3> QED  BY <3>3, <3>4
  <2> HIDE DEF S
  <2>3. 0 .. k \subseteq S
    BY <2>1, <2>2, InductionUpTo
  <2>4. k \in S
    BY <2>3
  <2> QED  BY <2>4 DEF S
<1>8. PICK head : head = whole[k]
  OBVIOUS
<1>9. PICK tail : tail = BitStream_ReadPartialByte(head.stream, n)
  OBVIOUS
<1>10. BitStream_DecodeNonNegativeInteger(s, width) =
         IF n = 0 \/ ~head.ok THEN head
         ELSE Result(tail.ok, {b + n : b \in head.value} \cup tail.value, tail.stream)
  BY <1>1, <1>2, <1>8, <1>9
<1>11. CASE n = 0
  <2>1. width = 8 * k
    BY <1>1, <1>11
  <2> QED  BY <1>7, <1>8, <1>10, <1>11, <2>1
<1>12. CASE n # 0 /\ ~head.ok
  <2>1. PICK c \in Nat, size \in Nat : c = Cursor(s) /\ size = Size(s)
    BY Sizes
  <2>2. ~(c + 8 * k <= size) => ~(c + width <= size)
    BY <1>1
  <2>3. ~Fits(s, width)
    BY <1>7, <1>8, <1>12, <2>1, <2>2 DEF Got, Fits
  <2>4. Got(s, head, width)
    BY <1>7, <1>8, <1>12, <2>3 DEF Got
  <2> QED  BY <1>10, <1>12, <2>4
<1>13. CASE n # 0 /\ head.ok
  <2>1. n \in 1 .. 7 /\ head.stream \in Stream
    BY <1>7, <1>8, <1>13 DEF Results
  <2>2. tail \in Results /\ Got(head.stream, tail, n)
    BY <1>9, <2>1, ReadPartialType, ReadPartialGets
  <2>3. Got(s, Joined(head, tail, n), 8 * k + n)
    <3>1. 8 * k \in Nat /\ n \in Nat
      OBVIOUS
    <3> QED  BY <1>7, <1>8, <1>13, <2>2, <3>1, JoinGets
  <2>4. Joined(head, tail, n) =
          Result(tail.ok, {b + n : b \in head.value} \cup tail.value, tail.stream)
    <3>1. (head.ok /\ tail.ok) = tail.ok
      BY <1>13, <2>2 DEF Results
    <3> QED  BY <3>1 DEF Joined
  <2> QED  BY <1>1, <1>10, <1>13, <2>3, <2>4
<1> QED
  BY <1>11, <1>12, <1>13

\* A read of a field gets its bits, or fails when they are not all there.
LEMMA DecodeGets ==
  ASSUME NEW s \in Stream, Fits(s, 0), NEW f \in Fields
  PROVE  Got(s, Decode(s, f), Len(f.bits))
<1>1. PICK n \in Nat : n = Len(f.bits)
  BY FieldsAssumption
<1>2. CASE f.call = "OctetString"
  <2>1. n % 8 = 0
    BY <1>1, <1>2, FieldsAssumption
  <2>2. PICK k \in Nat : k = n \div 8 /\ n = 8 * k
    BY <2>1
  <2>3. Got(s, BitStream_DecodeOctetString_no_length(s, k), n)
    BY <2>2, OctetStringGets
  <2> QED  BY <1>1, <1>2, <2>2, <2>3 DEF Decode
<1>3. CASE f.call # "OctetString"
  <2>1. Got(s, BitStream_DecodeNonNegativeInteger(s, n), n)
    BY IntegerGets
  <2> QED  BY <1>1, <1>3, <2>1 DEF Decode, BitStream_ReadBitPattern
<1> QED
  BY <1>2, <1>3
-----------------------------------------------------------------------------

\* Equivalent Booleans are equal.
LEMMA SameBoolean ==
  ASSUME NEW x \in BOOLEAN, NEW y \in BOOLEAN, x <=> y
  PROVE  x = y
OBVIOUS

\* Two sequences of bits with the same bits are the same.
LEMMA SameBits ==
  ASSUME NEW a \in Seq(BOOLEAN), NEW b \in Seq(BOOLEAN), Len(a) = Len(b),
         \A i \in 1 .. Len(a) : a[i] <=> b[i]
  PROVE  a = b
<1>1. PICK n \in Nat : n = Len(a) /\ n = Len(b)
  OBVIOUS
<1>2. a \in [1 .. n -> BOOLEAN] /\ b \in [1 .. n -> BOOLEAN]
  BY <1>1
<1>3. ASSUME NEW i \in 1 .. n
      PROVE  a[i] = b[i]
  <2>1. a[i] \in BOOLEAN /\ b[i] \in BOOLEAN
    BY <1>2
  <2>2. a[i] <=> b[i]
    BY <1>1
  <2> QED  BY <2>1, <2>2, SameBoolean
<1> QED
  BY <1>2, <1>3

\* The bits from position p on, n of them.
BitsFrom(s, p, n) == [i \in 1 .. n |-> Bit(s, p + i - 1)]

\* The elements of such a sequence, and of the bits of a value.
LEMMA BitsFromType ==
  ASSUME NEW s, NEW p, NEW n \in Nat
  PROVE  /\ BitsFrom(s, p, n) \in Seq(BOOLEAN) /\ Len(BitsFrom(s, p, n)) = n
         /\ \A i \in 1 .. n : BitsFrom(s, p, n)[i] <=> Bit(s, p + i - 1)
<1>1. BitsFrom(s, p, n) \in [1 .. n -> BOOLEAN]
  BY DEF BitsFrom, Bit
<1>2. \A f \in [1 .. n -> BOOLEAN] : f \in Seq(BOOLEAN) /\ Len(f) = n
  BY SMT
<1>3. \A i \in 1 .. n : BitsFrom(s, p, n)[i] = Bit(s, p + i - 1)
  BY DEF BitsFrom
<1>4. \A i \in 1 .. n : BitsFrom(s, p, n)[i] <=> Bit(s, p + i - 1)
  BY <1>3
<1> QED
  BY <1>1, <1>2, <1>4

LEMMA BitsOfType ==
  ASSUME NEW v, NEW n \in Nat
  PROVE  /\ BitsOf(v, n) \in Seq(BOOLEAN) /\ Len(BitsOf(v, n)) = n
         /\ \A i \in 1 .. n : BitsOf(v, n)[i] <=> n - i \in v
<1>1. BitsOf(v, n) \in [1 .. n -> BOOLEAN]
  BY DEF BitsOf
<1>2. \A f \in [1 .. n -> BOOLEAN] : f \in Seq(BOOLEAN) /\ Len(f) = n
  BY SMT
<1>3. \A i \in 1 .. n : BitsOf(v, n)[i] = (n - i \in v)
  BY DEF BitsOf
<1>4. \A i \in 1 .. n : BitsOf(v, n)[i] <=> n - i \in v
  BY <1>3
<1> QED
  BY <1>1, <1>2, <1>4

\* The elements of a slice, and of two sequences put together.
LEMMA Slice ==
  ASSUME NEW a \in Seq(BOOLEAN), NEW m \in Nat, NEW n \in Nat, m + n <= Len(a)
  PROVE  /\ SubSeq(a, m + 1, m + n) \in Seq(BOOLEAN) /\ Len(SubSeq(a, m + 1, m + n)) = n
         /\ \A i \in 1 .. n : SubSeq(a, m + 1, m + n)[i] = a[m + i]
BY SMTT(30)

LEMMA Concat ==
  ASSUME NEW a \in Seq(BOOLEAN), NEW b \in Seq(BOOLEAN)
  PROVE  /\ a \o b \in Seq(BOOLEAN) /\ Len(a \o b) = Len(a) + Len(b)
         /\ \A i \in 1 .. Len(a) : (a \o b)[i] = a[i]
         /\ \A i \in 1 .. Len(b) : (a \o b)[Len(a) + i] = b[i]
OBVIOUS

\* k elements behind the first m.
Part(a, m, k) == SubSeq(a, m + 1, m + k)

LEMMA SliceOfBits ==
  ASSUME NEW s, NEW p \in Nat, NEW n \in Nat, NEW m \in Nat, NEW k \in Nat, m + k <= n
  PROVE  Part(BitsFrom(s, p, n), m, k) = BitsFrom(s, p + m, k)
<1>1. PICK a : a = BitsFrom(s, p, n)
  OBVIOUS
<1>2. /\ a \in Seq(BOOLEAN) /\ Len(a) = n
      /\ \A i \in 1 .. n : a[i] <=> Bit(s, p + i - 1)
  BY <1>1, BitsFromType
<1>3. PICK b : b = Part(a, m, k)
  OBVIOUS
<1>4. b \in Seq(BOOLEAN) /\ Len(b) = k /\ \A i \in 1 .. k : b[i] = a[m + i]
  BY <1>2, <1>3, Slice DEF Part
<1>5. PICK e : e = BitsFrom(s, p + m, k)
  OBVIOUS
<1>6. /\ e \in Seq(BOOLEAN) /\ Len(e) = k
      /\ \A i \in 1 .. k : e[i] <=> Bit(s, p + m + i - 1)
  BY <1>5, BitsFromType
<1>7. ASSUME NEW i \in 1 .. k
      PROVE  b[i] <=> e[i]
  <2>1. PICK j \in 1 .. n : j = m + i /\ p + j - 1 = p + m + i - 1
    OBVIOUS
  <2>2. a[j] <=> Bit(s, p + m + i - 1)
    BY <1>2, <2>1
  <2>3. b[i] = a[j]
    BY <1>4, <2>1
  <2> QED  BY <1>6, <2>2, <2>3
<1> QED
  BY <1>1, <1>3, <1>4, <1>5, <1>6, <1>7, SameBits

\* The bits of a field.
LEMMA FieldBits ==
  ASSUME NEW f \in Fields
  PROVE  /\ f.bits \in Seq(BOOLEAN) /\ Len(f.bits) \in Nat \ {0}
         /\ \A i \in 1 .. Len(f.bits) : Len(f.bits) - i \in Value(f) <=> f.bits[i]
<1>1. f.bits \in Seq(BOOLEAN) /\ Len(f.bits) \in Nat \ {0}
  <2>1. PICK bits \in Seq(BOOLEAN) : bits = f.bits /\ bits # <<>>
    BY FieldsAssumption
  <2>2. Len(bits) \in Nat \ {0}
    BY <2>1
  <2> QED  BY <2>1, <2>2
<1>2. PICK bits \in Seq(BOOLEAN), n \in Nat : bits = f.bits /\ n = Len(f.bits)
  BY <1>1
<1>3. \A i \in 1 .. n : n - i \in ValueAt(bits, 0, n) <=> bits[0 + i]
  BY ValueBits
<1>4. \A i \in 1 .. n : n - i \in Value(f) <=> f.bits[i]
  BY <1>2, <1>3 DEF Value
<1> QED
  BY <1>1, <1>2, <1>4

\* What a successful read returns are the bits at the cursor.
LEMMA BitsRead ==
  ASSUME NEW s \in Stream, NEW r, NEW n \in Nat, Got(s, r, n), Fits(s, n)
  PROVE  BitsOf(r.value, n) = BitsFrom(s, Cursor(s), n)
<1>1. PICK c \in Nat : c = Cursor(s)
  BY Sizes
<1>2. \A b \in 0 .. n - 1 : b \in r.value <=> Bit(s, c + n - 1 - b)
  BY <1>1 DEF Got
<1>3. PICK a : a = BitsOf(r.value, n)
  OBVIOUS
<1>4. a \in Seq(BOOLEAN) /\ Len(a) = n /\ \A i \in 1 .. n : a[i] <=> n - i \in r.value
  BY <1>3, BitsOfType
<1>5. PICK e : e = BitsFrom(s, c, n)
  OBVIOUS
<1>6. e \in Seq(BOOLEAN) /\ Len(e) = n /\ \A i \in 1 .. n : e[i] <=> Bit(s, c + i - 1)
  BY <1>5, BitsFromType
<1>7. ASSUME NEW i \in 1 .. n
      PROVE  a[i] <=> e[i]
  <2>1. n - i \in 0 .. n - 1 /\ c + n - 1 - (n - i) = c + i - 1
    OBVIOUS
  <2>2. n - i \in r.value <=> Bit(s, c + i - 1)
    BY <1>2, <2>1
  <2> QED  BY <1>4, <1>6, <2>2
<1> QED
  BY <1>1, <1>3, <1>4, <1>5, <1>6, <1>7, SameBits

\* An append puts the bits of its field behind those that are written.
LEMMA BitsAppended ==
  ASSUME NEW s \in Stream, NEW t, NEW f \in Fields,
         Appended(s, t, Value(f), Len(f.bits), Len(f.bits))
  PROVE  BitsFrom(t, 0, Cursor(t)) = BitsFrom(s, 0, Cursor(s)) \o f.bits
<1>1. PICK c \in Nat, n \in Nat, d \in Nat :
        c = Cursor(s) /\ n = Len(f.bits) /\ d = c + n
  BY Sizes, FieldBits
<1>d. d = c + n
  BY <1>1
<1>2. /\ Cursor(t) = d
      /\ \A p \in 0 .. c - 1 : Bit(t, p) <=> Bit(s, p)
      /\ \A i \in 1 .. n : Bit(t, c + i - 1) <=> n - i \in Value(f)
  BY <1>1 DEF Appended
<1>3. PICK a : a = BitsFrom(s, 0, c)
  OBVIOUS
<1>4. a \in Seq(BOOLEAN) /\ Len(a) = c /\ \A i \in 1 .. c : a[i] <=> Bit(s, 0 + i - 1)
  BY <1>3, BitsFromType
<1>5. PICK g : g = f.bits
  OBVIOUS
<1>6. /\ g \in Seq(BOOLEAN) /\ Len(g) = n
      /\ \A i \in 1 .. n : n - i \in Value(f) <=> g[i]
  BY <1>1, <1>5, FieldBits
<1>7. PICK b : b = a \o g
  OBVIOUS
<1>8. /\ b \in Seq(BOOLEAN) /\ Len(b) = d
      /\ \A i \in 1 .. c : b[i] = a[i]
      /\ \A i \in 1 .. n : b[c + i] = g[i]
  <2>1. /\ b \in Seq(BOOLEAN) /\ Len(b) = Len(a) + Len(g)
        /\ \A i \in 1 .. Len(a) : b[i] = a[i]
        /\ \A i \in 1 .. Len(g) : b[Len(a) + i] = g[i]
    <3>1. a \in Seq(BOOLEAN) /\ g \in Seq(BOOLEAN)
      BY <1>4, <1>6
    <3> QED  BY <1>7, <3>1, Concat, Zenon
  <2> QED  BY <1>d, <1>4, <1>6, <2>1, Zenon
<1>9. PICK e : e = BitsFrom(t, 0, d)
  OBVIOUS
<1>10. e \in Seq(BOOLEAN) /\ Len(e) = d /\ \A i \in 1 .. d : e[i] <=> Bit(t, 0 + i - 1)
  BY <1>9, BitsFromType
<1>11. ASSUME NEW i \in 1 .. d
       PROVE  e[i] <=> b[i]
  <2>1. CASE i <= c
    <3>1. 0 + i - 1 \in 0 .. c - 1 /\ i \in 1 .. c
      BY <2>1
    <3>2. Bit(t, 0 + i - 1) <=> Bit(s, 0 + i - 1)
      BY <1>2, <3>1
    <3>3. a[i] <=> Bit(s, 0 + i - 1)
      BY <1>4, <3>1
    <3>4. b[i] = a[i]
      BY <1>8, <3>1
    <3> QED  BY <1>10, <3>2, <3>3, <3>4
  <2>2. CASE i > c
    <3>1. PICK j \in 1 .. n : i = c + j /\ 0 + i - 1 = c + j - 1
      <4>1. i - c \in 1 .. n /\ i = c + (i - c) /\ 0 + i - 1 = c + (i - c) - 1
        BY <1>d, <2>2
      <4> QED  BY <4>1
    <3>2. Bit(t, 0 + i - 1) <=> n - j \in Value(f)
      BY <1>2, <3>1
    <3>3. n - j \in Value(f) <=> g[j]
      BY <1>6
    <3>4. b[i] = g[j]
      BY <1>8, <3>1
    <3> QED  BY <1>10, <3>2, <3>3, <3>4
  <2> QED  BY <1>1, <2>1, <2>2
<1>12. e = b
  BY <1>8, <1>10, <1>11, SameBits
<1> QED
  BY <1>1, <1>2, <1>3, <1>5, <1>7, <1>9, <1>12

\* A buffer that is set to zeros, and one that is attached for a reader.
LEMMA Initialised ==
  ASSUME NEW n \in Nat, NEW buf, DOMAIN buf = 1 .. n
  PROVE  /\ BitStream_Init(buf) \in Stream /\ Len(BitStream_Init(buf).buf) = n
         /\ Cursor(BitStream_Init(buf)) = 0 /\ Clean(BitStream_Init(buf))
<1>1. PICK e : e = [i \in 1 .. n |-> {}]
  OBVIOUS
<1>2. e \in Seq(Octet) /\ Len(e) = n /\ \A i \in 1 .. n : e[i] = {}
  BY <1>1 DEF Octet
<1>3. PICK t : t = [buf |-> e, currentByte |-> 0, currentBit |-> 0]
  OBVIOUS
<1>4. BitStream_Init(buf) = t
  BY <1>1, <1>3 DEF BitStream_Init
<1>5. t \in Stream /\ t.buf = e /\ t.currentByte = 0 /\ t.currentBit = 0
  BY <1>2, <1>3 DEF Stream
<1>6. Cursor(t) = 0 /\ Size(t) = 8 * n
  BY <1>2, <1>5 DEF Cursor, Size
<1>7. ASSUME NEW p \in 0 .. 8 * n - 1
      PROVE  ~Bit(t, p)
  <2>1. p \div 8 + 1 \in 1 .. n
    BY Inside
  <2>2. t.buf[p \div 8 + 1] = {}
    BY <1>2, <1>5, <2>1
  <2> QED  BY <2>2 DEF Bit
<1>8. Clean(t)
  BY <1>6, <1>7 DEF Clean
<1> QED
  BY <1>2, <1>4, <1>5, <1>6, <1>8

LEMMA Attached ==
  ASSUME NEW s \in Stream, NEW k \in Nat, k <= Len(s.buf),
         NEW t, t = BitStream_AttachBuffer(SubSeq(s.buf, 1, k))
  PROVE  /\ t \in Stream /\ Len(t.buf) = k /\ Cursor(t) = 0
         /\ \A p \in 0 .. 8 * k - 1 : Bit(t, p) <=> Bit(s, p)
<1>1. PICK buf \in Seq(Octet) : buf = s.buf
  BY DEF Stream
<1>2. PICK e : e = SubSeq(buf, 1, k)
  OBVIOUS
<1>3. e \in Seq(Octet) /\ Len(e) = k /\ \A i \in 1 .. k : e[i] = buf[i]
  <2>1. k <= Len(buf)
    BY <1>1
  <2> QED  BY <1>2, <2>1
<1>4. t = [buf |-> e, currentByte |-> 0, currentBit |-> 0]
  BY <1>1, <1>2 DEF BitStream_AttachBuffer
<1>5. t \in Stream /\ t.buf = e /\ t.currentByte = 0 /\ t.currentBit = 0
  BY <1>3, <1>4 DEF Stream
<1>6. Cursor(t) = 0
  BY <1>5 DEF Cursor
<1>7. ASSUME NEW p \in 0 .. 8 * k - 1
      PROVE  Bit(t, p) <=> Bit(s, p)
  <2>1. PICK i \in 1 .. k : i = p \div 8 + 1
    BY Inside
  <2>2. t.buf[i] = s.buf[i]
    BY <1>1, <1>3, <1>5
  <2> QED  BY <2>1, <2>2 DEF Bit
<1> QED
  BY <1>3, <1>5, <1>6, <1>7

\* The octets of the bits that were written, and how many there are.
LEMMA OctetsWritten ==
  ASSUME NEW s \in Stream, Fits(s, 0), NEW k \in 0 .. (Cursor(s) + 7) \div 8
  PROVE  k \in Nat /\ k <= Len(s.buf) /\ 8 * k <= Cursor(s) + 7
<1>1. PICK c \in Nat, len \in Nat : c = Cursor(s) /\ len = Len(s.buf) /\ c + 0 <= 8 * len
  BY Sizes DEF Fits, Size
<1>2. k \in 0 .. (c + 7) \div 8
  BY <1>1
<1>3. k \in Nat /\ k <= len /\ 8 * k <= c + 7
  <2>1. c + 0 <= 8 * len
    BY <1>1
  <2> QED  BY <1>2, <2>1
<1> QED
  BY <1>1, <1>3

Zeros == [i \in 1 .. 7 |-> FALSE]

\* What is delivered are the bits that were written, the last octet filled up
\* with zeros.
LEMMA BitsDelivered ==
  ASSUME NEW s \in Stream, Fits(s, 0), Clean(s), NEW k \in 0 .. (Cursor(s) + 7) \div 8,
         NEW t, t = BitStream_AttachBuffer(SubSeq(s.buf, 1, k))
  PROVE  BitsFrom(t, 0, 8 * k) = SubSeq(BitsFrom(s, 0, Cursor(s)) \o Zeros, 1, 8 * k)
<1>1. PICK c \in Nat, len \in Nat, size \in Nat, n \in Nat :
        c = Cursor(s) /\ len = Len(s.buf) /\ size = Size(s) /\ n = 8 * k
  BY Sizes, OctetsWritten
<1>2. size = 8 * len /\ k \in Nat /\ k <= len /\ n <= c + 7 /\ n <= size
  <2>1. size = 8 * len
    BY <1>1 DEF Size
  <2>2. k \in Nat /\ k <= len /\ 8 * k <= c + 7
    BY <1>1, OctetsWritten
  <2>3. 8 * k <= 8 * len
    BY <2>2
  <2>4. n = 8 * k
    BY <1>1
  <2> QED  BY <2>1, <2>2, <2>3, <2>4
<1>3. \A p \in 0 .. n - 1 : Bit(t, p) <=> Bit(s, p)
  BY <1>1, <1>2, Attached
<1>4. \A p \in c .. size - 1 : ~Bit(s, p)
  BY <1>1 DEF Clean
<1>5. PICK a, z : a = BitsFrom(s, 0, c) /\ z = Zeros
  OBVIOUS
<1>6. a \in Seq(BOOLEAN) /\ Len(a) = c /\ \A i \in 1 .. c : a[i] <=> Bit(s, 0 + i - 1)
  BY <1>5, BitsFromType
<1>7. z \in Seq(BOOLEAN) /\ Len(z) = 7 /\ \A i \in 1 .. 7 : z[i] = FALSE
  BY <1>5 DEF Zeros
<1>8. PICK b : b = a \o z
  OBVIOUS
<1>9. /\ b \in Seq(BOOLEAN) /\ Len(b) = c + 7
      /\ \A i \in 1 .. c : b[i] = a[i]
      /\ \A i \in 1 .. 7 : b[c + i] = z[i]
  <2>1. /\ b \in Seq(BOOLEAN) /\ Len(b) = Len(a) + Len(z)
        /\ \A i \in 1 .. Len(a) : b[i] = a[i]
        /\ \A i \in 1 .. Len(z) : b[Len(a) + i] = z[i]
    <3>1. a \in Seq(BOOLEAN) /\ z \in Seq(BOOLEAN)
      BY <1>6, <1>7
    <3> QED  BY <1>8, <3>1, Concat, Zenon
  <2> QED  BY <1>6, <1>7, <2>1, Zenon
<1>10. PICK d : d = SubSeq(b, 1, n)
  OBVIOUS
<1>11. d \in Seq(BOOLEAN) /\ Len(d) = n /\ \A i \in 1 .. n : d[i] = b[i]
  BY <1>2, <1>9, <1>10, SMTT(30)
<1>12. PICK e : e = BitsFrom(t, 0, n)
  OBVIOUS
<1>13. e \in Seq(BOOLEAN) /\ Len(e) = n /\ \A i \in 1 .. n : e[i] <=> Bit(t, 0 + i - 1)
  BY <1>12, BitsFromType
<1>14. ASSUME NEW i \in 1 .. n
       PROVE  d[i] <=> e[i]
  <2>1. 0 + i - 1 \in 0 .. n - 1
    OBVIOUS
  <2>2. e[i] <=> Bit(s, 0 + i - 1)
    BY <1>3, <1>13, <2>1
  <2>3. d[i] = b[i]
    BY <1>11
  <2>4. CASE i <= c
    <3>1. i \in 1 .. c
      BY <2>4
    <3>2. b[i] = a[i] /\ (a[i] <=> Bit(s, 0 + i - 1))
      BY <1>6, <1>9, <3>1
    <3> QED  BY <2>2, <2>3, <3>2
  <2>5. CASE i > c
    <3>1. PICK j \in 1 .. 7 : i = c + j
      <4>1. i - c \in 1 .. 7 /\ i = c + (i - c)
        BY <1>2, <2>5
      <4> QED  BY <4>1
    <3>2. b[i] = FALSE
      BY <1>7, <1>9, <3>1
    <3>3. 0 + i - 1 \in c .. size - 1
      BY <1>2, <2>5
    <3>4. ~Bit(s, 0 + i - 1)
      BY <1>4, <3>3
    <3> QED  BY <2>2, <2>3, <3>2, <3>4
  <2> QED  BY <2>4, <2>5
<1>15. d = e
  BY <1>11, <1>13, <1>14, SameBits
<1> QED
  BY <1>1, <1>5, <1>8, <1>10, <1>12, <1>15

-----------------------------------------------------------------------------
\* The places where the fields begin.
Layout(fs, start) ==
  /\ start \in [1 .. Len(fs) + 1 -> Nat] /\ start[1] = 0
  /\ \A i \in 1 .. Len(fs) : start[i + 1] = start[i] + Len(fs[i].bits)

\* As far as the buffer goes, the bits of the fields are at their places.
Holds(s, fs, start) ==
  \A i \in 1 .. Len(fs) : \A j \in 1 .. Len(fs[i].bits) :
    start[i] + j <= Size(s) => (Bit(s, start[i] + j - 1) <=> fs[i].bits[j])

\* The last of them ends at the cursor of the writer.
Ends(s, fs, start) ==
  /\ start[Len(fs) + 1] = Cursor(s)
  /\ \A i \in 1 .. Len(fs) + 1 : start[i] <= Cursor(s)

\* The layout of no fields, and of one field more.
LEMMA NoFields ==
  ASSUME NEW s \in Stream, Cursor(s) = 0
  PROVE  \E start : Layout(<<>>, start) /\ Holds(s, <<>>, start) /\ Ends(s, <<>>, start)
<1> DEFINE start == [i \in 1 .. 1 |-> 0]
<1>1. Layout(<<>>, start) /\ Holds(s, <<>>, start) /\ Ends(s, <<>>, start)
  BY DEF Layout, Holds, Ends
<1> QED
  BY <1>1

LEMMA OneMoreField ==
  ASSUME NEW s \in Stream, NEW fs \in Seq(Fields), NEW start, NEW f \in Fields, NEW t,
         Layout(fs, start), Holds(s, fs, start), Ends(s, fs, start),
         Fits(s, Len(f.bits)),
         Appended(s, t, Value(f), Len(f.bits), Len(f.bits))
  PROVE  \E more : /\ Layout(Append(fs, f), more) /\ Holds(t, Append(fs, f), more)
                   /\ Ends(t, Append(fs, f), more)
<1>a. PICK c \in Nat, n \in Nat, size \in Nat :
        c = Cursor(s) /\ n = Len(f.bits) /\ size = Size(s)
  BY Sizes, FieldBits
<1>b. PICK d \in Nat, len \in Nat : d = c + n /\ len = Len(fs)
  <2>1. \A q \in Seq(Fields) : Len(q) \in Nat
    OBVIOUS
  <2>2. c + n \in Nat
    OBVIOUS
  <2> QED  BY <2>1, <2>2, Zenon
<1>1. c = Cursor(s) /\ n = Len(f.bits) /\ d = c + n /\ len = Len(fs) /\ size = Size(s)
  BY <1>a, <1>b
<1>2. d = c + n
  BY <1>1
<1>3. /\ Cursor(t) = d /\ Size(t) = size
      /\ \A p \in 0 .. c - 1 : Bit(t, p) <=> Bit(s, p)
      /\ \A i \in 1 .. n : Bit(t, c + i - 1) <=> n - i \in Value(f)
  BY <1>1 DEF Appended, Size
<1>4. PICK all : all = Append(fs, f)
  OBVIOUS
<1>5. /\ all \in Seq(Fields) /\ Len(all) = len + 1 /\ all[len + 1] = f
      /\ \A i \in 1 .. len : all[i] = fs[i]
  BY <1>1, <1>4
<1>6. /\ start \in [1 .. len + 1 -> Nat] /\ start[1] = 0 /\ start[len + 1] = c
      /\ \A i \in 1 .. len : start[i + 1] = start[i] + Len(fs[i].bits)
      /\ \A i \in 1 .. len + 1 : start[i] <= c
  BY <1>1 DEF Layout, Ends
<1>7. PICK more : more = [i \in 1 .. len + 2 |-> IF i = len + 2 THEN d ELSE start[i]]
  OBVIOUS
<1>8. /\ more \in [1 .. len + 2 -> Nat] /\ more[len + 2] = d
      /\ \A i \in 1 .. len + 1 : more[i] = start[i]
  <2>1. \A i \in 1 .. len + 2 : i # len + 2 => i \in 1 .. len + 1
    OBVIOUS
  <2>2. \A i \in 1 .. len + 1 : i \in 1 .. len + 2 /\ i # len + 2
    OBVIOUS
  <2>3. \A i \in 1 .. len + 1 : start[i] \in Nat
    BY <1>6
  <2> QED  BY <1>7, <2>1, <2>2, <2>3
<1>9. Layout(all, more)
  <2>1. more[1] = 0
    BY <1>6, <1>8
  <2>2. ASSUME NEW i \in 1 .. len + 1
        PROVE  more[i + 1] = more[i] + Len(all[i].bits)
    <3>1. CASE i \in 1 .. len
      <4>1. i + 1 \in 1 .. len + 1
        BY <3>1
      <4>2. more[i + 1] = start[i + 1] /\ more[i] = start[i] /\ all[i] = fs[i]
        BY <1>5, <1>8, <3>1, <4>1
      <4>3. start[i + 1] = start[i] + Len(fs[i].bits)
        BY <1>6, <3>1
      <4> QED  BY <4>2, <4>3, Zenon
    <3>2. CASE i = len + 1
      <4>1. more[i + 1] = d /\ more[i] = c /\ all[i] = f
        BY <1>5, <1>6, <1>8, <3>2
      <4> QED  BY <1>1, <4>1
    <3> QED  BY <3>1, <3>2
  <2>3. Len(all) = len + 1 /\ Len(all) + 1 = len + 2
    BY <1>5
  <2> QED  BY <1>8, <2>1, <2>2, <2>3 DEF Layout
<1>10. Ends(t, all, more)
  <2>1. Len(all) + 1 = len + 2
    BY <1>5
  <2>2. ASSUME NEW i \in 1 .. len + 2
        PROVE  more[i] <= d
    <3>1. CASE i \in 1 .. len + 1
      <4>1. start[i] <= c /\ start[i] \in Nat /\ more[i] = start[i]
        BY <1>6, <1>8, <3>1
      <4> QED  BY <1>2, <4>1
    <3>2. CASE i = len + 2
      BY <1>8, <3>2
    <3> QED  BY <3>1, <3>2
  <2> QED  BY <1>3, <1>8, <2>1, <2>2 DEF Ends
<1>11. ASSUME NEW i \in 1 .. len + 1, NEW j \in 1 .. Len(all[i].bits)
       PROVE  Bit(t, more[i] + j - 1) <=> all[i].bits[j]
  <2>1. CASE i \in 1 .. len
    <3>1. all[i] = fs[i] /\ fs[i] \in Fields /\ more[i] = start[i]
      BY <1>1, <1>5, <1>8, <2>1
    <3>2. PICK m \in Nat, a \in Nat : m = Len(fs[i].bits) /\ a = start[i]
      BY <1>6, <3>1, FieldBits
    <3>3. j \in 1 .. m
      BY <3>1, <3>2
    <3>4. a + m <= c
      <4>1. i + 1 \in 1 .. len + 1
        BY <2>1
      <4>2. start[i + 1] = start[i] + Len(fs[i].bits) /\ start[i + 1] <= c
        BY <1>6, <2>1, <4>1
      <4> QED  BY <3>2, <4>2
    <3>5. a + j - 1 \in 0 .. c - 1 /\ a + j <= c
      BY <3>3, <3>4
    <3>6. c <= size
      <4>1. c + n <= size
        BY <1>1 DEF Fits
      <4> QED  BY <4>1
    <3>7. Bit(t, a + j - 1) <=> Bit(s, a + j - 1)
      BY <1>3, <3>5
    <3>8. Bit(s, a + j - 1) <=> fs[i].bits[j]
      <4>1. a + j <= size
        BY <3>5, <3>6
      <4>2. start[i] + j <= Size(s)
        BY <1>1, <3>2, <4>1
      <4>3. i \in 1 .. Len(fs) /\ j \in 1 .. Len(fs[i].bits)
        BY <1>1, <2>1, <3>2, <3>3
      <4>4. Bit(s, start[i] + j - 1) <=> fs[i].bits[j]
        BY <4>2, <4>3 DEF Holds
      <4> QED  BY <3>2, <4>4
    <3> QED  BY <3>1, <3>2, <3>7, <3>8
  <2>2. CASE i = len + 1
    <3>1. all[i] = f /\ more[i] = c
      BY <1>5, <1>6, <1>8, <2>2
    <3>2. j \in 1 .. n
      BY <1>1, <3>1
    <3>3. n - j \in Value(f) <=> f.bits[j]
      BY <1>1, <3>2, FieldBits
    <3>4. Bit(t, c + j - 1) <=> f.bits[j]
      BY <1>3, <3>2, <3>3
    <3> QED  BY <3>1, <3>4
  <2> QED  BY <2>1, <2>2
<1>12. Holds(t, all, more)
  BY <1>5, <1>11 DEF Holds
<1> QED
  BY <1>4, <1>9, <1>10, <1>12

\* A field that was read from its place is the field that was appended.
LEMMA FieldRead ==
  ASSUME NEW s \in Stream, NEW fs \in Seq(Fields), NEW start, NEW i \in 1 .. Len(fs),
         Layout(fs, start), Holds(s, fs, start), start[i] = Cursor(s),
         Fits(s, Len(fs[i].bits))
  PROVE  BitsFrom(s, Cursor(s), Len(fs[i].bits)) = fs[i].bits
<1>1. PICK f \in Fields : f = fs[i]
  OBVIOUS
<1>2. PICK c \in Nat, n \in Nat, size \in Nat :
        c = Cursor(s) /\ n = Len(f.bits) /\ size = Size(s)
  BY Sizes, FieldBits
<1>3. c + n <= size
  BY <1>1, <1>2 DEF Fits
<1>4. PICK g : g = f.bits
  OBVIOUS
<1>5. g \in Seq(BOOLEAN) /\ Len(g) = n
  BY <1>2, <1>4, FieldBits
<1>6. PICK e : e = BitsFrom(s, c, n)
  OBVIOUS
<1>7. e \in Seq(BOOLEAN) /\ Len(e) = n /\ \A j \in 1 .. n : e[j] <=> Bit(s, c + j - 1)
  BY <1>6, BitsFromType
<1>8. ASSUME NEW j \in 1 .. n
      PROVE  e[j] <=> g[j]
  <2>1. c + j <= size
    BY <1>3
  <2>2. start[i] + j <= Size(s)
    BY <1>2, <2>1
  <2>3. j \in 1 .. Len(fs[i].bits)
    BY <1>1, <1>2
  <2>4. Bit(s, start[i] + j - 1) <=> fs[i].bits[j]
    BY <2>2, <2>3 DEF Holds
  <2>5. Bit(s, c + j - 1) <=> g[j]
    BY <1>1, <1>2, <1>4, <2>4
  <2> QED  BY <1>7, <2>5
<1> QED
  BY <1>1, <1>2, <1>4, <1>5, <1>6, <1>7, <1>8, SameBits

-----------------------------------------------------------------------------
Shape ==
  /\ stream \in Stream /\ Len(stream.buf) <= Count /\ Cursor(stream) <= 8 * Count + 7
  /\ mode \in {"append", "read", "failed"}
  /\ fields \in Seq(Fields) /\ next \in 1 .. Len(fields) + 1
  /\ got \in Seq(BOOLEAN)

\* The writer has the whole buffer, with zeros behind its cursor.
Writer ==
  mode = "append" =>
    /\ Len(stream.buf) = Count /\ Fits(stream, 0) /\ Clean(stream) /\ next = 1

\* The reader does not look behind what was delivered.
Reader == mode = "read" => Fits(stream, 0)

\* The fields are where they were written, and the cursor is at the next one.
Places ==
  \E start : /\ Layout(fields, start) /\ Holds(stream, fields, start)
             /\ mode = "append" => Ends(stream, fields, start)
             /\ mode = "read" => start[next] = Cursor(stream)

Answer == got # <<>> => next > 1 /\ got = fields[next - 1].bits

IInv == Shape /\ Writer /\ Reader /\ Places /\ Answer

LEMMA FitsEmpty ==
  ASSUME NEW s \in Stream
  PROVE  Fits(s, 0) <=> Cursor(s) <= Size(s)
BY Sizes DEF Fits

\* The stream and the fields of a writer that starts.
LEMMA Starts ==
  ASSUME NEW buf, DOMAIN buf = 1 .. Count,
         stream = BitStream_Init(buf), mode = "append", fields = <<>>, next = 1, got = <<>>
  PROVE  IInv
<1>1. PICK s : s = BitStream_Init(buf)
  OBVIOUS
<1>2. Count \in Nat
  BY FieldsAssumption
<1>3. s \in Stream /\ Len(s.buf) = Count /\ Cursor(s) = 0 /\ Clean(s)
  BY <1>1, <1>2, Initialised
<1>4. Fits(s, 0)
  BY <1>2, <1>3 DEF Fits, Size
<1>5. PICK start : Layout(<<>>, start) /\ Holds(s, <<>>, start) /\ Ends(s, <<>>, start)
  BY <1>3, NoFields
<1>6. Shape
  BY <1>1, <1>2, <1>3 DEF Shape
<1>7. Writer /\ Reader
  BY <1>1, <1>3, <1>4 DEF Writer, Reader
<1>8. Places
  BY <1>1, <1>5 DEF Places
<1>9. Answer
  BY DEF Answer
<1> QED
  BY <1>6, <1>7, <1>8, <1>9 DEF IInv

LEMMA InitHolds == Init => IInv
<1> SUFFICES ASSUME Init
             PROVE  IInv
  OBVIOUS
<1>1. PICK buf : buf = [i \in 1 .. Count |-> {}]
  OBVIOUS
<1>2. DOMAIN buf = 1 .. Count
  BY <1>1
<1> QED
  BY <1>1, <1>2, Starts DEF Init

\* Every step keeps the invariant.
LEMMA AppendFieldKeeps ==
  ASSUME IInv, NEW f \in Fields, AppendField(f)
  PROVE  /\ IInv'
         /\ Appended(stream, stream', Value(f), Len(f.bits), Len(f.bits))
<1>1. PICK s, t : s = stream /\ t = stream'
  OBVIOUS
<1>2. PICK n \in Nat, c \in Nat : n = Len(f.bits) /\ c = Cursor(s)
  BY <1>1, FieldBits, Sizes DEF IInv, Shape
<1>3. /\ s \in Stream /\ Len(s.buf) = Count /\ Clean(s) /\ c + n <= 8 * Count
      /\ t = Encode(s, f) /\ mode = "append" /\ mode' = "append"
      /\ fields \in Seq(Fields) /\ fields' = Append(fields, f)
      /\ got' = <<>> /\ next = 1 /\ next' = 1
  BY <1>1, <1>2 DEF IInv, Shape, Writer, AppendField
<1>4. Fits(s, Len(f.bits))
  BY <1>2, <1>3 DEF Fits, Size
<1>5. Appended(s, t, Value(f), Len(f.bits), Len(f.bits))
  BY <1>3, <1>4, EncodeAppends
<1>6. t \in Stream /\ Len(t.buf) = Count /\ Cursor(t) = c + n /\ Clean(t)
  BY <1>2, <1>3, <1>5 DEF Appended
<1>7. Count \in Nat /\ c + n <= 8 * Count + 7 /\ (c + n) + 0 <= 8 * Count
  <2>1. Count \in Nat
    BY FieldsAssumption
  <2>2. c + n <= 8 * Count
    BY <1>3
  <2> QED  BY <2>1, <2>2
<1>8. Fits(t, 0)
  BY <1>6, <1>7 DEF Fits, Size
<1>9. PICK start : Layout(fields, start) /\ Holds(s, fields, start) /\ Ends(s, fields, start)
  BY <1>1, <1>3 DEF IInv, Places
<1>10. PICK more : /\ Layout(fields', more) /\ Holds(t, fields', more)
                   /\ Ends(t, fields', more)
  BY <1>3, <1>4, <1>5, <1>9, OneMoreField
<1>11. Shape'
  <2>1. fields' \in Seq(Fields) /\ Len(fields') \in Nat
    BY <1>3
  <2>2. next' \in 1 .. Len(fields') + 1
    BY <1>3, <2>1
  <2> QED  BY <1>1, <1>3, <1>6, <1>7, <2>1, <2>2 DEF Shape
<1>12. Writer' /\ Reader'
  BY <1>1, <1>3, <1>6, <1>8 DEF Writer, Reader
<1>13. Places'
  BY <1>1, <1>3, <1>10 DEF Places
<1>14. Answer'
  BY <1>3 DEF Answer
<1> QED
  BY <1>1, <1>5, <1>11, <1>12, <1>13, <1>14 DEF IInv

LEMMA DeliverKeeps ==
  ASSUME IInv, Deliver
  PROVE  IInv'
<1>1. PICK s, t : s = stream /\ t = stream'
  OBVIOUS
<1>2. /\ s \in Stream /\ Len(s.buf) = Count /\ Fits(s, 0)
      /\ mode = "append" /\ mode' = "read"
      /\ fields \in Seq(Fields) /\ fields' = fields
      /\ got' = <<>> /\ next = 1 /\ next' = 1
  BY <1>1 DEF IInv, Shape, Writer, Deliver
<1>3. PICK k \in 0 .. (Cursor(s) + 7) \div 8 :
        t = BitStream_AttachBuffer(SubSeq(s.buf, 1, k))
  BY <1>1 DEF Deliver
<1>4. k \in Nat /\ k <= Count
  BY <1>2, OctetsWritten
<1>5. /\ t \in Stream /\ Len(t.buf) = k /\ Cursor(t) = 0
      /\ \A p \in 0 .. 8 * k - 1 : Bit(t, p) <=> Bit(s, p)
  BY <1>2, <1>3, <1>4, Attached
<1>6. Fits(t, 0)
  BY <1>4, <1>5 DEF Fits, Size
<1>7. PICK start : Layout(fields, start) /\ Holds(s, fields, start)
  BY <1>1 DEF IInv, Places
<1>8. Holds(t, fields, start)
  <2>1. ASSUME NEW i \in 1 .. Len(fields), NEW j \in 1 .. Len(fields[i].bits),
               start[i] + j <= Size(t)
        PROVE  Bit(t, start[i] + j - 1) <=> fields[i].bits[j]
    <3>1. fields[i] \in Fields /\ i \in 1 .. Len(fields) + 1
      BY <1>2
    <3>2. PICK a \in Nat, m \in Nat : a = start[i] /\ m = Len(fields[i].bits)
      BY <1>7, <3>1, FieldBits DEF Layout
    <3>3. j \in 1 .. m
      BY <3>2
    <3>4. a + j <= 8 * k
      BY <1>5, <2>1, <3>2 DEF Size
    <3>5. a + j - 1 \in 0 .. 8 * k - 1
      BY <1>4, <3>3, <3>4
    <3>6. a + j <= 8 * Count
      <4>1. Count \in Nat
        BY FieldsAssumption
      <4> QED  BY <1>4, <3>3, <3>4, <4>1
    <3>7. start[i] + j <= Size(s)
      BY <1>2, <3>2, <3>6 DEF Size
    <3>8. Bit(s, start[i] + j - 1) <=> fields[i].bits[j]
      BY <1>7, <3>7 DEF Holds
    <3>9. Bit(t, a + j - 1) <=> Bit(s, a + j - 1)
      BY <1>5, <3>5
    <3> QED  BY <3>2, <3>8, <3>9
  <2> QED  BY <2>1 DEF Holds
<1>9. start[1] = Cursor(t)
  BY <1>5, <1>7 DEF Layout
<1>10. Shape'
  <2>1. Len(fields') \in Nat /\ Count \in Nat
    BY <1>2, FieldsAssumption
  <2>2. next' \in 1 .. Len(fields') + 1
    BY <1>2, <2>1
  <2>3. 0 <= 8 * Count + 7
    BY <2>1
  <2> QED  BY <1>1, <1>2, <1>4, <1>5, <2>2, <2>3 DEF Shape
<1>11. Writer' /\ Reader'
  BY <1>1, <1>2, <1>6 DEF Writer, Reader
<1>12. Places'
  BY <1>1, <1>2, <1>7, <1>8, <1>9 DEF Places
<1>13. Answer'
  BY <1>2 DEF Answer
<1> QED
  BY <1>10, <1>11, <1>12, <1>13 DEF IInv

LEMMA ReadKeeps ==
  ASSUME IInv, Read
  PROVE  IInv'
<1>1. PICK s, t, f, r : s = stream /\ t = stream' /\ f = fields[next] /\ r = Decode(s, f)
  OBVIOUS
<1>2. /\ s \in Stream /\ Len(s.buf) <= Count /\ Fits(s, 0)
      /\ mode = "read" /\ mode' = IF r.ok THEN "read" ELSE "failed"
      /\ fields \in Seq(Fields) /\ fields' = fields
      /\ next \in 1 .. Len(fields) /\ next' = next + 1
      /\ t = r.stream
      /\ got' = IF r.ok THEN BitsOf(r.value, Len(f.bits)) ELSE <<>>
  BY <1>1 DEF IInv, Shape, Reader, Read
<1>3. f \in Fields
  BY <1>1, <1>2
<1>4. PICK n \in Nat, c \in Nat, size \in Nat :
        n = Len(f.bits) /\ c = Cursor(s) /\ size = Size(s)
  BY <1>2, <1>3, FieldBits, Sizes
<1>5. Got(s, r, n)
  BY <1>1, <1>2, <1>3, <1>4, DecodeGets
<1>6. c <= size
  BY <1>2, <1>4, FitsEmpty
<1>7. /\ t \in Stream /\ t.buf = s.buf /\ Cursor(t) <= size + 7
      /\ r.ok <=> Fits(s, n)
      /\ r.ok => Cursor(t) = c + n
  BY <1>2, <1>4, <1>5, <1>6 DEF Got
<1>8. PICK start : /\ Layout(fields, start) /\ Holds(s, fields, start)
                   /\ start[next] = c
  BY <1>1, <1>2, <1>4 DEF IInv, Places
<1>9. r.ok => BitsOf(r.value, n) = f.bits
  <2>1. ASSUME r.ok
        PROVE  BitsOf(r.value, n) = f.bits
    <3>1. Fits(s, n)
      BY <1>7, <2>1
    <3>2. BitsOf(r.value, n) = BitsFrom(s, c, n)
      BY <1>2, <1>4, <1>5, <3>1, BitsRead
    <3>3. BitsFrom(s, c, n) = f.bits
      BY <1>1, <1>2, <1>4, <1>8, <3>1, FieldRead
    <3> QED  BY <3>2, <3>3
  <2> QED  BY <2>1
<1>10. Shape'
  <2>1. Len(fields') \in Nat /\ Count \in Nat
    BY <1>2, FieldsAssumption
  <2>2. next' \in 1 .. Len(fields') + 1
    BY <1>2, <2>1
  <2>3. PICK len \in Nat, d \in Nat : len = Len(s.buf) /\ d = Cursor(t)
    BY <1>2, <1>7, Sizes
  <2>4. d <= 8 * len + 7 /\ len <= Count
    BY <1>2, <1>4, <1>7, <2>3 DEF Size
  <2>5. d <= 8 * Count + 7
    BY <2>1, <2>4
  <2>6. got' \in Seq(BOOLEAN)
    <3>1. BitsOf(r.value, n) \in Seq(BOOLEAN) /\ <<>> \in Seq(BOOLEAN)
      BY BitsOfType
    <3> QED  BY <1>2, <1>4, <3>1
  <2> QED  BY <1>1, <1>2, <1>7, <2>2, <2>3, <2>5, <2>6 DEF Shape
<1>11. Writer' /\ Reader'
  <2>1. ASSUME r.ok
        PROVE  Fits(t, 0)
    <3>1. c + n <= size
      BY <1>4, <1>7, <2>1 DEF Fits
    <3>2. (c + n) + 0 <= size
      BY <3>1
    <3> QED  BY <1>4, <1>7, <2>1, <3>2 DEF Fits, Size
  <2> QED  BY <1>1, <1>2, <2>1 DEF Writer, Reader
<1>12. Places'
  <2>1. Holds(t, fields, start)
    BY <1>7, <1>8 DEF Holds, Size, Bit
  <2>2. r.ok => start[next + 1] = Cursor(t)
    <3>1. start[next + 1] = start[next] + Len(fields[next].bits)
      BY <1>2, <1>8 DEF Layout
    <3> QED  BY <1>1, <1>4, <1>7, <1>8, <3>1
  <2> QED  BY <1>1, <1>2, <1>8, <2>1, <2>2 DEF Places
<1>13. Answer'
  <2>1. next' > 1 /\ next' - 1 = next
    BY <1>2
  <2>2. got' # <<>> => got' = f.bits
    BY <1>2, <1>4, <1>9
  <2> QED  BY <1>1, <1>2, <2>1, <2>2 DEF Answer
<1> QED
  BY <1>10, <1>11, <1>12, <1>13 DEF IInv

LEMMA RestartKeeps ==
  ASSUME IInv, Restart
  PROVE  IInv'
<1>1. PICK buf : buf = [i \in 1 .. Count |->
                          IF i \in DOMAIN stream.buf THEN stream.buf[i] ELSE {}]
  OBVIOUS
<1>2. DOMAIN buf = 1 .. Count
  BY <1>1
<1>3. PICK s : s = BitStream_Init(buf)
  OBVIOUS
<1>4. /\ stream' = s /\ mode' = "append" /\ fields' = <<>> /\ next' = 1 /\ got' = <<>>
  BY <1>1, <1>3 DEF Restart
<1>5. Count \in Nat
  BY FieldsAssumption
<1>6. s \in Stream /\ Len(s.buf) = Count /\ Cursor(s) = 0 /\ Clean(s)
  BY <1>2, <1>3, <1>5, Initialised
<1>7. Fits(s, 0)
  BY <1>5, <1>6 DEF Fits, Size
<1>8. PICK start : Layout(<<>>, start) /\ Holds(s, <<>>, start) /\ Ends(s, <<>>, start)
  BY <1>6, NoFields
<1>9. Shape'
  BY <1>4, <1>5, <1>6 DEF Shape
<1>10. Writer' /\ Reader'
  BY <1>4, <1>6, <1>7 DEF Writer, Reader
<1>11. Places'
  BY <1>4, <1>8 DEF Places
<1>12. Answer'
  BY <1>4 DEF Answer
<1> QED
  BY <1>9, <1>10, <1>11, <1>12 DEF IInv

LEMMA NextKeeps == IInv /\ [Next]_vars => IInv'
<1> SUFFICES ASSUME IInv, [Next]_vars
             PROVE  IInv'
  OBVIOUS
<1>1. CASE \E f \in Fields : AppendField(f)
  BY <1>1, AppendFieldKeeps
<1>2. CASE Deliver
  BY <1>2, DeliverKeeps
<1>3. CASE Read
  BY <1>3, ReadKeeps
<1>4. CASE Restart
  BY <1>4, RestartKeeps
<1>5. CASE UNCHANGED vars
  <2>1. /\ stream' = stream /\ mode' = mode /\ fields' = fields
        /\ next' = next /\ got' = got
    BY <1>5 DEF vars
  <2> QED  BY <2>1 DEF IInv, Shape, Writer, Reader, Places, Answer
<1> QED
  BY <1>1, <1>2, <1>3, <1>4, <1>5 DEF Next

-----------------------------------------------------------------------------
\* The invariant that the rest of the module rests on.
THEOREM Invariance == Spec => []IInv
<1>1. Init => IInv
  BY InitHolds
<1>2. IInv /\ [Next]_vars => IInv'
  BY NextKeeps
<1> QED
  BY <1>1, <1>2, PTL DEF Spec

\* The types, and the bounds of the cursor: it is never more than an octet behind
\* the buffer, whatever a reader was given.
THEOREM TypeCorrect == Spec => []TypeOK
<1>1. IInv => TypeOK
  <2> SUFFICES ASSUME IInv
               PROVE  TypeOK
    OBVIOUS
  <2>1. PICK q \in Nat, b \in 0 .. 7, n \in Nat :
          q = stream.currentByte /\ b = stream.currentBit /\ n = Count
    BY Sizes, FieldsAssumption DEF IInv, Shape
  <2>2. 8 * q + b <= 8 * n + 7
    BY <2>1 DEF IInv, Shape, Cursor
  <2>3. q \in 0 .. n + 1
    BY <2>2
  <2> QED  BY <2>1, <2>3 DEF IInv, Shape, Stream, TypeOK
<1> QED
  BY <1>1, Invariance, PTL

\* Behind the cursor of a writer there are only zeros, in every order of calls
\* and in every buffer that is used again: what AppendNBitZero and
\* AppendPartialByte rely on.
THEOREM RestStaysZero == Spec => []RestIsZero
<1>1. IInv => RestIsZero
  <2> SUFFICES ASSUME IInv, mode = "append", NEW p \in Cursor(stream) .. 8 * Count - 1
               PROVE  ~BitAt(p)
    BY DEF RestIsZero
  <2>1. Clean(stream) /\ Size(stream) = 8 * Count
    BY DEF IInv, Writer, Size
  <2>2. ~Bit(stream, p)
    BY <2>1 DEF Clean
  <2> QED  BY <2>2 DEF Bit, BitAt
<1> QED
  BY <1>1, Invariance, PTL

\* A read that succeeds returns the field that was appended at its place,
\* whatever fields of whatever widths were appended around it.
THEOREM ReadsAreTrue == Spec => []ReadsWhatWasWritten
<1>1. IInv => ReadsWhatWasWritten
  BY DEF IInv, Answer, ReadsWhatWasWritten
<1> QED
  BY <1>1, Invariance, PTL

-----------------------------------------------------------------------------
\* The contents of the queue.
LEMMA WrittenBits ==
  ASSUME NEW s, NEW n \in Nat
  PROVE  [i \in 1 .. n |-> (7 - ((i - 1) % 8)) \in s.buf[(i - 1) \div 8 + 1]]
           = BitsFrom(s, 0, n)
<1>1. \A i \in 1 .. n : 0 + i - 1 = i - 1
  OBVIOUS
<1>2. [i \in 1 .. n |-> Bit(s, i - 1)] = [i \in 1 .. n |-> Bit(s, 0 + i - 1)]
  BY <1>1
<1> QED
  BY <1>2 DEF BitsFrom, Bit

\* What the refinement mapping makes of the stream, before and after a step.
LEMMA ContentsOfWriter ==
  ASSUME NEW s \in Stream, s = stream, mode = "append"
  PROVE  Contents = BitsFrom(s, 0, Cursor(s))
BY Sizes, WrittenBits DEF Contents, BitAt

LEMMA ContentsOfWriterNext ==
  ASSUME NEW s \in Stream, s = stream', mode' = "append"
  PROVE  Contents' = BitsFrom(s, 0, Cursor(s))
BY Sizes, WrittenBits DEF Contents, BitAt

LEMMA ContentsOfReader ==
  ASSUME NEW s \in Stream, s = stream, mode = "read"
  PROVE  Contents = BitsFrom(s, Cursor(s), Size(s) - Cursor(s))
BY DEF Contents, BitAt, BitsFrom, Bit, Size

LEMMA ContentsOfReaderNext ==
  ASSUME NEW s \in Stream, s = stream', mode' = "read"
  PROVE  Contents' = BitsFrom(s, Cursor(s), Size(s) - Cursor(s))
BY DEF Contents, BitAt, BitsFrom, Bit, Size

LEMMA NoBits == ASSUME NEW s PROVE BitsFrom(s, 0, 0) = <<>>
BY DEF BitsFrom

\* Every step of the stream is a step of the queue.
LEMMA PutStep ==
  ASSUME IInv, NEW f \in Fields, AppendField(f)
  PROVE  Queue!Put(f)
<1>1. PICK s, t : s = stream /\ t = stream'
  OBVIOUS
<1>2. mode = "append" /\ mode' = "append" /\ s \in Stream
  BY <1>1 DEF AppendField, IInv, Shape
<1>3. Appended(s, t, Value(f), Len(f.bits), Len(f.bits))
  BY <1>1, AppendFieldKeeps
<1>4. t \in Stream
  BY <1>3 DEF Appended
<1>5. BitsFrom(t, 0, Cursor(t)) = BitsFrom(s, 0, Cursor(s)) \o f.bits
  BY <1>2, <1>3, BitsAppended
<1>6. Contents = BitsFrom(s, 0, Cursor(s)) /\ Contents' = BitsFrom(t, 0, Cursor(t))
  BY <1>1, <1>2, <1>4, ContentsOfWriter, ContentsOfWriterNext
<1>7. Contents' = Contents \o f.bits
  BY <1>5, <1>6
<1> QED
  BY <1>7 DEF Queue!Put, AppendField

LEMMA DeliverStep ==
  ASSUME IInv, Deliver
  PROVE  Queue!Deliver
<1>1. PICK s, t : s = stream /\ t = stream'
  OBVIOUS
<1>2. mode = "append" /\ mode' = "read" /\ s \in Stream /\ Fits(s, 0) /\ Clean(s)
  BY <1>1 DEF Deliver, IInv, Shape, Writer
<1>3. PICK k \in 0 .. (Cursor(s) + 7) \div 8 :
        t = BitStream_AttachBuffer(SubSeq(s.buf, 1, k))
  BY <1>1 DEF Deliver
<1>4. k \in Nat /\ k <= Len(s.buf)
  BY <1>2, OctetsWritten
<1>5. t \in Stream /\ Len(t.buf) = k /\ Cursor(t) = 0
  BY <1>2, <1>3, <1>4, Attached
<1>6. Contents = BitsFrom(s, 0, Cursor(s))
  BY <1>1, <1>2, ContentsOfWriter
<1>7. Contents' = BitsFrom(t, 0, 8 * k)
  <2>1. Contents' = BitsFrom(t, Cursor(t), Size(t) - Cursor(t))
    BY <1>1, <1>2, <1>5, ContentsOfReaderNext
  <2>2. Size(t) - Cursor(t) = 8 * k
    BY <1>4, <1>5 DEF Size
  <2> QED  BY <1>5, <2>1, <2>2
<1>8. Contents' = SubSeq(Contents \o Zeros, 1, 8 * k)
  BY <1>2, <1>3, <1>6, <1>7, BitsDelivered
<1>9. Len(Contents) = Cursor(s)
  BY <1>2, <1>6, BitsFromType, Sizes
<1>10. k \in 0 .. (Len(Contents) + 7) \div 8
  BY <1>9
<1>11. \E octets \in 0 .. (Len(Contents) + 7) \div 8 :
         Contents' = SubSeq(Contents \o [i \in 1 .. 7 |-> FALSE], 1, 8 * octets)
  BY <1>8, <1>10 DEF Zeros
<1> QED
  BY <1>11 DEF Queue!Deliver, Deliver

LEMMA GetStep ==
  ASSUME IInv, Read
  PROVE  Queue!Get
<1>1. PICK s, t, f, r : s = stream /\ t = stream' /\ f = fields[next] /\ r = Decode(s, f)
  OBVIOUS
<1>2. /\ s \in Stream /\ Fits(s, 0)
      /\ mode = "read" /\ mode' = IF r.ok THEN "read" ELSE "failed"
      /\ fields \in Seq(Fields) /\ fields' = fields
      /\ next \in 1 .. Len(fields) /\ next' = next + 1
      /\ t = r.stream
      /\ got' = IF r.ok THEN BitsOf(r.value, Len(f.bits)) ELSE <<>>
  BY <1>1 DEF IInv, Shape, Reader, Read
<1>3. f \in Fields
  BY <1>1, <1>2
<1>4. PICK n \in Nat, c \in Nat, size \in Nat :
        n = Len(f.bits) /\ c = Cursor(s) /\ size = Size(s)
  BY <1>2, <1>3, FieldBits, Sizes
<1>5. Got(s, r, n)
  BY <1>1, <1>2, <1>3, <1>4, DecodeGets
<1>6. c <= size
  BY <1>2, <1>4, FitsEmpty
<1>7. PICK m \in Nat : m = size - c
  BY <1>6
<1>8. Contents = BitsFrom(s, c, m)
  BY <1>1, <1>2, <1>4, <1>7, ContentsOfReader
<1>9. Len(Contents) = m
  BY <1>8, BitsFromType
<1>10. r.ok <=> n <= m
  <2>1. r.ok <=> c + n <= size
    BY <1>4, <1>5 DEF Got, Fits
  <2>2. c + n <= size <=> n <= m
    BY <1>7
  <2> QED  BY <2>1, <2>2
<1>11. CASE r.ok
  <2>1. n <= m /\ Fits(s, n)
    BY <1>5, <1>10, <1>11 DEF Got
  <2>2. t \in Stream /\ t.buf = s.buf /\ Cursor(t) = c + n /\ Size(t) = size
    BY <1>2, <1>4, <1>5, <2>1 DEF Got, Size
  <2>3. got' = BitsFrom(s, c, n)
    BY <1>2, <1>4, <1>5, <1>11, <2>1, BitsRead
  <2>4. got' = SubSeq(Contents, 1, n)
    <3>1. Part(BitsFrom(s, c, m), 0, n) = BitsFrom(s, c + 0, n)
      <4>1. 0 + n <= m /\ 0 \in Nat
        BY <2>1
      <4> QED  BY <4>1, SliceOfBits
    <3>2. SubSeq(BitsFrom(s, c, m), 1, n) = BitsFrom(s, c, n)
      <4>1. 0 + 1 = 1 /\ 0 + n = n /\ c + 0 = c
        OBVIOUS
      <4> QED  BY <3>1, <4>1, Zenon DEF Part
    <3> QED  BY <1>8, <2>3, <3>2
  <2>5. Contents' = SubSeq(Contents, n + 1, Len(Contents))
    <3>1. PICK k \in Nat : k = m - n
      BY <2>1
    <3>2. SubSeq(BitsFrom(s, c, m), n + 1, m) = BitsFrom(s, c + n, k)
      <4>1. n + k <= m /\ n + k = m
        BY <3>1
      <4>2. Part(BitsFrom(s, c, m), n, k) = BitsFrom(s, c + n, k)
        BY <4>1, SliceOfBits
      <4> QED  BY <4>1, <4>2, Zenon DEF Part
    <3>3. size - (c + n) = k
      BY <1>7, <3>1
    <3>4. mode' = "read"
      BY <1>2, <1>11
    <3>5. Contents' = BitsFrom(t, c + n, k)
      <4>1. Contents' = BitsFrom(t, Cursor(t), Size(t) - Cursor(t))
        BY <1>1, <2>2, <3>4, ContentsOfReaderNext
      <4> QED  BY <2>2, <3>3, <4>1
    <3>6. BitsFrom(t, c + n, k) = BitsFrom(s, c + n, k)
      BY <2>2 DEF BitsFrom, Bit
    <3> QED  BY <1>8, <1>9, <3>2, <3>3, <3>5, <3>6
  <2> QED
    BY <1>1, <1>2, <1>4, <1>9, <2>1, <2>4, <2>5 DEF Queue!Get
<1>12. CASE ~r.ok
  <2>1. ~(n <= m) /\ got' = <<>>
    BY <1>2, <1>10, <1>12
  <2>2. Contents' = <<>>
    BY <1>2, <1>12 DEF Contents
  <2> QED
    BY <1>1, <1>2, <1>4, <1>9, <2>1, <2>2 DEF Queue!Get
<1> QED
  BY <1>11, <1>12

LEMMA ClearStep ==
  ASSUME IInv', Restart
  PROVE  Queue!Clear
<1>1. PICK t : t = stream'
  OBVIOUS
<1>2. mode' = "append" /\ t \in Stream
  BY <1>1 DEF Restart, IInv, Shape
<1>3. Contents' = BitsFrom(t, 0, Cursor(t))
  BY <1>1, <1>2, ContentsOfWriterNext
<1>4. Cursor(t) = 0
  BY <1>1 DEF Restart, BitStream_Init, Cursor
<1>5. Contents' = <<>>
  BY <1>3, <1>4, NoBits
<1> QED
  BY <1>5 DEF Restart, Queue!Clear

\* The bit stream implements a queue of bits: an append lengthens it by its field
\* and disturbs nothing before it, a read takes the field from its front, and
\* fails exactly when too few bits were delivered.
THEOREM Refinement == Spec => ImplementsBitQueue
<1>1. Init => Queue!Init
  <2> SUFFICES ASSUME Init
               PROVE  Queue!Init
    OBVIOUS
  <2>1. IInv
    BY InitHolds
  <2>2. PICK s : s = stream
    OBVIOUS
  <2>3. s \in Stream /\ mode = "append"
    BY <2>1, <2>2 DEF IInv, Shape, Init
  <2>4. Contents = BitsFrom(s, 0, Cursor(s))
    BY <2>2, <2>3, ContentsOfWriter
  <2>5. Cursor(s) = 0
    BY <2>2 DEF Init, BitStream_Init, Cursor
  <2>6. Contents = <<>>
    BY <2>4, <2>5, NoBits
  <2> QED
    BY <2>6 DEF Init, Queue!Init
<1>2. IInv /\ IInv' /\ [Next]_vars => [Queue!Next]_Queue!vars
  <2> SUFFICES ASSUME IInv, IInv', [Next]_vars
               PROVE  [Queue!Next]_Queue!vars
    OBVIOUS
  <2>1. ASSUME NEW f \in Fields, AppendField(f)
        PROVE  Queue!Next
    BY <2>1, PutStep DEF Queue!Next
  <2>2. CASE Deliver
    BY <2>2, DeliverStep DEF Queue!Next
  <2>3. CASE Read
    BY <2>3, GetStep DEF Queue!Next
  <2>4. CASE Restart
    BY <2>4, ClearStep DEF Queue!Next
  <2>5. CASE UNCHANGED vars
    <3>1. /\ stream' = stream /\ mode' = mode /\ fields' = fields
          /\ next' = next /\ got' = got
      BY <2>5 DEF vars
    <3>2. Contents' = Contents
      BY <3>1 DEF Contents, BitAt
    <3> QED  BY <3>1, <3>2 DEF Queue!vars
  <2> QED
    BY <2>1, <2>2, <2>3, <2>4, <2>5 DEF Next
<1> QED
  BY <1>1, <1>2, Invariance, PTL DEF Spec, Queue!Spec, ImplementsBitQueue
=============================================================================
