---------------------------- MODULE ChecksumProofs ----------------------------
(***************************************************************************)
(* The loops of Checksum keep their values in width, never ask for an octet *)
(* behind the end of a file that fills a word, and give the checksum of     *)
(* CFDP.  The last is by induction over the words of the file: the carries  *)
(* that the code cuts off are those of the columns that the standard sums.  *)
(***************************************************************************)
EXTENDS Checksum, DataInduction

\* The offset is at a word, or behind the last one.
Aligned == offset % 4 = 0 \/ Ended

IInv == TypeOK /\ Aligned

-----------------------------------------------------------------------------
(* The arithmetic of the last word. *)

LEMMA LastWord ==
  ASSUME NEW at \in Nat, NEW length \in Nat, at % 4 = 0, at < length, length - 4 < at
  PROVE  length % 4 = length - at
<1>1. PICK q \in Nat : at = 4 * q
  <2>1. at = 4 * (at \div 4) + (at % 4) /\ at \div 4 \in Nat
    BY SMT
  <2> QED BY <2>1, SMT
<1>2. length - 4 * q \in 1 .. 3
  BY <1>1, SMT
<1>3. \A n \in 1 .. 3 : (4 * q + n) % 4 = n
  BY SMT
<1>4. length = 4 * q + (length - 4 * q)
  BY <1>1, SMT
<1> QED BY <1>1, <1>2, <1>3, <1>4

LEMMA FileIsSequence ==
  ASSUME TypeOK
  PROVE  file \in Seq(Octet) /\ Len(file) \in Nat
BY ChecksumAssumption DEF TypeOK

\* What the loop takes next, of a file that fills a word and of one that does not.
LEMMA NextOctets ==
  ASSUME IInv, ~Ended
  PROVE  /\ bytes_to_read \in 0 .. 4
         /\ bytes_to_read = 4 \/ offset + bytes_to_read = Len(file)
         /\ Len(file) >= 4 => offset + bytes_to_read <= Len(file)
<1>1. offset \in Nat /\ Len(file) \in Nat /\ offset < Len(file) /\ offset % 4 = 0
  BY FileIsSequence DEF IInv, TypeOK, Aligned, Ended
<1>2. CASE Len(file) >= 4 /\ offset > Len(file) - 4
  <2>1. Len(file) % 4 = Len(file) - offset
    BY <1>1, <1>2, LastWord
  <2> QED BY <1>1, <1>2, <2>1 DEF bytes_to_read
<1>3. CASE ~(Len(file) >= 4 /\ offset > Len(file) - 4)
  BY <1>1, <1>3 DEF bytes_to_read
<1> QED BY <1>2, <1>3

-----------------------------------------------------------------------------
(* Words. *)

LEMMA SumIsWord ==
  ASSUME NEW a \in Word, NEW b \in Word
  PROVE  Add(a, b) \in Word
<1> DEFINE low  == 256 * (a[3] + b[3]) + a[4] + b[4]
           high == 256 * (a[1] + b[1]) + a[2] + b[2] + low \div 65536
<1>1. \A i \in 1 .. 4 : a[i] \in Nat /\ b[i] \in Nat
  BY SMTT(30) DEF Word, Octet
<1>2. low \in Nat
  BY <1>1
<1>3. high \in Nat
  <2>1. \A n \in Nat : n \div 65536 \in Nat
    BY SMT
  <2> HIDE DEF low
  <2> QED BY <1>1, <1>2, <2>1
<1>4. \A n \in Nat : n % 256 \in Octet /\ (n \div 256) % 256 \in Octet
  BY SMT DEF Octet
<1>5. Add(a, b) = <<(high \div 256) % 256, high % 256, (low \div 256) % 256, low % 256>>
  BY DEF Add
<1> HIDE DEF low, high
<1> QED BY <1>2, <1>3, <1>4, <1>5 DEF Word

-----------------------------------------------------------------------------
LEMMA InitInv == Init => IInv
<1> SUFFICES ASSUME Init PROVE IInv
  OBVIOUS
<1>1. buffer \in Word
  BY ChecksumAssumption DEF Init, Word
<1>2. <<0, 0, 0, 0>> \in Word
  BY DEF Word, Octet
<1>3. TypeOK
  BY <1>1, <1>2 DEF Init, TypeOK
<1>4. Aligned
  <2>1. 0 % 4 = 0
    BY SMT
  <2> QED BY <2>1 DEF Init, Aligned
<1> QED BY <1>3, <1>4 DEF IInv

LEMMA DataStep == IInv /\ calucate_data_checksum => IInv'
<1> SUFFICES ASSUME IInv, calucate_data_checksum PROVE IInv'
  OBVIOUS
<1>0. file \in Seq(Octet) /\ Len(file) \in Nat
  BY FileIsSequence DEF IInv
<1>1. offset \in Nat /\ ~Ended /\ offset % 4 = 0 /\ offset' = offset + 4
  BY <1>0 DEF IInv, TypeOK, Aligned, Ended, calucate_data_checksum
<1>2. DataValue \in Word
  <2> SUFFICES ASSUME NEW j \in 1 .. 4, j <= bytes_to_read PROVE DataAt(offset + j) \in Octet
    BY DEF DataValue, Word, Octet
  <2>1. CASE offset + j <= Len(file)
    BY <1>0, <1>1, <2>1 DEF DataAt
  <2>2. CASE offset + j = Len(file) + 1
    BY <1>0, <1>1, <2>2 DEF DataAt, Octet
  <2>3. CASE offset + j > Len(file) + 1
    <3>1. offset + j - Len(file) \in 1 .. 4
      BY <1>0, <1>1, <2>3 DEF Ended
    <3> QED BY <1>0, <1>1, <2>3, <3>1 DEF DataAt, IInv, TypeOK, Word
  <2> QED BY <1>0, <1>1, <2>1, <2>2, <2>3
<1>3. TypeOK'
  BY <1>1, <1>2, SumIsWord DEF calucate_data_checksum, IInv, TypeOK
<1>4. Aligned'
  BY <1>1, SMT DEF Aligned
<1> QED BY <1>3, <1>4 DEF IInv

LEMMA FileStep == IInv /\ calucate_file_checksum => IInv'
<1> SUFFICES ASSUME IInv, calucate_file_checksum PROVE IInv'
  OBVIOUS
<1>0. file \in Seq(Octet) /\ Len(file) \in Nat
  BY FileIsSequence DEF IInv
<1>1. /\ offset \in Nat /\ ~Ended /\ offset % 4 = 0
      /\ offset' = offset + bytes_to_read /\ file' = file
  BY <1>0 DEF IInv, TypeOK, Aligned, Ended, calucate_file_checksum
<1>2. bytes_to_read \in 0 .. 4 /\ (bytes_to_read = 4 \/ offset + bytes_to_read = Len(file))
  BY <1>1, NextOctets
<1>3. buffer' \in Word
  <2>1. PICK k \in 0 .. bytes_to_read : offset + k <= Len(file) /\ buffer' = filestore_read(k)
    BY DEF calucate_file_checksum
  <2>2. \A j \in 1 .. 4 : j <= k => offset + j \in 1 .. Len(file)
    BY <1>0, <1>1, <1>2, <2>1
  <2>3. \A j \in 1 .. 4 : j <= k => file[offset + j] \in Octet
    BY <1>0, <2>2
  <2> QED BY <2>1, <2>3 DEF filestore_read, IInv, TypeOK, Word
<1>4. FileValue(buffer', bytes_to_read) \in Word
  BY <1>2, <1>3 DEF FileValue, Word, Octet
<1>5. checksum' \in Word
  BY <1>4, SumIsWord DEF calucate_file_checksum, IInv, TypeOK
<1>6. failed' \in BOOLEAN
  BY DEF calucate_file_checksum, IInv, TypeOK
<1>7. TypeOK'
  BY <1>1, <1>2, <1>3, <1>5, <1>6 DEF calucate_file_checksum, IInv, TypeOK
<1>8. Aligned'
  <2>1. CASE bytes_to_read = 4
    BY <1>1, <2>1, SMT DEF Aligned
  <2>2. CASE offset + bytes_to_read = Len(file)
    BY <1>0, <1>1, <2>2 DEF Aligned, Ended
  <2> QED BY <1>2, <2>1, <2>2
<1> QED BY <1>7, <1>8 DEF IInv

\* The offset of either loop stays on a word until the loop has ended.
THEOREM Invariance == Spec => []IInv
<1>1. Init => IInv
  BY InitInv
<1>2. IInv /\ [Next]_vars => IInv'
  <2> SUFFICES ASSUME IInv, [Next]_vars PROVE IInv'
    OBVIOUS
  <2>1. CASE calucate_data_checksum
    BY <2>1, DataStep
  <2>2. CASE calucate_file_checksum
    BY <2>2, FileStep
  <2>3. CASE UNCHANGED vars
    BY <2>3 DEF vars, IInv, TypeOK, Aligned, Ended
  <2> QED BY <2>1, <2>2, <2>3 DEF Next
<1> QED BY <1>1, <1>2, PTL DEF Spec

\* Values keep their width, for any files and any contents of the memory.
THEOREM TypeCorrect == Spec => []TypeOK
<1>1. IInv => TypeOK
  BY DEF IInv
<1> QED BY <1>1, Invariance, PTL

\* Nothing is asked for behind the end of a file of four octets or more.
THEOREM ReadsStayWithinFile == Spec => []ReadsWithinFile
<1>1. IInv => ReadsWithinFile
  <2> SUFFICES ASSUME IInv, ~Ended, WholeWord(file)
               PROVE  offset + bytes_to_read <= Len(file)
    BY DEF ReadsWithinFile
  <2>1. file # <<>>
    BY FileIsSequence DEF IInv, TypeOK, Ended
  <2> QED BY <2>1, NextOctets DEF WholeWord
<1> QED BY <1>1, Invariance, PTL

-----------------------------------------------------------------------------
(* The carries of a sum of words. *)

\* The carry and the rest of a sum, from those of its first part.
LEMMA Carry ==
  ASSUME NEW a \in Nat, NEW b \in Nat
  PROVE  /\ (a + b) \div 256 = a \div 256 + ((a % 256) + b) \div 256
         /\ (a + b) % 256 = ((a % 256) + b) % 256
<1>1. PICK q \in Nat, r \in 0 .. 255 : a = 256 * q + r /\ q = a \div 256 /\ r = a % 256
  OBVIOUS
<1>2. PICK p \in Nat, t \in 0 .. 255 : r + b = 256 * p + t /\ p = (r + b) \div 256 /\ t = (r + b) % 256
  <2>1. r + b \in Nat
    OBVIOUS
  <2>2. \A n \in Nat : \E x \in Nat, y \in 0 .. 255 : n = 256 * x + y /\ x = n \div 256 /\ y = n % 256
    OBVIOUS
  <2> QED  BY <2>1, <2>2
<1>3. a + b = 256 * (q + p) + t /\ q + p \in Nat
  BY <1>1, <1>2
<1>4. \A x \in Nat, y \in 0 .. 255 : (256 * x + y) \div 256 = x /\ (256 * x + y) % 256 = y
  OBVIOUS
<1>5. (a + b) \div 256 = q + p /\ (a + b) % 256 = t
  BY <1>3, <1>4, SMTT(30)
<1> QED
  BY <1>1, <1>2, <1>5

\* Four columns with their carries to the left.
Carried(s1, s2, s3, s4) ==
  LET c4 == s4
      c3 == s3 + c4 \div 256
      c2 == s2 + c3 \div 256
      c1 == s1 + c2 \div 256
  IN  <<c1 % 256, c2 % 256, c3 % 256, c4 % 256>>

\* Adding a word to carried columns is adding its octets to the columns.
LEMMA CarriedAdd ==
  ASSUME NEW s1 \in Nat, NEW s2 \in Nat, NEW s3 \in Nat, NEW s4 \in Nat, NEW w \in Word
  PROVE  Add(Carried(s1, s2, s3, s4), w)
           = Carried(s1 + w[1], s2 + w[2], s3 + w[3], s4 + w[4])
<1>1. PICK w1 \in Nat, w2 \in Nat, w3 \in Nat, w4 \in Nat :
        w1 = w[1] /\ w2 = w[2] /\ w3 = w[3] /\ w4 = w[4]
  <2>1. \A i \in 1 .. 4 : w[i] \in Nat
    BY DEF Word, Octet
  <2>2. w[1] \in Nat /\ w[2] \in Nat /\ w[3] \in Nat /\ w[4] \in Nat
    BY <2>1
  <2> QED  BY <2>2
<1>2. \A n \in Nat : n \div 256 \in Nat /\ n % 256 \in Nat
  OBVIOUS
<1>3. PICK c3 \in Nat : c3 = s3 + s4 \div 256
  BY <1>2
<1>4. PICK c2 \in Nat : c2 = s2 + c3 \div 256
  BY <1>2
<1>5. PICK c1 \in Nat : c1 = s1 + c2 \div 256
  BY <1>2
<1>6. PICK x1 \in Nat, x2 \in Nat, x3 \in Nat, x4 \in Nat :
        x1 = c1 % 256 /\ x2 = c2 % 256 /\ x3 = c3 % 256 /\ x4 = s4 % 256
  BY <1>2
<1>7. Carried(s1, s2, s3, s4) = <<x1, x2, x3, x4>>
  BY <1>3, <1>4, <1>5, <1>6 DEF Carried
\* The carries of the sum.
<1>8. PICK k4 \in Nat : k4 = (x4 + w4) \div 256
  BY <1>2
<1>9. PICK k3 \in Nat : k3 = (x3 + w3 + k4) \div 256
  BY <1>2
<1>10. PICK k2 \in Nat : k2 = (x2 + w2 + k3) \div 256
  BY <1>2
<1>11. /\ (s4 + w4) \div 256 = s4 \div 256 + k4
       /\ (s4 + w4) % 256 = (x4 + w4) % 256
  BY <1>6, <1>8, Carry
<1>12. PICK d3 \in Nat : d3 = c3 + (w3 + k4)
  OBVIOUS
<1>13. /\ (s3 + w3) + (s4 + w4) \div 256 = d3
       /\ d3 \div 256 = c3 \div 256 + k3
       /\ d3 % 256 = (x3 + w3 + k4) % 256
  <2>1. (s3 + w3) + (s4 + w4) \div 256 = d3
    <3>1. s4 \div 256 \in Nat
      BY <1>2
    <3> QED  BY <1>3, <1>11, <1>12, <3>1
  <2>2. /\ (c3 + (w3 + k4)) \div 256 = c3 \div 256 + ((c3 % 256) + (w3 + k4)) \div 256
        /\ (c3 + (w3 + k4)) % 256 = ((c3 % 256) + (w3 + k4)) % 256
    BY Carry
  <2>3. (c3 % 256) + (w3 + k4) = x3 + w3 + k4
    BY <1>6
  <2> QED  BY <1>9, <1>12, <2>1, <2>2, <2>3
<1>14. PICK d2 \in Nat : d2 = c2 + (w2 + k3)
  OBVIOUS
<1>15. /\ (s2 + w2) + d3 \div 256 = d2
       /\ d2 \div 256 = c2 \div 256 + k2
       /\ d2 % 256 = (x2 + w2 + k3) % 256
  <2>1. (s2 + w2) + d3 \div 256 = d2
    <3>1. c3 \div 256 \in Nat
      BY <1>2
    <3> QED  BY <1>4, <1>13, <1>14, <3>1
  <2>2. /\ (c2 + (w2 + k3)) \div 256 = c2 \div 256 + ((c2 % 256) + (w2 + k3)) \div 256
        /\ (c2 + (w2 + k3)) % 256 = ((c2 % 256) + (w2 + k3)) % 256
    BY Carry
  <2>3. (c2 % 256) + (w2 + k3) = x2 + w2 + k3
    BY <1>6
  <2> QED  BY <1>10, <1>14, <2>1, <2>2, <2>3
<1>16. PICK d1 \in Nat : d1 = c1 + (w1 + k2)
  OBVIOUS
<1>17. /\ (s1 + w1) + d2 \div 256 = d1
       /\ d1 % 256 = (x1 + w1 + k2) % 256
  <2>1. (s1 + w1) + d2 \div 256 = d1
    <3>1. c2 \div 256 \in Nat
      BY <1>2
    <3> QED  BY <1>5, <1>15, <1>16, <3>1
  <2>2. (c1 + (w1 + k2)) % 256 = ((c1 % 256) + (w1 + k2)) % 256
    BY Carry
  <2>3. (c1 % 256) + (w1 + k2) = x1 + w1 + k2
    BY <1>6
  <2> QED  BY <1>16, <2>1, <2>2, <2>3
<1>18. Carried(s1 + w1, s2 + w2, s3 + w3, s4 + w4) =
         <<d1 % 256, d2 % 256, d3 % 256, (s4 + w4) % 256>>
  BY <1>13, <1>15, <1>17 DEF Carried
\* The same carries in the code.
<1>19. PICK low \in Nat : low = 256 * (x3 + w3) + x4 + w4
  OBVIOUS
<1>20. PICK m \in Nat, r \in 0 .. 255 : x4 + w4 = 256 * m + r /\ m = k4 /\ r = (x4 + w4) % 256
  <2>1. x4 + w4 \in Nat
    OBVIOUS
  <2>2. \A n \in Nat : \E x \in Nat, y \in 0 .. 255 : n = 256 * x + y /\ x = n \div 256 /\ y = n % 256
    OBVIOUS
  <2> QED  BY <1>8, <2>1, <2>2
<1>21. low = 256 * (x3 + w3 + k4) + r
  BY <1>19, <1>20
<1>22. /\ low \div 256 = x3 + w3 + k4
       /\ low % 256 = (x4 + w4) % 256
  <2>1. \A x \in Nat, y \in 0 .. 255 : (256 * x + y) \div 256 = x /\ (256 * x + y) % 256 = y
    OBVIOUS
  <2>2. x3 + w3 + k4 \in Nat
    OBVIOUS
  <2> QED  BY <1>20, <1>21, <2>1, <2>2
<1>23. low \div 65536 = k3
  <2>1. \A n \in Nat : n \div 65536 = (n \div 256) \div 256
    OBVIOUS
  <2> QED  BY <1>9, <1>22, <2>1
<1>24. PICK high \in Nat : high = 256 * (x1 + w1) + x2 + w2 + k3
  OBVIOUS
<1>25. PICK u \in 0 .. 255 : x2 + w2 + k3 = 256 * k2 + u /\ u = (x2 + w2 + k3) % 256
  <2>1. x2 + w2 + k3 \in Nat
    OBVIOUS
  <2>2. \A n \in Nat : \E x \in Nat, y \in 0 .. 255 : n = 256 * x + y /\ x = n \div 256 /\ y = n % 256
    OBVIOUS
  <2> QED  BY <1>10, <2>1, <2>2
<1>26. high = 256 * (x1 + w1 + k2) + u
  BY <1>24, <1>25
<1>27. /\ high \div 256 = x1 + w1 + k2
       /\ high % 256 = (x2 + w2 + k3) % 256
  <2>1. \A x \in Nat, y \in 0 .. 255 : (256 * x + y) \div 256 = x /\ (256 * x + y) % 256 = y
    OBVIOUS
  <2>2. x1 + w1 + k2 \in Nat
    OBVIOUS
  <2> QED  BY <1>25, <1>26, <2>1, <2>2
<1>28. Add(<<x1, x2, x3, x4>>, w) =
         <<(high \div 256) % 256, high % 256, (low \div 256) % 256, low % 256>>
  <2>1. Add(<<x1, x2, x3, x4>>, w) =
          LET l == 256 * (x3 + w3) + x4 + w4
              h == 256 * (x1 + w1) + x2 + w2 + l \div 65536
          IN  <<(h \div 256) % 256, h % 256, (l \div 256) % 256, l % 256>>
    BY <1>1 DEF Add
  <2> QED  BY <1>19, <1>23, <1>24, <2>1
<1>29. Add(<<x1, x2, x3, x4>>, w) =
         <<d1 % 256, d2 % 256, d3 % 256, (s4 + w4) % 256>>
  BY <1>11, <1>13, <1>15, <1>17, <1>22, <1>27, <1>28
<1> QED
  BY <1>1, <1>7, <1>18, <1>29

-----------------------------------------------------------------------------
(* The columns of a file, word by word. *)

Words(f) == (Len(f) + 3) \div 4
Padded(f) == f \o Zeros(3)

\* g holds the sums of column i of f after every word.
Sums(g, f, i) ==
  /\ g \in [0 .. Words(f) -> Nat] /\ g[0] = 0
  /\ \A k \in 1 .. Words(f) : g[k] = g[k - 1] + Padded(f)[4 * (k - 1) + i]

\* A file that is filled up is the file and zeros, in whole words of octets.
LEMMA PaddedOctets ==
  ASSUME NEW f \in Seq(Octet)
  PROVE  /\ Words(f) \in Nat
         /\ \A j \in 1 .. Len(f) + 3 :
              Padded(f)[j] = IF j <= Len(f) THEN f[j] ELSE 0
         /\ \A k \in 1 .. Words(f), i \in 1 .. 4 : Padded(f)[4 * (k - 1) + i] \in Octet
<1>1. PICK n \in Nat : n = Len(f)
  OBVIOUS
<1>2. PICK w \in Nat : w = (n + 3) \div 4 /\ 4 * w <= n + 3
  <2>1. \A x \in Nat : x \div 4 \in Nat /\ 4 * (x \div 4) <= x
    OBVIOUS
  <2>2. n + 3 \in Nat
    OBVIOUS
  <2> QED  BY <2>1, <2>2
<1>3. Zeros(3) \in Seq(Octet) /\ Len(Zeros(3)) = 3 /\ \A j \in 1 .. 3 : Zeros(3)[j] = 0
  BY DEF Zeros, Octet
<1>4. PICK z \in Seq(Octet) : z = Zeros(3) /\ Len(z) = 3 /\ \A j \in 1 .. 3 : z[j] = 0
  BY <1>3
<1>5. PICK p : p = f \o z
  OBVIOUS
<1>6. \A j \in 1 .. n + 3 : p[j] = IF j <= n THEN f[j] ELSE 0
  BY <1>1, <1>4, <1>5
<1>7. \A j \in 1 .. n + 3 : p[j] \in Octet
  <2>1. \A j \in 1 .. n + 3 : j <= n => j \in 1 .. Len(f)
    BY <1>1
  <2>2. 0 \in Octet
    BY DEF Octet
  <2>3. \A j \in 1 .. Len(f) : f[j] \in Octet
    OBVIOUS
  <2> QED  BY <1>6, <2>1, <2>2, <2>3
<1>8. ASSUME NEW k \in 1 .. w, NEW i \in 1 .. 4
      PROVE  4 * (k - 1) + i \in 1 .. n + 3
  BY <1>2
<1>9. Words(f) = w /\ Padded(f) = p
  BY <1>1, <1>2, <1>4, <1>5 DEF Words, Padded
<1> QED
  BY <1>1, <1>6, <1>7, <1>8, <1>9

\* The recursive sum of a column exists: its values are those of a function that
\* grows by one octet with every word.
LEMMA ColumnSums ==
  ASSUME NEW f \in Seq(Octet), NEW i \in 1 .. 4
  PROVE  \E g : Sums(g, f, i) /\ Column(f, i) = g[Words(f)]
<1>1. PICK n \in Nat : n = Words(f)
  BY PaddedOctets
<1>2. PICK p : p = Padded(f)
  OBVIOUS
<1>3. \A k \in 1 .. n : p[4 * (k - 1) + i] \in Nat
  <2>1. \A k \in 1 .. Words(f), j \in 1 .. 4 : Padded(f)[4 * (k - 1) + j] \in Octet
    BY PaddedOctets
  <2>2. \A k \in 1 .. n : p[4 * (k - 1) + i] \in Octet
    BY <1>1, <1>2, <2>1, Zenon
  <2>3. Octet \subseteq Nat
    BY DEF Octet
  <2> QED  BY <2>2, <2>3
<1>16. PICK c \in [1 .. n -> Nat] : \A k \in 1 .. n : c[k] = p[4 * (k - 1) + i]
  <2>1. [k \in 1 .. n |-> p[4 * (k - 1) + i]] \in [1 .. n -> Nat]
    BY <1>3
  <2> QED  BY <2>1
<1> DEFINE step == [y \in Nat \X (1 .. n) |-> y[1] + c[y[2]]]
<1>4. step \in Steps(Nat, n)
  BY DEF Steps
<1>5. \A x \in Nat, k \in 1 .. n : step[<<x, k>>] = x + p[4 * (k - 1) + i]
  BY <1>16
<1> HIDE DEF step
<1>6. PICK g : Iterates(g, n, Nat, 0, step)
  BY <1>4, Recursion
<1>7. /\ g \in [0 .. n -> Nat] /\ g[0] = 0
      /\ \A k \in 1 .. n : g[k] = step[<<g[k - 1], k>>]
  BY <1>6 DEF Iterates
<1>8. \A k \in 1 .. n : g[k] = g[k - 1] + p[4 * (k - 1) + i]
  <2> SUFFICES ASSUME NEW k \in 1 .. n
               PROVE  g[k] = g[k - 1] + p[4 * (k - 1) + i]
    OBVIOUS
  <2>1. g[k - 1] \in Nat
    BY <1>7
  <2> QED  BY <1>5, <1>7, <2>1
<1>9. \E h : h = [k \in 0 .. n |-> IF k = 0 THEN 0 ELSE h[k - 1] + p[4 * (k - 1) + i]]
  <2>1. g = [k \in 0 .. n |-> IF k = 0 THEN 0 ELSE g[k - 1] + p[4 * (k - 1) + i]]
    BY <1>7, <1>8
  <2> QED  BY <2>1
<1> DEFINE sum[k \in 0 .. (Len(f) + 3) \div 4] ==
             IF k = 0 THEN 0 ELSE sum[k-1] + (f \o Zeros(3))[4 * (k-1) + i]
<1>10. Column(f, i) = sum[(Len(f) + 3) \div 4]
  BY DEF Column
<1>11. sum = [k \in 0 .. n |-> IF k = 0 THEN 0 ELSE sum[k - 1] + p[4 * (k - 1) + i]]
  <2>1. sum = CHOOSE h : h = [k \in 0 .. n |->
                 IF k = 0 THEN 0 ELSE h[k - 1] + p[4 * (k - 1) + i]]
    BY <1>1, <1>2 DEF Words, Padded
  <2> HIDE DEF sum
  <2> QED  BY <1>9, <2>1, Zenon
<1> HIDE DEF sum
<1>12. sum[0] = 0 /\ \A k \in 1 .. n : sum[k] = sum[k - 1] + p[4 * (k - 1) + i]
  BY <1>11
<1>13. \A k \in 0 .. n : sum[k] = g[k]
  <2> DEFINE S == {k \in 0 .. n : sum[k] = g[k]}
  <2>1. 0 \in S
    BY <1>7, <1>12
  <2>2. \A k \in 1 .. n : k - 1 \in S => k \in S
    BY <1>8, <1>12
  <2> HIDE DEF S
  <2>3. 0 .. n \subseteq S
    BY <2>1, <2>2, InductionUpTo
  <2> QED  BY <2>3 DEF S
<1>14. Column(f, i) = g[n]
  BY <1>1, <1>10, <1>13 DEF Words
<1>15. Sums(g, f, i)
  BY <1>1, <1>2, <1>7, <1>8 DEF Sums
<1> QED
  BY <1>1, <1>14, <1>15

\* c is the sum of the first k words of f.
Summed(c, f, k) ==
  \A g1, g2, g3, g4 :
    Sums(g1, f, 1) /\ Sums(g2, f, 2) /\ Sums(g3, f, 3) /\ Sums(g4, f, 4) =>
      c = Carried(g1[k], g2[k], g3[k], g4[k])

\* No word: the sum is zero.
LEMMA SummedNone ==
  ASSUME NEW f
  PROVE  Summed(<<0, 0, 0, 0>>, f, 0)
<1>1. Carried(0, 0, 0, 0) = <<0, 0, 0, 0>>
  BY DEF Carried
<1> QED
  BY <1>1 DEF Summed, Sums

\* CarriedAdd as a relation, for the provers to instantiate.
AddsUp(x1, x2, x3, x4, w) ==
  Add(Carried(x1, x2, x3, x4), w) = Carried(x1 + w[1], x2 + w[2], x3 + w[3], x4 + w[4])

LEMMA AddsUpAlways ==
  \A x1, x2, x3, x4 \in Nat, w \in Word : AddsUp(x1, x2, x3, x4, w)
<1> SUFFICES ASSUME NEW x1 \in Nat, NEW x2 \in Nat, NEW x3 \in Nat, NEW x4 \in Nat,
                    NEW w \in Word
             PROVE  AddsUp(x1, x2, x3, x4, w)
  BY Zenon
<1> QED  BY CarriedAdd DEF AddsUp

\* One word more.
LEMMA SummedMore ==
  ASSUME NEW f \in Seq(Octet), NEW k \in 1 .. Words(f), NEW c, Summed(c, f, k - 1),
         NEW w \in Word, \A j \in 1 .. 4 : w[j] = Padded(f)[4 * (k - 1) + j]
  PROVE  Summed(Add(c, w), f, k)
<1> SUFFICES ASSUME NEW g1, NEW g2, NEW g3, NEW g4,
                    Sums(g1, f, 1), Sums(g2, f, 2), Sums(g3, f, 3), Sums(g4, f, 4)
             PROVE  Add(c, w) = Carried(g1[k], g2[k], g3[k], g4[k])
  BY DEF Summed
<1>1. c = Carried(g1[k - 1], g2[k - 1], g3[k - 1], g4[k - 1])
  BY DEF Summed
<1>2. /\ g1[k] = g1[k - 1] + w[1] /\ g2[k] = g2[k - 1] + w[2]
      /\ g3[k] = g3[k - 1] + w[3] /\ g4[k] = g4[k - 1] + w[4]
  BY DEF Sums
<1>3. /\ g1[k - 1] \in Nat /\ g2[k - 1] \in Nat
      /\ g3[k - 1] \in Nat /\ g4[k - 1] \in Nat
  <2>1. Words(f) \in Nat
    BY PaddedOctets
  <2>2. k - 1 \in 0 .. Words(f)
    BY <2>1
  <2>3. \A g, i : Sums(g, f, i) => g[k - 1] \in Nat
    BY <2>2 DEF Sums
  <2> QED  BY <2>3
<1>4. PICK x1 \in Nat, x2 \in Nat, x3 \in Nat, x4 \in Nat :
        x1 = g1[k - 1] /\ x2 = g2[k - 1] /\ x3 = g3[k - 1] /\ x4 = g4[k - 1]
  BY <1>3, Zenon
<1>5. Add(Carried(x1, x2, x3, x4), w) = Carried(x1 + w[1], x2 + w[2], x3 + w[3], x4 + w[4])
  <2>1. AddsUp(x1, x2, x3, x4, w)
    BY AddsUpAlways, Zenon
  <2> QED  BY <2>1, Zenon DEF AddsUp
<1> QED
  BY <1>1, <1>2, <1>4, <1>5, Zenon

\* All words: the checksum of CFDP.
LEMMA SummedAll ==
  ASSUME NEW f \in Seq(Octet), NEW c, Summed(c, f, Words(f))
  PROVE  c = ModularChecksum(f)
<1>1. PICK g1 : Sums(g1, f, 1) /\ Column(f, 1) = g1[Words(f)]
  BY ColumnSums
<1>2. PICK g2 : Sums(g2, f, 2) /\ Column(f, 2) = g2[Words(f)]
  BY ColumnSums
<1>3. PICK g3 : Sums(g3, f, 3) /\ Column(f, 3) = g3[Words(f)]
  BY ColumnSums
<1>4. PICK g4 : Sums(g4, f, 4) /\ Column(f, 4) = g4[Words(f)]
  BY ColumnSums
<1>5. c = Carried(Column(f, 1), Column(f, 2), Column(f, 3), Column(f, 4))
  BY <1>1, <1>2, <1>3, <1>4 DEF Summed
<1> QED
  BY <1>5 DEF Carried, ModularChecksum

-----------------------------------------------------------------------------
(* The loops add one word after the other. *)

\* What the checksum of CFDP is promised for.
Sound ==
  WholeWord(file) /\ (of = "file" => ~failed /\ (CharIsSigned => Text(file)))

\* After k words the offset is behind the last of them, or at the end of the file.
Placed(k) == offset = 4 * k \/ (offset = Len(file) /\ k = Words(file))

\* The sum so far is that of the words before the offset.
SumInv ==
  \E k \in 0 .. Words(file) : Placed(k) /\ (Sound => Summed(checksum, file, k))

\* The arithmetic of the last word of a file that is filled up.
LEMMA LastPlace ==
  ASSUME NEW length \in Nat, NEW k \in Nat
  PROVE  /\ 4 * k < length => k + 1 <= (length + 3) \div 4
         /\ 4 * k >= length => k >= (length + 3) \div 4
         /\ length - 4 * k \in 1 .. 4 => k + 1 = (length + 3) \div 4
OBVIOUS

\* The word that the next turn adds.
LEMMA NextWord ==
  ASSUME IInv, SumInv, ~Ended
  PROVE  \E k \in 1 .. Words(file) :
           /\ offset = 4 * (k - 1)
           /\ Sound => Summed(checksum, file, k - 1)
           /\ Len(file) - offset \in 1 .. 4 => k = Words(file)
<1>1. PICK n \in Nat, f \in Seq(Octet) : f = file /\ n = Len(f) /\ offset \in Nat /\ offset < n
  BY FileIsSequence DEF IInv, TypeOK, Ended
<1>2. PICK k \in 0 .. Words(file) : Placed(k) /\ (Sound => Summed(checksum, file, k))
  BY DEF SumInv
<1>3. Words(file) = (n + 3) \div 4 /\ Words(file) \in Nat
  BY <1>1, PaddedOctets DEF Words
<1>4. k \in Nat /\ offset = 4 * k
  BY <1>1, <1>2, <1>3 DEF Placed
<1>5. k + 1 <= Words(file) /\ (n - 4 * k \in 1 .. 4 => k + 1 = Words(file))
  BY <1>1, <1>3, <1>4, LastPlace
<1>6. k + 1 \in 1 .. Words(file) /\ (k + 1) - 1 = k
  BY <1>3, <1>4, <1>5
<1>7. Len(file) - offset = n - 4 * k
  BY <1>1, <1>4
<1> QED
  BY <1>2, <1>4, <1>5, <1>6, <1>7

\* The octets that the loops take in a file that fills a word.
LEMMA OctetsTaken ==
  ASSUME IInv, ~Ended, WholeWord(file)
  PROVE  /\ file \in Seq(Octet) /\ Len(file) \in Nat /\ offset \in Nat
         /\ offset + bytes_to_read <= Len(file)
         /\ bytes_to_read \in 1 .. 4
         /\ bytes_to_read = 4 \/ offset + bytes_to_read = Len(file)
         /\ \A j \in 1 .. 4 :
              Padded(file)[offset + j] =
                IF j <= bytes_to_read THEN file[offset + j] ELSE 0
<1>1. file \in Seq(Octet) /\ Len(file) \in Nat /\ offset \in Nat /\ offset < Len(file)
  BY FileIsSequence DEF IInv, TypeOK, Ended
<1>2. Len(file) >= 4
  BY <1>1 DEF WholeWord
<1>3. /\ bytes_to_read \in 0 .. 4 /\ offset + bytes_to_read <= Len(file)
      /\ bytes_to_read = 4 \/ offset + bytes_to_read = Len(file)
  BY <1>2, NextOctets
<1>4. bytes_to_read \in 1 .. 4
  BY <1>1, <1>3
<1>5. ASSUME NEW j \in 1 .. 4
      PROVE  Padded(file)[offset + j] =
               IF j <= bytes_to_read THEN file[offset + j] ELSE 0
  <2>1. PICK b \in 1 .. 4, n \in Nat, o \in Nat :
          b = bytes_to_read /\ n = Len(file) /\ o = offset
    BY <1>1, <1>4
  <2>2. o < n /\ (b = 4 \/ o + b = n) /\ o + b <= n
    BY <1>1, <1>3, <2>1
  <2>3. o + j \in 1 .. n + 3 /\ (j <= b <=> o + j <= n)
    BY <2>2
  <2>4. Padded(file)[o + j] = IF o + j <= n THEN file[o + j] ELSE 0
    BY <1>1, <2>1, <2>3, PaddedOctets
  <2> QED  BY <2>1, <2>3, <2>4
<1> QED
  BY <1>1, <1>3, <1>4, <1>5

\* A turn of the loop over a listing.
LEMMA DataSum == IInv /\ SumInv /\ calucate_data_checksum => SumInv'
<1> SUFFICES ASSUME IInv, SumInv, calucate_data_checksum
             PROVE  SumInv'
  OBVIOUS
<1>1. /\ of = "listing" /\ ~Ended
      /\ checksum' = Add(checksum, DataValue) /\ offset' = offset + 4
      /\ of' = of /\ file' = file /\ failed' = failed
  BY FileIsSequence DEF calucate_data_checksum, Ended, IInv, TypeOK
<1>2. PICK k \in 1 .. Words(file) :
        /\ offset = 4 * (k - 1)
        /\ Sound => Summed(checksum, file, k - 1)
  BY <1>1, NextWord
<1>3. file \in Seq(Octet) /\ Words(file) \in Nat
  BY FileIsSequence, PaddedOctets DEF IInv
<1>4. k \in 0 .. Words(file) /\ offset' = 4 * k
  BY <1>1, <1>2, <1>3
<1>5. Sound' => Summed(checksum', file', k)
  <2> SUFFICES ASSUME Sound'
               PROVE  Summed(checksum', file, k)
    BY <1>1
  <2>1. Sound
    BY <1>1 DEF Sound
  <2>2. \A j \in 1 .. 4 : DataValue[j] = Padded(file)[4 * (k - 1) + j]
    <3> SUFFICES ASSUME NEW j \in 1 .. 4
                 PROVE  DataValue[j] = Padded(file)[offset + j]
      BY <1>2
    <3>1. /\ Len(file) \in Nat /\ offset \in Nat
          /\ offset + bytes_to_read <= Len(file) /\ bytes_to_read \in 1 .. 4
          /\ Padded(file)[offset + j] =
               IF j <= bytes_to_read THEN file[offset + j] ELSE 0
      BY <1>1, <2>1, OctetsTaken DEF Sound
    <3>2. DataValue[j] = IF j <= bytes_to_read THEN DataAt(offset + j) ELSE 0
      BY DEF DataValue
    <3>3. j <= bytes_to_read => DataAt(offset + j) = file[offset + j]
      BY <3>1 DEF DataAt
    <3> QED  BY <3>1, <3>2, <3>3
  <2>3. DataValue \in Word
    <3>1. \A j \in 1 .. 4 : DataValue[j] \in Octet
      <4>1. \A m \in 1 .. Words(file), j \in 1 .. 4 : Padded(file)[4 * (m - 1) + j] \in Octet
        BY <1>3, PaddedOctets
      <4> QED  BY <2>2, <4>1
    <3> QED  BY <3>1 DEF DataValue, Word
  <2>4. Summed(checksum, file, k - 1)
    BY <1>2, <2>1
  <2> QED  BY <1>1, <1>3, <2>2, <2>3, <2>4, SummedMore
<1> QED
  BY <1>1, <1>4, <1>5 DEF SumInv, Placed

\* A turn of the loop over a file: a short read fails, and what it left in the
\* buffer counts no more.
LEMMA FileSum == IInv /\ SumInv /\ calucate_file_checksum => SumInv'
<1> SUFFICES ASSUME IInv, SumInv, calucate_file_checksum
             PROVE  SumInv'
  OBVIOUS
<1>1. /\ of = "file" /\ ~Ended
      /\ checksum' = Add(checksum, FileValue(buffer', bytes_to_read))
      /\ offset' = offset + bytes_to_read
      /\ of' = of /\ file' = file
  BY FileIsSequence DEF calucate_file_checksum, Ended, IInv, TypeOK
<1>2. PICK k \in 1 .. Words(file) :
        /\ offset = 4 * (k - 1)
        /\ Sound => Summed(checksum, file, k - 1)
        /\ Len(file) - offset \in 1 .. 4 => k = Words(file)
  BY <1>1, NextWord
<1>3. file \in Seq(Octet) /\ Words(file) \in Nat /\ Len(file) \in Nat /\ offset \in Nat
  BY FileIsSequence, PaddedOctets DEF IInv, TypeOK
<1>4. k \in 0 .. Words(file) /\ Placed(k)'
  <2>1. k \in 0 .. Words(file)
    BY <1>3
  <2>2. bytes_to_read \in 0 .. 4 /\ (bytes_to_read = 4 \/ offset + bytes_to_read = Len(file))
    BY <1>1, NextOctets
  <2>3. CASE bytes_to_read = 4
    <3>1. offset' = 4 * k
      BY <1>1, <1>2, <1>3, <2>1, <2>3
    <3> QED  BY <2>1, <3>1 DEF Placed
  <2>4. CASE offset + bytes_to_read = Len(file)
    <3>1. Len(file) - offset \in 1 .. 4
      BY <1>1, <1>3, <2>2, <2>4 DEF Ended
    <3>2. k = Words(file) /\ offset' = Len(file)
      BY <1>1, <1>2, <2>4, <3>1
    <3> QED  BY <1>1, <2>1, <3>2 DEF Placed, Words
  <2> QED  BY <2>2, <2>3, <2>4
<1>5. Sound' => Summed(checksum', file', k)
  <2> SUFFICES ASSUME Sound'
               PROVE  Summed(checksum', file, k)
    BY <1>1
  <2>1. PICK n \in 0 .. bytes_to_read :
          /\ buffer' = filestore_read(n)
          /\ failed' = (failed \/ n < bytes_to_read)
    BY DEF calucate_file_checksum
  <2>2. ~failed'
    BY <1>1 DEF Sound
  <2>3. ~failed /\ ~(n < bytes_to_read)
    BY <2>1, <2>2
  <2>4. Sound
    BY <1>1, <2>3 DEF Sound, WholeWord, Text
  <2>5. WholeWord(file) /\ (CharIsSigned => Text(file))
    BY <1>1, <2>4 DEF Sound
  <2>6. /\ offset + bytes_to_read <= Len(file) /\ bytes_to_read \in 1 .. 4
        /\ \A j \in 1 .. 4 :
             Padded(file)[offset + j] =
               IF j <= bytes_to_read THEN file[offset + j] ELSE 0
    BY <1>1, <2>5, OctetsTaken
  <2>7. \A j \in 1 .. 4 : j <= bytes_to_read => buffer'[j] = file[offset + j]
    <3>1. n = bytes_to_read
      BY <2>3, <2>6
    <3> QED  BY <2>1, <3>1 DEF filestore_read
  <2>8. \A j \in 1 .. 4 : ~(CharIsSigned /\ \E i \in j + 1 .. bytes_to_read : buffer'[i] >= 128)
    <3> SUFFICES ASSUME CharIsSigned, NEW j \in 1 .. 4, NEW i \in j + 1 .. bytes_to_read
                 PROVE  ~(buffer'[i] >= 128)
      OBVIOUS
    <3>1. i \in 1 .. 4 /\ i <= bytes_to_read /\ offset + i \in 1 .. Len(file)
      BY <1>3, <2>6
    <3>2. file[offset + i] < 128 /\ file[offset + i] \in Int
      <4>1. PICK p \in 1 .. Len(file) : p = offset + i
        BY <3>1
      <4>2. file[p] \in Octet /\ file[p] < 128
        BY <1>3, <2>5 DEF Text
      <4>3. Octet \subseteq Int
        BY DEF Octet
      <4> QED  BY <4>1, <4>2, <4>3
    <3>3. buffer'[i] = file[offset + i]
      BY <2>7, <3>1
    <3> QED  BY <3>2, <3>3
  <2>9. PICK v : v = FileValue(buffer', bytes_to_read)
    OBVIOUS
  <2>10. \A j \in 1 .. 4 : v[j] = IF j <= bytes_to_read THEN buffer'[j] ELSE 0
    BY <2>8, <2>9 DEF FileValue
  <2>11. \A j \in 1 .. 4 : v[j] = Padded(file)[4 * (k - 1) + j]
    <3>1. \A j \in 1 .. 4 : v[j] = Padded(file)[offset + j]
      BY <2>6, <2>7, <2>10
    <3> QED  BY <1>2, <3>1
  <2>12. v \in Word
    <3>1. \A j \in 1 .. 4 : v[j] \in Octet
      <4>1. \A m \in 1 .. Words(file), j \in 1 .. 4 : Padded(file)[4 * (m - 1) + j] \in Octet
        BY <1>3, PaddedOctets
      <4> QED  BY <2>11, <4>1
    <3> QED  BY <2>9, <3>1 DEF FileValue, Word
  <2>13. Summed(checksum, file, k - 1)
    BY <1>2, <2>4
  <2> QED  BY <1>1, <1>3, <2>9, <2>11, <2>12, <2>13, SummedMore
<1> QED
  BY <1>1, <1>4, <1>5 DEF SumInv, Words

\* Both loops give the checksum of CFDP, for a listing always, for a file when no
\* read failed and a char that is signed has no negative one to extend.
THEOREM SumIsModular == Spec => []ChecksumIsModular
<1>1. Init => SumInv
  <2> SUFFICES ASSUME Init
               PROVE  SumInv
    OBVIOUS
  <2>1. 0 \in 0 .. Words(file)
    <3>1. Words(file) \in Nat
      BY InitInv, FileIsSequence, PaddedOctets DEF IInv
    <3> QED  BY <3>1
  <2>2. Placed(0) /\ Summed(checksum, file, 0)
    BY SummedNone DEF Init, Placed
  <2> QED  BY <2>1, <2>2 DEF SumInv
<1>2. IInv /\ SumInv /\ [Next]_vars => SumInv'
  <2> SUFFICES ASSUME IInv, SumInv, [Next]_vars
               PROVE  SumInv'
    OBVIOUS
  <2>1. CASE calucate_data_checksum
    BY <2>1, DataSum
  <2>2. CASE calucate_file_checksum
    BY <2>2, FileSum
  <2>3. CASE UNCHANGED vars
    BY <2>3 DEF vars, SumInv, Placed, Sound
  <2> QED  BY <2>1, <2>2, <2>3 DEF Next
<1>3. IInv /\ SumInv => ChecksumIsModular
  <2> SUFFICES ASSUME IInv, SumInv, Ended, Sound
               PROVE  checksum = ModularChecksum(file)
    BY DEF ChecksumIsModular, Sound
  <2>1. PICK n \in Nat, f \in Seq(Octet) : f = file /\ n = Len(f) /\ offset \in Nat /\ offset >= n
    BY FileIsSequence DEF IInv, TypeOK, Ended
  <2>2. PICK k \in 0 .. Words(file) : Placed(k) /\ Summed(checksum, file, k)
    BY DEF SumInv
  <2>3. Words(file) = (n + 3) \div 4 /\ Words(file) \in Nat
    BY <2>1, PaddedOctets DEF Words
  <2>4. k = Words(file)
    <3>1. CASE offset = 4 * k
      <4>1. 4 * k >= n
        BY <2>1, <3>1
      <4>2. k >= Words(file)
        BY <2>3, <4>1, LastPlace
      <4> QED  BY <2>3, <4>2
    <3> QED  BY <2>2, <3>1 DEF Placed
  <2> QED  BY <2>1, <2>2, <2>4, SummedAll
<1> QED
  BY <1>1, <1>2, <1>3, Invariance, PTL DEF Spec
=============================================================================
