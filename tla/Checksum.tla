------------------------------- MODULE Checksum -------------------------------
(***************************************************************************)
(* The modular checksum, octet by octet: calucate_data_checksum, which the  *)
(* sender of a directory listing runs over a buffer, and                    *)
(* calucate_file_checksum, which everybody else runs over the filestore.    *)
(* Both must give the sum of the words of CFDP, or files are turned away.   *)
(*                                                                          *)
(* A uint32_t is its four octets, the most significant first: TLC's own     *)
(* integers are shorter.                                                    *)
(***************************************************************************)
EXTENDS Octets

CONSTANTS
  Files,         \* the files, as sequences of octets
  Leftover,      \* octets that memory may hold before anybody has written it
  CharIsSigned   \* as on x86; the buffer that is read into is of char

ASSUME ChecksumAssumption ==
  /\ Files \subseteq Seq(Octet)
  /\ Leftover \subseteq Octet
  /\ CharIsSigned \in BOOLEAN

VARIABLES
  of,            \* "listing" or "file"
  file,          \* the octets it is computed of
  offset,
  buffer,        \* char buffer[4], or what follows the NUL behind a listing
  checksum,
  failed         \* a read failed; the code does not look at it

vars == <<of, file, offset, buffer, checksum, failed>>

Word == [1 .. 4 -> Octet]

\* Mutant: the sum is not cut to 32 bits.
AddUnbounded(a, b) ==
  LET low  == 256 * (a[3] + b[3]) + a[4] + b[4]
      high == 256 * (a[1] + b[1]) + a[2] + b[2] + low \div 65536
  IN  <<high \div 256, high % 256, (low \div 256) % 256, low % 256>>

\* checksum += value, modulo 2^32.
Add(a, b) ==
  LET low  == 256 * (a[3] + b[3]) + a[4] + b[4]
      high == 256 * (a[1] + b[1]) + a[2] + b[2] + low \div 65536
  IN  <<(high \div 256) % 256, high % 256, (low \div 256) % 256, low % 256>>

\* Mutant: every word is taken for a whole one.
AlwaysFour == 4

\* Mutant: the last word is taken for a part when it is a whole one.
RemainderTooEarly ==
  IF Len(file) >= 4 /\ offset >= Len(file) - 4 THEN Len(file) % 4 ELSE 4

\* Below four octets file_size - 4 wraps, and no offset exceeds it.
bytes_to_read ==
  IF Len(file) >= 4 /\ offset > Len(file) - 4 THEN Len(file) % 4 ELSE 4

\* A listing is a C string: behind its NUL is what was in the buffer before.
DataAt(i) ==
  IF i <= Len(file) THEN file[i]
  ELSE IF i = Len(file) + 1 THEN 0 ELSE buffer[i - Len(file)]

DataValue == [j \in 1 .. 4 |-> IF j <= bytes_to_read THEN DataAt(offset + j) ELSE 0]

\* Mutant: what the last read left in the buffer is part of the word.
ValueOfBuffer(b, n) == [j \in 1 .. 4 |-> b[j]]

\* The cast to uint32_t extends the sign: a negative char sets every bit above it.
FileValue(b, n) ==
  [j \in 1 .. 4 |->
     IF CharIsSigned /\ \E i \in j + 1 .. n : b[i] >= 128 THEN 255
     ELSE IF j <= n THEN b[j] ELSE 0]

\* filestore_read: all that was asked for, or less and it fails.
filestore_read(k) ==
  [j \in 1 .. 4 |-> IF j <= k THEN file[offset + j] ELSE buffer[j]]

-----------------------------------------------------------------------------
Init ==
  /\ of \in {"listing", "file"}
  /\ file \in Files
  /\ offset = 0
  /\ buffer \in [1 .. 4 -> Leftover]
  /\ checksum = <<0, 0, 0, 0>>
  /\ failed = FALSE

calucate_data_checksum ==
  /\ of = "listing" /\ offset < Len(file)
  /\ checksum' = Add(checksum, DataValue)
  /\ offset' = offset + 4
  /\ UNCHANGED <<of, file, buffer, failed>>

calucate_file_checksum ==
  /\ of = "file" /\ offset < Len(file)
  /\ \E k \in 0 .. bytes_to_read :
       /\ offset + k <= Len(file)
       /\ buffer' = filestore_read(k)
       /\ failed' = (failed \/ k < bytes_to_read)
  /\ checksum' = Add(checksum, FileValue(buffer', bytes_to_read))
  /\ offset' = offset + bytes_to_read
  /\ UNCHANGED <<of, file>>

Next == calucate_data_checksum \/ calucate_file_checksum

\* Both are loops of a C function: they go on.
Spec == Init /\ [][Next]_vars /\ WF_vars(Next)

-----------------------------------------------------------------------------
(***************************************************************************)
(* The checksum of CFDP: the file filled up with zeros to whole words, and  *)
(* their sum, here column by column with a carry to the left.               *)
(***************************************************************************)
Column(f, i) ==
  LET padded == f \o Zeros(3)
      sum[k \in 0 .. (Len(f) + 3) \div 4] ==
        IF k = 0 THEN 0 ELSE sum[k-1] + padded[4 * (k-1) + i]
  IN  sum[(Len(f) + 3) \div 4]

ModularChecksum(f) ==
  LET c4 == Column(f, 4)
      c3 == Column(f, 3) + c4 \div 256
      c2 == Column(f, 2) + c3 \div 256
      c1 == Column(f, 1) + c2 \div 256
  IN  <<c1 % 256, c2 % 256, c3 % 256, c4 % 256>>

Ended == offset >= Len(file)

\* Four octets or more, or none: what the arithmetic of the loops is good for.
WholeWord(f) == f = <<>> \/ Len(f) >= 4
Text(f) == \A i \in 1 .. Len(f) : f[i] < 128

\* Every value has its width, a sum that overflows included.
TypeOK ==
  /\ of \in {"listing", "file"} /\ file \in Files
  /\ offset \in Nat
  /\ buffer \in Word /\ checksum \in Word /\ failed \in BOOLEAN

\* Both functions give the checksum of CFDP, whatever the memory held before and
\* however the file ends within a word: for a listing always, for a file when no
\* read failed and a char that is signed has no negative one to extend.
ChecksumIsModular ==
  Ended /\ WholeWord(file) /\ (of = "file" => ~failed /\ (CharIsSigned => Text(file))) =>
    checksum = ModularChecksum(file)

\* No octet behind the end of the file is asked for, or looked at in the buffer of
\* a listing, in a file that fills a word: no read fails for want of octets.
ReadsWithinFile ==
  ~Ended /\ WholeWord(file) => offset + bytes_to_read <= Len(file)

\* The loops end: every turn takes octets, the last one too.
EventuallyEnds == <>Ended
=============================================================================
