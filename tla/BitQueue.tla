------------------------------ MODULE BitQueue ------------------------------
(***************************************************************************)
(* What a bit stream promises: a queue of bits.  Fields are put at its end, *)
(* its octets are delivered, and the reader takes the fields from its front *)
(* in the order they were put, or fails because too few bits are left.      *)
(***************************************************************************)
EXTENDS Naturals, Sequences

CONSTANTS Fields   \* the fields that may be put, with their bits

VARIABLES
  bits,     \* the bits that are written and not yet read
  fields,   \* the fields put since the queue was cleared
  next,     \* the field the reader takes next
  got       \* the bits the last read returned, <<>> when it failed

vars == <<bits, fields, next, got>>

Init == bits = <<>> /\ fields = <<>> /\ next = 1 /\ got = <<>>

Put(f) ==
  /\ bits' = bits \o f.bits
  /\ fields' = Append(fields, f)
  /\ got' = <<>>
  /\ UNCHANGED next

\* The octets reach the reader, all of them or only the first ones; the last
\* one is filled up with zeros.
Deliver ==
  /\ \E octets \in 0 .. (Len(bits) + 7) \div 8 :
       bits' = SubSeq(bits \o [i \in 1 .. 7 |-> FALSE], 1, 8 * octets)
  /\ got' = <<>>
  /\ UNCHANGED <<fields, next>>

Get ==
  /\ next <= Len(fields)
  /\ LET n == Len(fields[next].bits)
     IN  IF n <= Len(bits)
         THEN /\ got' = SubSeq(bits, 1, n)
              /\ bits' = SubSeq(bits, n + 1, Len(bits))
         ELSE got' = <<>> /\ bits' = <<>>
  /\ next' = next + 1
  /\ UNCHANGED fields

Clear == bits' = <<>> /\ fields' = <<>> /\ next' = 1 /\ got' = <<>>

Next == (\E f \in Fields : Put(f)) \/ Deliver \/ Get \/ Clear

Spec == Init /\ [][Next]_vars
=============================================================================
