------------------------------ MODULE Buffers ------------------------------
(***************************************************************************)
(* Byte buffers as functions from 0 .. size - 1, and what the code does    *)
(* with them.                                                              *)
(***************************************************************************)
EXTENDS Integers

Min2(a, b) == IF a < b THEN a ELSE b

(* How many chunks of n bytes it takes to hold b bytes.                    *)
CEIL(b, n) == (b + n - 1) \div n

(* memcpy(to + at, from + start, n).                                       *)
Copy(to, at, from, start, n) ==
  [i \in DOMAIN to |->
     IF at <= i /\ i < at + n THEN from[start + i - at] ELSE to[i]]
=============================================================================
