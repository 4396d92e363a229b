---------------------------- MODULE ByteToArray ----------------------------
(***************************************************************************)
(* The aSub routine ecmcByteToArray: the scalar inputs A..S of a record    *)
(* are merged into the byte array VALA, for which EPICS allocates NOVA     *)
(* elements.  The header of the source says of NOVA: "This also defines    *)
(* how many inputs will be used".  The routine keeps no state: it is a     *)
(* function of the record, and what follows is proved for all records.     *)
(***************************************************************************)
EXTENDS Integers, TLAPS

(* The inputs A..S by their index, which is also the element they go to.   *)
Inputs == 0..18

(* epicsUInt8 byteCount = (epicsUInt8)rec->nova                            *)
ByteCount(nova) == nova % 256

(* "byteCount >= 1" for A up to "byteCount >= 13" for M, and 13 once more  *)
(* for N: from there on the tests are one too low, up to 18 for S.         *)
Threshold(k) == IF k <= 12 THEN k + 1 ELSE k

(* The elements that are written; no[k] is the field NOA, NOB, ... of the  *)
(* input.                                                                  *)
Written(nova, no) ==
  {k \in Inputs : ByteCount(nova) >= Threshold(k) /\ no[k] = 1}

(* VALA after the call, as far as the record has memory for it.            *)
ByteToArray(nova, no, input, vala) ==
  [k \in 0..(nova - 1) |-> IF k \in Written(nova, no) THEN input[k] ELSE vala[k]]

(* What the header promises: as many inputs as VALA has elements.          *)
Promised(nova, no) == {k \in Inputs : k < nova /\ no[k] = 1}

-----------------------------------------------------------------------------
(* Up to 12 bytes the routine takes the first NOVA inputs, those with one  *)
(* element, and no other; nothing outside VALA is written.                 *)
THEOREM MergesFirstInputs ==
  ASSUME NEW nova \in 0..12, NEW no \in [Inputs -> Nat]
  PROVE  /\ Written(nova, no) = Promised(nova, no)
         /\ Written(nova, no) \subseteq 0..(nova - 1)
<1>1. ByteCount(nova) = nova BY DEF ByteCount
<1>2. \A k \in Inputs : nova >= Threshold(k) <=> k < nova
  BY DEF Inputs, Threshold
<1>3. Written(nova, no) = Promised(nova, no)
  BY <1>1, <1>2 DEF Written, Promised
<1>4. Promised(nova, no) \subseteq 0..(nova - 1)
  BY DEF Promised, Inputs
<1> QED BY <1>3, <1>4

(* The first NOVA bytes are right for every NOVA below 256: the slip in    *)
(* the thresholds leaves no promised byte out.                             *)
THEOREM PromisedBytesMerged ==
  ASSUME NEW nova \in 0..255, NEW no \in [Inputs -> {1}],
         NEW input, NEW vala, NEW k \in Inputs, k < nova
  PROVE  ByteToArray(nova, no, input, vala)[k] = input[k]
<1>1. ByteCount(nova) = nova BY DEF ByteCount
<1>2. nova >= Threshold(k) BY DEF Inputs, Threshold
<1>3. k \in Written(nova, no) BY <1>1, <1>2 DEF Written
<1>4. k \in 0..(nova - 1) BY DEF Inputs
<1> QED BY <1>3, <1>4 DEF ByteToArray

(* From 13 to 18 bytes the routine takes exactly one input more than it    *)
(* should, and writes it to the element behind the end of VALA.            *)
THEOREM OneElementTooMany ==
  ASSUME NEW nova \in 13..18, NEW no \in [Inputs -> Nat], no[nova] = 1
  PROVE  /\ Written(nova, no) = Promised(nova, no) \cup {nova}
         /\ nova \notin DOMAIN ByteToArray(nova, no, no, no)
<1>1. ByteCount(nova) = nova BY DEF ByteCount
<1>2. \A k \in Inputs : nova >= Threshold(k) <=> k < nova \/ k = nova
  BY DEF Inputs, Threshold
<1>3. nova \in Inputs BY DEF Inputs
<1>4. Written(nova, no) = Promised(nova, no) \cup {nova}
  BY <1>1, <1>2, <1>3 DEF Written, Promised
<1>5. nova \notin DOMAIN ByteToArray(nova, no, no, no)
  BY DEF ByteToArray
<1> QED BY <1>4, <1>5

(* NOVA is cut to its low byte before it is used: a multiple of 256 merges *)
(* nothing at all, with the warning that 18 bytes are transferred.         *)
THEOREM LowByteOnly ==
  ASSUME NEW nova \in Nat, nova % 256 = 0, NEW no \in [Inputs -> Nat]
  PROVE  Written(nova, no) = {}
<1>1. ByteCount(nova) = 0 BY DEF ByteCount
<1>2. \A k \in Inputs : ~(0 >= Threshold(k)) BY DEF Inputs, Threshold
<1> QED BY <1>1, <1>2 DEF Written
=============================================================================
