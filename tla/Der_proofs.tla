----------------------------- MODULE Der_proofs -----------------------------
(***************************************************************************)
(* parse_any keeps to its parent, for files of every size and content, and *)
(* for lengths of every width.                                             *)
(***************************************************************************)
EXTENDS Der, FiniteSetTheorems, WellFoundedInduction, TLAPS

(***************************************************************************)
(* Every set of natural numbers with an element has a least one.           *)
(***************************************************************************)
LEMMA LeastNat ==
    ASSUME NEW T \in SUBSET Nat, T # {}
    PROVE  \E m \in T : \A n \in T : m <= n
  <1> DEFINE Below(n) == 0 .. n - 1
             Belows == {Below(n) : n \in T}
             R == StrictSubsetOrdering(Nat)
  <1>1. \A n \in T : n \in Nat /\ IsFiniteSet(Below(n)) /\ Below(n) \in SUBSET Nat
    BY FS_Interval
  <1>2. Belows \subseteq FiniteSubsetsOf(Nat) /\ Belows # {}
    BY <1>1 DEF FiniteSubsetsOf
  <1>3. IsWellFoundedOn(R, FiniteSubsetsOf(Nat))
    BY FS_StrictSubsetOrderingWellFounded
  <1>4. \E x \in Belows : \A y \in Belows : ~ (<<y, x>> \in R)
    <2> HIDE DEF Belows, R
    <2> QED
      BY <1>2, <1>3, WFMin
  <1>5. PICK m \in T : \A y \in Belows : ~ (<<y, Below(m)>> \in R)
    BY <1>4
  <1>6. ASSUME NEW n \in T, n < m PROVE FALSE
    <2>1. Below(n) \subseteq Below(m) /\ Below(n) # Below(m)
      <3>1. n \in Below(m) /\ n \notin Below(n)
        BY <1>6
      <3>2. Below(n) \subseteq Below(m)
        BY <1>6
      <3> QED
        BY <3>1, <3>2
    <2>2. <<Below(n), Below(m)>> \in R
      BY <1>1, <2>1 DEF StrictSubsetOrdering
    <2> QED
      BY <1>5, <2>2
  <1> QED
    BY <1>6

(***************************************************************************)
(* A value can be carried through n steps: the function that a recursive   *)
(* definition over 0 .. n describes exists.                                *)
(***************************************************************************)
LEMMA IterateExists ==
    ASSUME NEW z \in Nat, NEW n \in Nat, NEW step \in [1 .. n -> [Nat -> Nat]]
    PROVE  \E f \in [0 .. n -> Nat] : f[0] = z /\ \A k \in 1 .. n : f[k] = step[k][f[k - 1]]
  <1> DEFINE Good(m) == \E f \in [0 .. m -> Nat] :
                            f[0] = z /\ \A k \in 1 .. m : f[k] = step[k][f[k - 1]]
             T == {m \in 0 .. n : ~Good(m)}
  <1>1. SUFFICES ASSUME T # {} PROVE FALSE
    <2>1. n \in 0 .. n
      OBVIOUS
    <2> QED  BY <2>1
  <1>2. PICK m \in T : \A j \in T : m <= j
    <2>1. T \in SUBSET Nat
      OBVIOUS
    <2> HIDE DEF T
    <2> QED  BY <1>1, <2>1, LeastNat
  <1>3. m \in 0 .. n /\ ~Good(m)
    BY <1>2
  <1>4. CASE m = 0
    <2> DEFINE f == [k \in 0 .. 0 |-> z]
    <2>1. f \in [0 .. 0 -> Nat] /\ f[0] = z /\ \A k \in 1 .. 0 : f[k] = step[k][f[k - 1]]
      OBVIOUS
    <2> QED  BY <1>3, <1>4, <2>1
  <1>5. CASE m # 0
    <2>1. m - 1 \in 0 .. n /\ m - 1 \notin T
      <3> HIDE DEF T
      <3> QED  BY <1>2, <1>3, <1>5
    <2>2. PICK f \in [0 .. m - 1 -> Nat] :
                f[0] = z /\ \A k \in 1 .. m - 1 : f[k] = step[k][f[k - 1]]
      BY <2>1
    <2> DEFINE g == [k \in 0 .. m |-> IF k = m THEN step[m][f[m - 1]] ELSE f[k]]
    <2>3. step[m] \in [Nat -> Nat] /\ f[m - 1] \in Nat
      <3>1. m \in 1 .. n /\ m - 1 \in 0 .. m - 1
        BY <1>3, <1>5
      <3> QED  BY <2>2, <3>1
    <2>4. g \in [0 .. m -> Nat]
      <3>1. step[m][f[m - 1]] \in Nat
        BY <2>3
      <3>2. \A k \in 0 .. m : k # m => k \in 0 .. m - 1 /\ f[k] \in Nat
        BY <1>3, <2>2
      <3> QED  BY <3>1, <3>2
    <2>5. g[0] = z
      BY <1>3, <1>5, <2>2
    <2>6. ASSUME NEW k \in 1 .. m PROVE g[k] = step[k][g[k - 1]]
      <3>1. k - 1 \in 0 .. m /\ k - 1 # m /\ k \in 0 .. m
        BY <1>3
      <3>2. g[k - 1] = f[k - 1]
        BY <3>1
      <3>3. CASE k = m
        BY <3>1, <3>2, <3>3
      <3>4. CASE k # m
        <4>1. k \in 1 .. m - 1
          BY <1>3, <3>4
        <4>2. g[k] = f[k]
          BY <3>1, <3>4
        <4> QED  BY <2>2, <3>2, <4>1, <4>2
      <3> QED  BY <3>3, <3>4
    <2> HIDE DEF g
    <2>7. Good(m)
      BY <2>4, <2>5, <2>6
    <2> QED  BY <1>3, <2>7
  <1> QED  BY <1>4, <1>5

(***************************************************************************)
(* What no test of the code says but every step relies on: the index stays *)
(* in the parent; a long form has an octet; the octets that are still to   *)
(* be read are all there.                                                  *)
(***************************************************************************)
OctetsAhead ==
    /\ pc # "returned" => code = "none"
    /\ idx <= parent_end
    /\ pc = "long_form" => length_octets > 0
    /\ pc \in {"identifier", "length", "long_form"} => i = 0
    /\ pc = "octets" => /\ i <= length_octets /\ length_octets <= MaxOctets
                        /\ idx + (length_octets - i) <= parent_end

IInv == TypeOK /\ OctetsAhead /\ ContentInParent

(***************************************************************************)
(* A uinta that does not exceed its range is not reduced.                  *)
(***************************************************************************)
LEMMA NoWrap ==
    ASSUME NEW a \in Nat, NEW w \in Nat, a < w
    PROVE  a % w = a
  OBVIOUS

(***************************************************************************)
(* The length stays a uinta as an octet is shifted in.                     *)
(***************************************************************************)
LEMMA ShiftIn ==
    ASSUME NEW a \in Nat, NEW b \in Nat, NEW c \in Nat, NEW w \in Nat, w > 0
    PROVE  (a * b + c) % w \in 0 .. w - 1
  <1>1. a * b \in Nat
    OBVIOUS
  <1>2. \A x \in Nat : x % w \in 0 .. w - 1
    OBVIOUS
  <1>3. a * b + c \in Nat
    BY <1>1
  <1> QED  BY <1>2, <1>3

LEMMA HalfIsSmaller == Half \in Nat /\ Half < Base /\ Half > 1 /\ Base - Half <= Half + 1
  BY DerAssumption DEF Half

LEMMA InitInv == Init => IInv
  BY DerAssumption, HalfIsSmaller DEF Init, IInv, TypeOK, OctetsAhead, ContentInParent

Failures == {"UNEXPECTED_END_OF_DATA", "INVALID_LENGTH_FORM"}

LEMMA FailKeeps ==
    ASSUME IInv, NEW c \in Failures, Fail(c)
    PROVE  IInv'
  BY DEF Failures, IInv, TypeOK, OctetsAhead, ContentInParent, Fail, Return, args, locals

(***************************************************************************)
(* A step within the call: what remains to be shown of the new state.      *)
(***************************************************************************)
LEMMA GotoKeeps ==
    ASSUME IInv, NEW next \in {"length", "long_form", "octets", "content"}, Goto(next),
           pc # "returned", UNCHANGED content_end,
           idx' \in 0 .. Size, i' \in 0 .. MaxOctets, length_octets' \in 0 .. Half,
           identifier' \in 0 .. Base - 1, length' \in 0 .. Word - 1,
           OctetsAhead'
    PROVE  IInv'
  <1>1. TypeOK'
    BY DEF IInv, TypeOK, Goto, args
  <1>2. ContentInParent'
    BY DEF IInv, OctetsAhead, ContentInParent, Goto
  <1> QED  BY <1>1, <1>2 DEF IInv

LEMMA ByteRead ==
    ASSUME IInv, idx < parent_end
    PROVE  raw_cert[idx] \in 0 .. Base - 1 /\ idx + 1 \in 0 .. Size /\ idx + 1 <= parent_end
  BY DerAssumption DEF IInv, TypeOK

LEMMA NextInv == IInv /\ [Next]_vars => IInv'
  <1> SUFFICES ASSUME IInv, [Next]_vars PROVE IInv'
    OBVIOUS
  <1>0. /\ "UNEXPECTED_END_OF_DATA" \in Failures /\ "INVALID_LENGTH_FORM" \in Failures
        /\ idx \in Nat /\ i \in Nat /\ length_octets \in Nat /\ parent_end \in Nat
    BY DerAssumption, HalfIsSmaller DEF Failures, IInv, TypeOK
  <1>1. CASE Identifier
    <2>1. CASE idx >= parent_end
      BY <1>0, <1>1, <2>1, FailKeeps DEF Identifier
    <2>2. CASE idx < parent_end
      <3>1. /\ Goto("length") /\ identifier' = raw_cert[idx] /\ idx' = idx + 1
            /\ UNCHANGED <<length_octets, i, length, content_end>> /\ pc = "identifier"
        BY <1>0, <1>1, <2>2 DEF Identifier
      <3>2. OctetsAhead'
        BY <1>0, <2>2, <3>1 DEF IInv, OctetsAhead, Goto, args
      <3> QED  BY <2>2, <3>1, <3>2, ByteRead, GotoKeeps DEF IInv, TypeOK
    <2> QED  BY <1>0, <2>1, <2>2
  <1>2. CASE LengthByte
    <2>1. CASE idx >= parent_end \/ Disallowed(raw_cert[idx])
      BY <1>0, <1>2, <2>1, FailKeeps DEF LengthByte
    <2>2. CASE idx < parent_end /\ ~Disallowed(raw_cert[idx])
      <3>1. raw_cert[idx] \in 0 .. Base - 1 /\ raw_cert[idx] # Half
        BY <2>2, ByteRead DEF Disallowed
      <3>2. idx' = idx + 1 /\ UNCHANGED <<identifier, i, content_end>> /\ pc = "length"
        BY <1>0, <1>2, <2>2 DEF LengthByte
      <3>3. CASE raw_cert[idx] >= Half
        <4>1. Goto("long_form") /\ length_octets' = raw_cert[idx] - Half /\ UNCHANGED length
          BY <1>0, <1>2, <2>2, <3>3 DEF LengthByte
        <4>2. length_octets' \in 0 .. Half /\ length_octets' > 0
          BY <3>1, <3>3, <4>1, HalfIsSmaller, DerAssumption
        <4>3. OctetsAhead'
          BY <1>0, <2>2, <3>2, <4>1, <4>2 DEF IInv, OctetsAhead, Goto, args
        <4> QED  BY <2>2, <3>2, <4>1, <4>2, <4>3, ByteRead, GotoKeeps DEF IInv, TypeOK
      <3>4. CASE raw_cert[idx] < Half
        <4>1. Goto("content") /\ length' = raw_cert[idx] /\ UNCHANGED length_octets
          BY <1>0, <1>2, <2>2, <3>1, <3>4, HalfIsSmaller, DerAssumption DEF LengthByte
        <4>2. length' \in 0 .. Word - 1
          BY <3>1, <4>1, DerAssumption
        <4>3. OctetsAhead'
          BY <1>0, <2>2, <3>2, <4>1 DEF IInv, OctetsAhead, Goto, args
        <4> QED  BY <2>2, <3>2, <4>1, <4>2, <4>3, ByteRead, GotoKeeps DEF IInv, TypeOK
      <3> QED  BY <3>1, <3>3, <3>4, HalfIsSmaller, DerAssumption
    <2> QED  BY <1>0, <2>1, <2>2
  <1>3. CASE LongForm
    <2> DEFINE Readable == /\ idx + length_octets <= parent_end /\ raw_cert[idx] # 0
                           /\ length_octets <= MaxOctets
    <2>1. CASE ~Readable
      BY <1>0, <1>3, <2>1, FailKeeps, DerAssumption DEF LongForm
    <2>2. CASE Readable
      <3>1. Goto("octets") /\ UNCHANGED <<idx, locals>> /\ pc = "long_form"
        BY <1>0, <1>3, <2>2, DerAssumption DEF LongForm
      <3>2. OctetsAhead'
        BY <1>0, <2>2, <3>1 DEF IInv, OctetsAhead, Goto, args, locals
      <3> QED  BY <3>1, <3>2, GotoKeeps DEF IInv, TypeOK, locals
    <2> QED  BY <2>1, <2>2
  <1>4. CASE Octet
    <2>1. /\ pc = "octets" /\ i < length_octets /\ idx' = idx + 1 /\ i' = i + 1
          /\ length' = (length * Base + raw_cert[idx]) % Word
          /\ Goto("octets") /\ UNCHANGED <<identifier, length_octets, content_end>>
      BY <1>4 DEF Octet
    <2>2. idx < parent_end
      BY <1>0, <2>1 DEF IInv, OctetsAhead
    <2>3. length' \in 0 .. Word - 1
      <3>1. length \in Nat /\ Base \in Nat /\ raw_cert[idx] \in Nat /\ Word \in Nat /\ Word > 0
        BY <2>2, ByteRead, DerAssumption DEF IInv, TypeOK
      <3> QED  BY <2>1, <3>1, ShiftIn
    <2>4. OctetsAhead' /\ i' \in 0 .. MaxOctets
      BY <1>0, <2>1, <2>2, DerAssumption DEF IInv, OctetsAhead, Goto, args
    <2> QED  BY <2>1, <2>2, <2>3, <2>4, ByteRead, GotoKeeps DEF IInv, TypeOK
  <1>5. CASE LongFormEnds
    <2>1. CASE ShortFormDue
      BY <1>0, <1>5, <2>1, FailKeeps DEF LongFormEnds
    <2>2. CASE ~ShortFormDue
      <3>1. Goto("content") /\ UNCHANGED <<idx, locals>> /\ pc = "octets"
        BY <1>5, <2>2 DEF LongFormEnds
      <3>2. OctetsAhead'
        BY <3>1 DEF IInv, OctetsAhead, Goto, args, locals
      <3> QED  BY <3>1, <3>2, GotoKeeps DEF IInv, TypeOK, locals
    <2> QED  BY <2>1, <2>2
  <1>6. CASE Content
    <2>1. /\ idx \in 0 .. Size /\ parent_end \in 0 .. Size /\ idx <= parent_end
          /\ length \in Nat /\ Word \in Nat /\ Word > Size /\ Size \in Nat
      BY DerAssumption DEF IInv, TypeOK, OctetsAhead
    <2>2. (parent_end - idx) % Word = parent_end - idx
      <3>1. parent_end - idx \in Nat /\ parent_end - idx < Word
        BY <2>1
      <3> QED  BY <2>1, <3>1, NoWrap
    <2>3. CASE TooLong
      BY <1>0, <1>6, <2>3, FailKeeps DEF Content
    <2>4. CASE ~TooLong
      <3>1. length <= parent_end - idx
        BY <2>1, <2>2, <2>4 DEF TooLong
      <3>2. (idx + length) % Word = idx + length
        <4>1. idx + length \in Nat /\ idx + length < Word
          BY <2>1, <3>1
        <4> QED  BY <2>1, <4>1, NoWrap
      <3>3. /\ content_end' = idx + length /\ Return("PARSE_OK")
            /\ UNCHANGED <<idx, identifier, length_octets, i, length>>
        BY <1>6, <2>4, <3>2 DEF Content
      <3>4. content_end' \in 0 .. Size /\ idx <= content_end' /\ content_end' <= parent_end
        BY <2>1, <3>1, <3>3
      <3>5. TypeOK'
        BY <3>3, <3>4 DEF IInv, TypeOK, Return, args
      <3>6. OctetsAhead' /\ ContentInParent'
        BY <3>3, <3>4 DEF IInv, OctetsAhead, ContentInParent, Return, args
      <3> QED  BY <3>5, <3>6 DEF IInv
    <2> QED  BY <2>3, <2>4
  <1>7. CASE UNCHANGED vars
    BY <1>7 DEF vars, args, locals, IInv, TypeOK, OctetsAhead, ContentInParent
  <1> QED  BY <1>1, <1>2, <1>3, <1>4, <1>5, <1>6, <1>7 DEF Next

LEMMA Invariant == Spec => []IInv
  BY InitInv, NextInv, PTL DEF Spec

(***************************************************************************)
(* No call takes more octets for a length than a uinta has, and no index   *)
(* leaves the file.                                                        *)
(***************************************************************************)
THEOREM TypeCorrect == Spec => []TypeOK
  <1>1. IInv => TypeOK
    BY DEF IInv
  <1> QED  BY Invariant, <1>1, PTL

(***************************************************************************)
(* What x509.c:23 ensures, for every file: *idx <= *ret_content_end <=     *)
(* parent_end after PARSE_OK.                                              *)
(***************************************************************************)
THEOREM ContentStaysInParent == Spec => []ContentInParent
  <1>1. IInv => ContentInParent
    BY DEF IInv
  <1> QED  BY Invariant, <1>1, PTL

(***************************************************************************)
(* parse_any reads no byte from parent_end on (x509.c:53, :63).            *)
(***************************************************************************)
THEOREM ReadsStayInParent == Spec => []ReadsInParent
  <1>1. IInv => ReadsInParent
    BY DerAssumption, HalfIsSmaller DEF IInv, TypeOK, OctetsAhead, ReadsInParent
  <1> QED  BY Invariant, <1>1, PTL

(***************************************************************************)
(* What holds of the first and is passed on holds of all.                  *)
(***************************************************************************)
LEMMA PassedOn ==
    ASSUME NEW n \in Nat, NEW f, f[0] \in Nat,
           \A k \in 1 .. n : f[k - 1] \in Nat => f[k] \in Nat
    PROVE  \A k \in 0 .. n : f[k] \in Nat
  <1> DEFINE T == {k \in 0 .. n : f[k] \notin Nat}
  <1>1. SUFFICES ASSUME T # {} PROVE FALSE
    OBVIOUS
  <1>2. T \in SUBSET Nat
    OBVIOUS
  <1>3. PICK m \in T : \A j \in T : m <= j
    <2> HIDE DEF T
    <2> QED  BY <1>1, <1>2, LeastNat
  <1>4. m \in 0 .. n /\ f[m] \notin Nat /\ m # 0
    BY <1>3
  <1>5. m - 1 \in 0 .. n /\ m \in 1 .. n /\ m - 1 \notin T
    <2> HIDE DEF T
    <2> QED  BY <1>3, <1>4
  <1>6. f[m - 1] \in Nat
    BY <1>5
  <1> QED  BY <1>4, <1>5, <1>6

(***************************************************************************)
(* The recursive definitions define: Capacity and LengthValues are the     *)
(* functions that their equations describe.                                *)
(***************************************************************************)
LEMMA CapacityDef ==
    /\ Capacity \in [0 .. MaxOctets -> Nat]
    /\ Capacity[0] = 1
    /\ \A k \in 1 .. MaxOctets : Capacity[k] = Capacity[k - 1] * Base
  <1>0. MaxOctets \in Nat /\ Base \in Nat /\ 1 \in Nat
    BY DerAssumption
  <1>i. \A z \in Nat, st \in [1 .. MaxOctets -> [Nat -> Nat]] :
            \E f \in [0 .. MaxOctets -> Nat] :
                f[0] = z /\ \A k \in 1 .. MaxOctets : f[k] = st[k][f[k - 1]]
    <2>1. MaxOctets \in Nat
      BY <1>0
    <2> QED  BY <2>1, IterateExists, Zenon
  <1> DEFINE times == [v \in Nat |-> v * Base]
             step == [k \in 1 .. MaxOctets |-> times]
             Eq(f) == f = [k \in 0 .. MaxOctets |-> IF k = 0 THEN 1 ELSE f[k - 1] * Base]
  <1>1. times \in [Nat -> Nat]
    BY <1>0
  <1>2. step \in [1 .. MaxOctets -> [Nat -> Nat]]
    BY <1>1
  <1>3. PICK f \in [0 .. MaxOctets -> Nat] :
            f[0] = 1 /\ \A k \in 1 .. MaxOctets : f[k] = step[k][f[k - 1]]
    <2> HIDE DEF step
    <2> QED  BY <1>0, <1>2, <1>i, Zenon
  <1>4. ASSUME NEW k \in 1 .. MaxOctets PROVE f[k - 1] \in Nat /\ f[k] = f[k - 1] * Base
    <2>1. f[k - 1] \in Nat
      <3>1. k - 1 \in 0 .. MaxOctets
        BY <1>0
      <3> HIDE DEF step
      <3> QED  BY <1>3, <3>1
    <2>2. step[k] = times
      OBVIOUS
    <2>3. times[f[k - 1]] = f[k - 1] * Base
      BY <2>1
    <2> QED  BY <1>3, <2>1, <2>2, <2>3
  <1>5. Eq(f)
    <2>1. \A k \in 0 .. MaxOctets : k = 0 \/ k \in 1 .. MaxOctets
      BY <1>0
    <2> HIDE DEF step
    <2> QED  BY <1>3, <1>4, <2>1
  <1>6. Capacity = CHOOSE h : Eq(h)
    BY DEF Capacity
  <1>7. Eq(Capacity)
    <2> HIDE DEF Eq
    <2> QED  BY <1>5, <1>6
  <1>8. /\ Capacity[0] = 1
        /\ \A k \in 1 .. MaxOctets : Capacity[k] = Capacity[k - 1] * Base
    <2>1. \A k \in 1 .. MaxOctets : k \in 0 .. MaxOctets /\ k # 0
      BY <1>0
    <2>2. 0 \in 0 .. MaxOctets
      BY <1>0
    <2> QED  BY <1>7, <2>1, <2>2
  <1>9. \A k \in 0 .. MaxOctets : Capacity[k] \in Nat
    <2>1. Capacity[0] \in Nat
      BY <1>8
    <2>2. \A k \in 1 .. MaxOctets : Capacity[k - 1] \in Nat => Capacity[k] \in Nat
      BY <1>0, <1>8
    <2> QED  BY <1>0, <2>1, <2>2, PassedOn, Zenon
  <1> QED  BY <1>7, <1>8, <1>9

Saturated(v, o) == IF v > Size + Base THEN v ELSE v * Base + o

LEMMA SaturatedType ==
    ASSUME NEW v \in Nat, NEW o \in Nat
    PROVE  Saturated(v, o) \in Nat
  <1>1. v * Base \in Nat
    BY DerAssumption
  <1> QED  BY <1>1 DEF Saturated

LEMMA LengthValuesDef ==
    ASSUME NEW raw \in [0 .. Size - 1 -> 0 .. Base - 1], NEW j \in Nat, NEW n \in Nat,
           j + n < Size
    PROVE  LET value == Abstract!LengthValues(Base, raw, Size, j, n)
           IN  /\ value \in [0 .. n -> Nat]
               /\ value[0] = 0
               /\ \A k \in 1 .. n : value[k] = Saturated(value[k - 1], raw[j + k])
  <1> DEFINE value == Abstract!LengthValues(Base, raw, Size, j, n)
             shift(k) == [v \in Nat |-> Saturated(v, raw[j + k])]
             step == [k \in 1 .. n |-> shift(k)]
             Eq(f) == f = [k \in 0 .. n |-> IF k = 0 THEN 0
                                            ELSE Saturated(f[k - 1], raw[j + k])]
  <1>0. \A k \in 1 .. n : raw[j + k] \in Nat
    <2>1. \A k \in 1 .. n : j + k \in 0 .. Size - 1
      BY DerAssumption
    <2> QED  BY <2>1, DerAssumption
  <1>1. \A k \in 1 .. n : shift(k) \in [Nat -> Nat]
    BY <1>0, SaturatedType
  <1>2. step \in [1 .. n -> [Nat -> Nat]]
    <2> HIDE DEF shift
    <2> QED  BY <1>1
  <1>3. PICK f \in [0 .. n -> Nat] :
            f[0] = 0 /\ \A k \in 1 .. n : f[k] = step[k][f[k - 1]]
    <2>1. ASSUME NEW z \in Nat, NEW st \in [1 .. n -> [Nat -> Nat]]
          PROVE  \E f \in [0 .. n -> Nat] :
                    f[0] = z /\ \A k \in 1 .. n : f[k] = st[k][f[k - 1]]
      BY IterateExists, Zenon
    <2> HIDE DEF step
    <2> QED  BY <1>2, <2>1
  <1>4. ASSUME NEW k \in 1 .. n
        PROVE  f[k - 1] \in Nat /\ f[k] = Saturated(f[k - 1], raw[j + k])
    <2>1. f[k - 1] \in Nat
      <3>1. k - 1 \in 0 .. n
        OBVIOUS
      <3> HIDE DEF step
      <3> QED  BY <1>3, <3>1
    <2>2. step[k] = shift(k)
      OBVIOUS
    <2>3. shift(k)[f[k - 1]] = Saturated(f[k - 1], raw[j + k])
      BY <2>1
    <2> HIDE DEF step, shift
    <2> QED  BY <1>3, <2>1, <2>2, <2>3
  <1>5. Eq(f)
    <2>1. \A k \in 0 .. n : k = 0 \/ k \in 1 .. n
      OBVIOUS
    <2> HIDE DEF step
    <2> QED  BY <1>3, <1>4, <2>1
  <1>6. value = CHOOSE h : Eq(h)
    BY DEF Abstract!LengthValues, Saturated
  <1>7. Eq(value)
    <2> HIDE DEF Eq, value
    <2> QED  BY <1>5, <1>6
  <1>8. /\ value[0] = 0
        /\ \A k \in 1 .. n : value[k] = Saturated(value[k - 1], raw[j + k])
    <2>1. \A k \in 1 .. n : k \in 0 .. n /\ k # 0
      OBVIOUS
    <2>2. 0 \in 0 .. n
      OBVIOUS
    <2> HIDE DEF value
    <2> QED  BY <1>7, <2>1, <2>2
  <1>9. \A k \in 0 .. n : value[k] \in Nat
    <2> HIDE DEF value
    <2>1. value[0] \in Nat
      BY <1>8
    <2>2. \A k \in 1 .. n : value[k - 1] \in Nat => value[k] \in Nat
      BY <1>0, <1>8, SaturatedType
    <2> QED  BY <2>1, <2>2, PassedOn, Zenon
  <1>10. value \in [0 .. n -> Nat]
    <2> HIDE DEF value
    <2>1. value = [k \in 0 .. n |-> value[k]]
      BY <1>7
    <2> HIDE DEF Eq
    <2> QED  BY <1>9, <2>1
  <1> HIDE DEF Eq
  <1> QED  BY <1>8, <1>10

(***************************************************************************)
(* A length of MaxOctets octets or fewer is a uinta.                       *)
(***************************************************************************)
LEMMA CapacityGrows ==
    ASSUME NEW k \in 0 .. MaxOctets
    PROVE  Capacity[k] \in Nat /\ Capacity[k] <= Capacity[MaxOctets]
  <1>0. MaxOctets \in Nat /\ Base \in Nat /\ Base > 3 /\ \A m \in 0 .. MaxOctets : Capacity[m] \in Nat
    BY DerAssumption, CapacityDef
  <1> DEFINE T == {d \in 0 .. MaxOctets : ~(Capacity[MaxOctets - d] <= Capacity[MaxOctets])}
  <1>1. SUFFICES ASSUME T # {} PROVE FALSE
    <2>1. MaxOctets - k \in 0 .. MaxOctets /\ MaxOctets - (MaxOctets - k) = k
      BY <1>0
    <2>2. MaxOctets - k \notin T
      OBVIOUS
    <2>3. Capacity[MaxOctets - (MaxOctets - k)] <= Capacity[MaxOctets]
      BY <2>1, <2>2
    <2> QED  BY <1>0, <2>1, <2>3
  <1>2. T \in SUBSET Nat
    OBVIOUS
  <1>3. PICK d \in T : \A e \in T : d <= e
    <2> HIDE DEF T
    <2> QED  BY <1>1, <1>2, LeastNat
  <1>4. d \in 0 .. MaxOctets /\ ~(Capacity[MaxOctets - d] <= Capacity[MaxOctets])
    BY <1>3
  <1>5. d # 0
    <2>1. MaxOctets - 0 = MaxOctets /\ MaxOctets \in 0 .. MaxOctets
      BY <1>0
    <2>2. Capacity[MaxOctets - 0] <= Capacity[MaxOctets]
      BY <1>0, <2>1
    <2> QED  BY <1>4, <2>2
  <1>6. d - 1 \in 0 .. MaxOctets /\ d - 1 \notin T
    <2> HIDE DEF T
    <2> QED  BY <1>0, <1>3, <1>4, <1>5
  <1>7. Capacity[MaxOctets - (d - 1)] <= Capacity[MaxOctets]
    BY <1>6
  <1> DEFINE m == MaxOctets - d
  <1>8. m \in 0 .. MaxOctets /\ m + 1 \in 1 .. MaxOctets /\ MaxOctets - (d - 1) = m + 1 /\ (m + 1) - 1 = m
    BY <1>0, <1>4, <1>5
  <1>9. Capacity[m + 1] = Capacity[m] * Base
    <2> HIDE DEF m
    <2> QED  BY <1>8, CapacityDef
  <1>10. Capacity[m] <= Capacity[m + 1]
    <2> DEFINE c == Capacity[m]
    <2>1. c \in Nat
      BY <1>0, <1>8
    <2> HIDE DEF c
    <2>2. c <= c * Base
      BY <1>0, <2>1
    <2> QED  BY <1>9, <2>2 DEF c
  <1>11. Capacity[m] <= Capacity[MaxOctets]
    <2>1. Capacity[m + 1] <= Capacity[MaxOctets]
      BY <1>7, <1>8
    <2>2. Capacity[m] \in Nat /\ Capacity[m + 1] \in Nat /\ Capacity[MaxOctets] \in Nat
      <3>1. m \in 0 .. MaxOctets /\ m + 1 \in 0 .. MaxOctets /\ MaxOctets \in 0 .. MaxOctets
        BY <1>0, <1>8
      <3> HIDE DEF m
      <3> QED  BY <1>0, <3>1
    <2> QED  BY <1>10, <2>1, <2>2
  <1> QED  BY <1>4, <1>11

-----------------------------------------------------------------------------

(***************************************************************************)
(* The length field that the call is decoding, the values that its octets  *)
(* add up to, and the element's answer.                                    *)
(***************************************************************************)
Field == Abstract!LengthFieldAt(Base, MaxOctets, raw_cert, Size, start + 1)

Value == Abstract!LengthValues(Base, raw_cert, Size, start + 1, length_octets)

Answer == Abstract!Answer([raw |-> raw_cert, idx |-> start, parent_end |-> parent_end])

(***************************************************************************)
(* Two lengths that no test of parse_any tells apart.                      *)
(***************************************************************************)
SameLength(v, l) == v = l \/ (v > Size + Base /\ l > Size + Base)

(***************************************************************************)
(* How far the call has decoded the field.  A length of i octets is below  *)
(* Capacity[i], so that it has not been reduced.                           *)
(***************************************************************************)
Decoded ==
    /\ pc \in {"identifier", "length", "long_form"} => length = 0
    /\ pc = "identifier" => idx = start
    /\ pc = "length" => start < parent_end /\ identifier = raw_cert[start] /\ idx = start + 1
    /\ pc \in {"long_form", "octets", "content"} =>
            start + 1 < parent_end /\ identifier = raw_cert[start]
    /\ pc \in {"long_form", "octets"} =>
            /\ raw_cert[start + 1] > Half /\ raw_cert[start + 1] # DER_LENGTH_RESERVED
            /\ length_octets = raw_cert[start + 1] - Half
    /\ pc = "long_form" => idx = start + 2
    /\ pc = "octets" => /\ idx = start + 2 + i /\ raw_cert[start + 2] # 0
                        /\ length < Capacity[i] /\ SameLength(Value[i], length)
    /\ pc = "content" => /\ Field.form = "ok" /\ idx = start + 1 + Field.octets
                         /\ Field.value \in Nat /\ SameLength(Field.value, length)

DInv == IInv /\ Decoded

LEMMA Arguments ==
    ASSUME TypeOK
    PROVE  /\ start \in Nat /\ parent_end \in Nat /\ start <= parent_end /\ parent_end <= Size
           /\ Size \in Nat /\ Base \in Nat /\ Base > 3 /\ MaxOctets \in Nat
           /\ raw_cert \in [0 .. Size - 1 -> 0 .. Base - 1]
           /\ \A k \in Nat : k < Size => raw_cert[k] \in Nat /\ raw_cert[k] < Base
  BY DerAssumption DEF TypeOK

(***************************************************************************)
(* The forms of a length field.                                            *)
(***************************************************************************)
LEMMA ShortField ==
    ASSUME TypeOK, start + 1 < parent_end, raw_cert[start + 1] < Half
    PROVE  Field = [form |-> "ok", octets |-> 1, value |-> raw_cert[start + 1]]
  <1>0. raw_cert[start + 1] \in Nat /\ Half \in Nat /\ Base \in Nat /\ Half < Base
    BY Arguments, HalfIsSmaller
  <1>h. /\ ~(raw_cert[start + 1] \in {Half, Base - 1})
        /\ ~(raw_cert[start + 1] - Half > 0)
    BY <1>0
  <1>1. /\ raw_cert[start + 1] \in Nat
        /\ ~(raw_cert[start + 1] \in {Base \div 2, Base - 1})
        /\ raw_cert[start + 1] < Base \div 2
        /\ ~(raw_cert[start + 1] - Base \div 2 > 0)
    BY <1>0, <1>h DEF Half
  <1> DEFINE f == Field
  <1>2. f = [form |-> "ok", octets |-> 1, value |-> raw_cert[start + 1]]
    BY <1>1 DEF Field, Abstract!LengthFieldAt
  <1> QED  BY <1>2

LEMMA ReservedField ==
    ASSUME TypeOK, start + 1 < parent_end, Disallowed(raw_cert[start + 1])
    PROVE  Field = [form |-> "reserved", octets |-> 1, value |-> 0]
  <1>1. /\ raw_cert[start + 1] \in {Base \div 2, Base - 1}
        /\ ~(raw_cert[start + 1] < Base \div 2)
    BY Arguments, HalfIsSmaller DEF Half, Disallowed, DER_LENGTH_RESERVED
  <1> QED  BY <1>1 DEF Field, Abstract!LengthFieldAt

LEMMA FieldBeyond ==
    ASSUME TypeOK, start + 1 < parent_end, NEW n \in Nat, n > 0,
           raw_cert[start + 1] # DER_LENGTH_RESERVED, raw_cert[start + 1] = Half + n,
           start + 1 + n >= Size
    PROVE  Field = [form |-> "ok", octets |-> 1 + n, value |-> 0]
  <1>n. Half \in Nat
    BY HalfIsSmaller
  <1>0. /\ ~(raw_cert[start + 1] \in {Half, Base - 1})
        /\ ~(raw_cert[start + 1] < Half)
        /\ raw_cert[start + 1] - Half = n
    BY <1>n DEF DER_LENGTH_RESERVED
  <1>1. /\ ~(raw_cert[start + 1] \in {Base \div 2, Base - 1})
        /\ ~(raw_cert[start + 1] < Base \div 2)
        /\ raw_cert[start + 1] - Base \div 2 = n
    BY <1>0 DEF Half
  <1> QED  BY <1>1 DEF Field, Abstract!LengthFieldAt

LEMMA LongField ==
    ASSUME TypeOK, start + 1 < parent_end, NEW n \in Nat, n > 0,
           raw_cert[start + 1] # DER_LENGTH_RESERVED, raw_cert[start + 1] = Half + n,
           start + 1 + n < Size
    PROVE  LET value == Abstract!LengthValues(Base, raw_cert, Size, start + 1, n)[n]
           IN  Field = [form |-> IF raw_cert[start + 2] = 0 THEN "padded"
                                 ELSE IF n > MaxOctets THEN "huge"
                                 ELSE IF value < Half THEN "padded" ELSE "ok",
                        octets |-> 1 + n, value |-> value]
  <1>n. Half \in Nat /\ start \in Nat /\ Size \in Nat
    BY Arguments, HalfIsSmaller
  <1>0. /\ ~(raw_cert[start + 1] \in {Half, Base - 1})
        /\ ~(raw_cert[start + 1] < Half)
        /\ raw_cert[start + 1] - Half = n
        /\ ~(start + 1 + n >= Size)
        /\ start + 1 + 1 = start + 2
    BY <1>n DEF DER_LENGTH_RESERVED
  <1>1. /\ ~(raw_cert[start + 1] \in {Base \div 2, Base - 1})
        /\ ~(raw_cert[start + 1] < Base \div 2)
        /\ raw_cert[start + 1] - Base \div 2 = n
        /\ ~(start + 1 + n >= Size)
        /\ start + 1 + 1 = start + 2
    BY <1>0 DEF Half
  <1> QED  BY <1>1 DEF Field, Abstract!LengthFieldAt, Half

(***************************************************************************)
(* The answer, by the length field.                                        *)
(***************************************************************************)
LEMMA NoLengthByte ==
    ASSUME TypeOK, start + 1 >= parent_end
    PROVE  Answer = [code |-> "UNEXPECTED_END_OF_DATA"]
  BY Arguments DEF Answer, Abstract!Answer, Abstract!parse_any, Abstract!ElementCode,
     Abstract!At, Abstract!Ok, Abstract!FileOf

LEMMA AnswerByField ==
    ASSUME TypeOK, start + 1 < parent_end
    PROVE  LET from == start + 1 + Field.octets
           IN  /\ Field.form = "reserved" => Answer = [code |-> "INVALID_LENGTH_FORM"]
               /\ Field.form # "reserved" /\ from > parent_end =>
                        Answer = [code |-> "UNEXPECTED_END_OF_DATA"]
               /\ Field.form = "padded" /\ ~(from > parent_end) =>
                        Answer = [code |-> "INVALID_LENGTH_FORM"]
               /\ Field.form = "huge" /\ ~(from > parent_end) =>
                        Answer = [code |-> "UNEXPECTED_END_OF_DATA"]
               /\ Field.form = "ok" /\ ~(from > parent_end) /\ ~(Field.value <= parent_end - from) =>
                        Answer = [code |-> "UNEXPECTED_END_OF_DATA"]
               /\ Field.form = "ok" /\ ~(from > parent_end) /\ Field.value <= parent_end - from =>
                        Answer = [code |-> "PARSE_OK", idx |-> from, end |-> from + Field.value,
                                  identifier |-> raw_cert[start]]
  <1> DEFINE f == Abstract!FileOf(Base, MaxOctets, raw_cert, Size)
             r == Abstract!parse_any(f, Abstract!At(start), parent_end)
             c == Abstract!ElementCode(f, start, parent_end)
             from == start + 1 + Field.octets
  <1>1. f.length[start + 1] = Field
    BY Arguments DEF Abstract!FileOf, Field
  <1>2. c = IF Field.form = "reserved" THEN "INVALID_LENGTH_FORM"
            ELSE IF from > parent_end THEN "UNEXPECTED_END_OF_DATA"
            ELSE IF Field.form = "padded" THEN "INVALID_LENGTH_FORM"
            ELSE IF Field.form = "huge" \/ ~(Field.value <= parent_end - from)
              THEN "UNEXPECTED_END_OF_DATA"
            ELSE "PARSE_OK"
    <2> HIDE DEF f
    <2> QED  BY <1>1, Arguments DEF Abstract!ElementCode, Abstract!Fits
  <1>3. r = IF c # "PARSE_OK" THEN [code |-> c, idx |-> start, end |-> 0]
            ELSE [code |-> c, idx |-> from, end |-> from + Field.value]
    <2> HIDE DEF f, c
    <2> QED  BY <1>1 DEF Abstract!parse_any, Abstract!At, Abstract!Ok, Abstract!IDX_NONE, c
  <1>4. Answer = IF c = "PARSE_OK"
                   THEN [code |-> c, idx |-> from, end |-> from + Field.value,
                         identifier |-> raw_cert[start]]
                   ELSE [code |-> c]
    <2>1. Answer = IF r.code = "PARSE_OK"
                     THEN [code |-> r.code, idx |-> r.idx, end |-> r.end,
                           identifier |-> raw_cert[start]]
                     ELSE [code |-> r.code]
      BY DEF Answer, Abstract!Answer, Abstract!Ok
    <2> HIDE DEF r, c, f
    <2> QED  BY <1>3, <2>1
  <1> HIDE DEF r, c, f
  <1> QED  BY <1>2, <1>4

(***************************************************************************)
(* Shifting an octet in: the length and the value stay the same length,    *)
(* and the length stays below its capacity.                                *)
(***************************************************************************)
LEMMA ShiftSameLength ==
    ASSUME NEW v \in Nat, NEW l \in Nat, NEW o \in Nat, SameLength(v, l)
    PROVE  SameLength(Saturated(v, o), l * Base + o)
  <1>0. Base \in Nat /\ Base > 3 /\ Size \in Nat
    BY DerAssumption
  <1>1. l * Base \in Nat /\ l <= l * Base
    BY <1>0
  <1> DEFINE p == l * Base
  <1> HIDE DEF p
  <1>2. CASE v > Size + Base
    <2>1. l > Size + Base /\ Saturated(v, o) = v
      BY <1>2 DEF SameLength, Saturated
    <2>2. p + o > Size + Base
      BY <1>0, <1>1, <2>1 DEF p
    <2> QED  BY <1>2, <2>1, <2>2 DEF SameLength, p
  <1>3. CASE ~(v > Size + Base)
    BY <1>3 DEF SameLength, Saturated
  <1> QED  BY <1>2, <1>3

LEMMA ShiftBelowCapacity ==
    ASSUME NEW l \in Nat, NEW c \in Nat, NEW o \in Nat, l < c, o < Base
    PROVE  l * Base + o < c * Base
  <1>0. Base \in Nat
    BY DerAssumption
  <1>1. (l + 1) * Base <= c * Base
    BY <1>0
  <1>2. (l + 1) * Base = l * Base + Base
    BY <1>0
  <1>3. l * Base \in Nat /\ c * Base \in Nat
    BY <1>0
  <1> QED  BY <1>0, <1>1, <1>2, <1>3

LEMMA SameTests ==
    ASSUME NEW v \in Nat, NEW l \in Nat, SameLength(v, l)
    PROVE  /\ v < Half <=> l < Half
           /\ \A m \in Nat : m <= Size => (v <= m <=> l <= m) /\ (l <= m => v = l)
  BY DerAssumption, HalfIsSmaller DEF SameLength

LEMMA DecodedInit == Init => Decoded
  BY DEF Init, Decoded

LEMMA FailDecoded ==
    ASSUME NEW c, Fail(c)
    PROVE  Decoded'
  BY DEF Fail, Return, Decoded

LEMMA OctetFacts ==
    ASSUME DInv, pc = "octets"
    PROVE  /\ length_octets \in Nat /\ length_octets > 0 /\ i \in 0 .. length_octets
           /\ length_octets <= MaxOctets
           /\ start + 2 + length_octets <= parent_end
           /\ start + 1 + length_octets < Size
           /\ Value \in [0 .. length_octets -> Nat]
           /\ Value[0] = 0
           /\ \A k \in 1 .. length_octets :
                    Value[k] = Saturated(Value[k - 1], raw_cert[start + 1 + k])
  <1>1. /\ length_octets \in Nat /\ length_octets > 0 /\ i \in 0 .. length_octets
        /\ length_octets <= MaxOctets
        /\ start + 2 + length_octets <= parent_end
        /\ start + 1 + length_octets < Size
    <2>1. /\ start \in Nat /\ parent_end \in Nat /\ parent_end <= Size /\ Size \in Nat
          /\ raw_cert[start + 1] \in Nat /\ Half \in Nat /\ MaxOctets \in Nat
      BY Arguments, HalfIsSmaller DEF DInv, IInv, Decoded
    <2>2. /\ length_octets = raw_cert[start + 1] - Half /\ raw_cert[start + 1] > Half
          /\ idx = start + 2 + i
      BY DEF DInv, Decoded
    <2>3. /\ i <= length_octets /\ length_octets <= MaxOctets
          /\ idx + (length_octets - i) <= parent_end /\ i \in 0 .. MaxOctets
      BY DEF DInv, IInv, TypeOK, OctetsAhead
    <2> QED  BY <2>1, <2>2, <2>3
  <1>2. start + 1 \in Nat /\ raw_cert \in [0 .. Size - 1 -> 0 .. Base - 1]
    BY Arguments DEF DInv, IInv
  <1> QED  BY <1>1, <1>2, LengthValuesDef DEF Value

LEMMA OctetDecoded ==
    ASSUME DInv, Octet
    PROVE  Decoded'
  <1>1. /\ pc = "octets" /\ i < length_octets /\ idx' = idx + 1 /\ i' = i + 1
        /\ length' = (length * Base + raw_cert[idx]) % Word
        /\ pc' = "octets" /\ UNCHANGED <<raw_cert, start, parent_end, identifier, length_octets>>
    BY DEF Octet, Goto, args
  <1>2. TypeOK /\ start \in Nat /\ i \in Nat /\ length_octets \in Nat /\ length \in Nat
    BY <1>1, Arguments, OctetFacts DEF DInv, IInv, TypeOK
  <1>3. i + 1 \in 1 .. length_octets /\ (i + 1) - 1 = i /\ start + 1 + (i + 1) = idx
    BY <1>1, <1>2 DEF DInv, Decoded
  <1>4. raw_cert[idx] \in Nat /\ raw_cert[idx] < Base
    <2>1. idx \in Nat /\ idx < Size
      <3>1. start + 1 + length_octets < Size /\ Size \in Nat
        BY <1>1, <1>2, OctetFacts, Arguments
      <3> QED  BY <1>1, <1>2, <1>3, <3>1
    <2> QED  BY <1>2, <2>1, Arguments
  <1>5. Value[i] \in Nat /\ Value[i + 1] = Saturated(Value[i], raw_cert[idx])
    BY <1>1, <1>3, OctetFacts
  <1>6. SameLength(Value[i + 1], length * Base + raw_cert[idx])
    <2>1. SameLength(Value[i], length)
      BY <1>1 DEF DInv, Decoded
    <2> QED  BY <1>2, <1>4, <1>5, <2>1, ShiftSameLength
  <1>7. /\ Capacity[i] \in Nat /\ Capacity[i + 1] = Capacity[i] * Base
        /\ Capacity[i + 1] \in Nat /\ Capacity[i + 1] <= Word
    <2>1. i \in 0 .. MaxOctets /\ i + 1 \in 1 .. MaxOctets /\ i + 1 \in 0 .. MaxOctets
          /\ MaxOctets \in 0 .. MaxOctets
      <3>1. length_octets <= MaxOctets /\ MaxOctets \in Nat
        BY <1>1, <1>2, OctetFacts, Arguments
      <3> QED  BY <1>1, <1>2, <3>1
    <2>2. Capacity[MaxOctets] <= Word /\ Word \in Nat
      <3>1. Capacity[MaxOctets] \in Nat
        BY <2>1, CapacityGrows
      <3> QED  BY <3>1, DerAssumption
    <2>3. Capacity[i + 1] = Capacity[(i + 1) - 1] * Base
      BY <2>1, CapacityDef
    <2>4. Capacity[i + 1] \in Nat /\ Capacity[MaxOctets] \in Nat /\ Capacity[i] \in Nat
      BY <2>1, CapacityGrows
    <2>5. Capacity[i + 1] <= Capacity[MaxOctets]
      BY <2>1, CapacityGrows
    <2> QED  BY <1>3, <2>2, <2>3, <2>4, <2>5
  <1>8. length * Base + raw_cert[idx] < Capacity[i + 1]
    <2>1. length < Capacity[i]
      BY <1>1 DEF DInv, Decoded
    <2> QED  BY <1>2, <1>4, <1>7, <2>1, ShiftBelowCapacity
  <1>9. length' = length * Base + raw_cert[idx]
    <2>1. length * Base \in Nat
      BY <1>2, DerAssumption
    <2>2. length * Base + raw_cert[idx] \in Nat /\ Word \in Nat
          /\ length * Base + raw_cert[idx] < Word
      BY <1>4, <1>7, <1>8, <2>1, DerAssumption
    <2> QED  BY <1>1, <2>2, NoWrap
  <1>10. Value' = Value
    BY <1>1 DEF Value
  <1>11. idx' = start' + 2 + i'
    BY <1>1, <1>2 DEF DInv, Decoded
  <1>12. length' < Capacity[i'] /\ SameLength(Value[i], length)'
    BY <1>1, <1>6, <1>8, <1>9, <1>10 DEF SameLength
  <1> QED  BY <1>1, <1>11, <1>12 DEF DInv, Decoded

(***************************************************************************)
(* Where the octets end, the length field says what the call has found.    *)
(***************************************************************************)
LEMMA OctetsEnd ==
    ASSUME DInv, pc = "octets", i >= length_octets
    PROVE  /\ Field.octets = 1 + length_octets /\ idx = start + 1 + Field.octets
           /\ idx <= parent_end
           /\ Field.value \in Nat /\ SameLength(Field.value, length)
           /\ Field.form = IF ShortFormDue THEN "padded" ELSE "ok"
  <1>1. TypeOK /\ start \in Nat /\ start + 1 < parent_end /\ length \in Nat /\ i = length_octets
        /\ Half \in Nat
    <2>1. TypeOK /\ OctetsAhead
      BY DEF DInv, IInv
    <2>2. start \in Nat /\ length \in Nat /\ i \in Nat /\ length_octets \in Nat
      BY <2>1, Arguments, HalfIsSmaller, DerAssumption DEF TypeOK
    <2>3. start + 1 < parent_end
      BY DEF DInv, Decoded
    <2>4. i = length_octets
      BY <2>1, <2>2 DEF OctetsAhead
    <2> QED  BY <2>1, <2>2, <2>3, <2>4, HalfIsSmaller
  <1>2. /\ length_octets \in Nat /\ length_octets > 0 /\ length_octets <= MaxOctets
        /\ start + 2 + length_octets <= parent_end /\ start + 1 + length_octets < Size
        /\ Value[length_octets] \in Nat
    BY OctetFacts
  <1>3. /\ raw_cert[start + 1] # DER_LENGTH_RESERVED /\ raw_cert[start + 1] = Half + length_octets
        /\ raw_cert[start + 2] # 0 /\ idx = start + 2 + length_octets
        /\ SameLength(Value[length_octets], length)
    <2>1. raw_cert[start + 1] \in Nat
      BY <1>1, Arguments
    <2> QED  BY <1>1, <1>2, <2>1 DEF DInv, Decoded
  <1>4. MaxOctets \in Nat
    BY DerAssumption
  <1>5. Field = [form |-> IF Value[length_octets] < Half THEN "padded" ELSE "ok",
                 octets |-> 1 + length_octets, value |-> Value[length_octets]]
    BY <1>1, <1>2, <1>3, <1>4, LongField DEF Value
  <1>6. Value[length_octets] < Half <=> ShortFormDue
    BY <1>1, <1>2, <1>3, SameTests DEF ShortFormDue
  <1> QED  BY <1>1, <1>2, <1>3, <1>5, <1>6

LEMMA DecodedNext == DInv /\ [Next]_vars => Decoded'
  <1> SUFFICES ASSUME DInv, [Next]_vars PROVE Decoded'
    OBVIOUS
  <1>0. TypeOK /\ OctetsAhead /\ start \in Nat /\ parent_end \in Nat /\ idx \in Nat /\ i \in Nat
        /\ length_octets \in Nat /\ length \in Nat /\ Half \in Nat /\ MaxOctets \in Nat
    BY Arguments, HalfIsSmaller, DerAssumption DEF DInv, IInv, TypeOK
  <1>1. CASE Identifier
    <2>1. CASE idx >= parent_end
      BY <1>0, <1>1, <2>1, FailDecoded DEF Identifier
    <2>2. CASE idx < parent_end
      BY <1>0, <1>1, <2>2 DEF Identifier, Goto, args, DInv, Decoded
    <2> QED  BY <1>0, <2>1, <2>2
  <1>2. CASE LengthByte
    <2>1. CASE idx >= parent_end \/ Disallowed(raw_cert[idx])
      BY <1>0, <1>2, <2>1, FailDecoded DEF LengthByte
    <2>2. CASE idx < parent_end /\ ~Disallowed(raw_cert[idx])
      <3>1. /\ idx' = idx + 1 /\ UNCHANGED <<raw_cert, start, parent_end, identifier, i>>
            /\ idx = start + 1 /\ pc = "length" /\ length = 0 /\ i = 0
            /\ identifier = raw_cert[start] /\ start + 1 < parent_end
        BY <1>0, <1>2, <2>2 DEF LengthByte, Goto, args, DInv, Decoded, OctetsAhead
      <3>2. raw_cert[start + 1] \in Nat /\ raw_cert[start + 1] # Half
            /\ raw_cert[start + 1] # DER_LENGTH_RESERVED
        BY <1>0, <2>2, <3>1, Arguments DEF Disallowed
      <3>3. CASE raw_cert[idx] >= Half
        <4>1. /\ pc' = "long_form" /\ length_octets' = raw_cert[start + 1] - Half
              /\ length' = 0
          BY <1>0, <1>2, <2>2, <3>1, <3>3 DEF LengthByte, Goto
        <4>2. raw_cert[start + 1] > Half /\ idx' = start + 2
          BY <1>0, <3>1, <3>2, <3>3
        <4> QED  BY <3>1, <3>2, <4>1, <4>2 DEF Decoded
      <3>4. CASE ~(raw_cert[idx] >= Half)
        <4>1. pc' = "content" /\ length' = raw_cert[start + 1]
          BY <1>0, <1>2, <2>2, <3>1, <3>4 DEF LengthByte, Goto
        <4>2. Field = [form |-> "ok", octets |-> 1, value |-> raw_cert[start + 1]]
          BY <1>0, <3>1, <3>2, <3>4, ShortField
        <4>3. Field' = Field
          BY <3>1 DEF Field
        <4>4. /\ Field'.form = "ok" /\ idx' = start' + 1 + Field'.octets
              /\ Field'.value \in Nat /\ SameLength(Field'.value, length')
          BY <1>0, <3>1, <3>2, <4>1, <4>2, <4>3 DEF SameLength
        <4> QED  BY <3>1, <4>1, <4>4 DEF Decoded, SameLength
      <3> QED  BY <3>3, <3>4
    <2> QED  BY <1>0, <2>1, <2>2
  <1>3. CASE LongForm
    <2> DEFINE Readable == /\ idx + length_octets <= parent_end /\ raw_cert[idx] # 0
                           /\ length_octets <= MaxOctets
    <2>1. CASE ~Readable
      BY <1>0, <1>3, <2>1, FailDecoded DEF LongForm
    <2>2. CASE Readable
      <3>1. /\ pc = "long_form" /\ pc' = "octets"
            /\ UNCHANGED <<raw_cert, start, parent_end, idx, identifier, length_octets, i, length>>
        BY <1>0, <1>3, <2>2 DEF LongForm, Goto, args, locals
      <3>2. i = 0 /\ length = 0 /\ idx = start + 2 /\ start + 1 < parent_end
            /\ raw_cert[start + 1] > Half /\ length_octets = raw_cert[start + 1] - Half
        BY <1>0, <3>1 DEF DInv, Decoded, OctetsAhead
      <3>3. /\ raw_cert \in [0 .. Size - 1 -> 0 .. Base - 1] /\ start + 1 \in Nat
            /\ start + 1 + length_octets < Size
        BY <1>0, <2>2, <3>2, Arguments
      <3>4. Value[0] = 0
        BY <1>0, <3>3, LengthValuesDef DEF Value
      <3>5. length < Capacity[i]
        BY <3>2, CapacityDef
      <3>6. Value' = Value
        BY <3>1 DEF Value
      <3>7. SameLength(Value'[i'], length')
        BY <3>1, <3>2, <3>4, <3>6 DEF SameLength
      <3>8. idx' = start' + 2 + i' /\ raw_cert'[start' + 2] # 0 /\ length' < Capacity[i']
        BY <1>0, <2>2, <3>1, <3>2, <3>5
      <3> QED  BY <3>1, <3>7, <3>8 DEF DInv, Decoded, SameLength
    <2> QED  BY <2>1, <2>2
  <1>4. CASE Octet
    BY <1>4, OctetDecoded
  <1>5. CASE LongFormEnds
    <2>1. CASE ShortFormDue
      BY <1>5, <2>1, FailDecoded DEF LongFormEnds
    <2>2. CASE ~ShortFormDue
      <3>1. /\ pc = "octets" /\ i >= length_octets /\ pc' = "content"
            /\ UNCHANGED <<raw_cert, start, parent_end, idx, identifier, length>>
        BY <1>5, <2>2 DEF LongFormEnds, Goto, args, locals
      <3>2. Field' = Field
        BY <3>1 DEF Field
      <3>3. /\ Field'.form = "ok" /\ idx' = start' + 1 + Field'.octets
            /\ Field'.value \in Nat /\ SameLength(Field'.value, length')
        BY <2>2, <3>1, <3>2, OctetsEnd
      <3> QED  BY <3>1, <3>3 DEF DInv, Decoded, SameLength
    <2> QED  BY <2>1, <2>2
  <1>6. CASE Content
    BY <1>6 DEF Content, Fail, Return, Decoded
  <1>7. CASE UNCHANGED vars
    BY <1>7 DEF vars, args, locals, DInv, Decoded, Field, Value, SameLength
  <1> QED  BY <1>1, <1>2, <1>3, <1>4, <1>5, <1>6, <1>7 DEF Next

(***************************************************************************)
(* A step that returns is the step of Element if what it returns is the    *)
(* answer; every other step leaves call and answer as they are.            *)
(***************************************************************************)
LEMMA FailsAsElement ==
    ASSUME code = "none", NEW c \in Failures, Fail(c), Answer = [code |-> c]
    PROVE  Abstract!Parse
  <1>1. c # "PARSE_OK" /\ code' = c /\ UNCHANGED <<raw_cert, start, parent_end>>
    BY DEF Failures, Fail, Return, args
  <1> QED  BY <1>1 DEF Abstract!Parse, Answer

LEMMA GotoStutters ==
    ASSUME code = "none", NEW next, Goto(next)
    PROVE  UNCHANGED Abstract!vars
  <1>1. code' = "none" /\ UNCHANGED <<raw_cert, start, parent_end>>
    BY DEF Goto, args
  <1> QED  BY <1>1 DEF Abstract!vars

LEMMA LongFormAnswer ==
    ASSUME DInv, pc = "long_form"
    PROVE  LET n == length_octets
           IN  /\ idx + n > parent_end => Answer = [code |-> "UNEXPECTED_END_OF_DATA"]
               /\ idx + n <= parent_end /\ raw_cert[idx] = 0 =>
                        Answer = [code |-> "INVALID_LENGTH_FORM"]
               /\ idx + n <= parent_end /\ raw_cert[idx] # 0 /\ n > MaxOctets =>
                        Answer = [code |-> "UNEXPECTED_END_OF_DATA"]
  <1>1. /\ TypeOK /\ start \in Nat /\ parent_end \in Nat /\ parent_end <= Size /\ Size \in Nat
        /\ start + 1 < parent_end /\ Half \in Nat /\ raw_cert[start + 1] \in Nat
        /\ idx = start + 2 /\ raw_cert[start + 1] # DER_LENGTH_RESERVED
        /\ raw_cert[start + 1] > Half /\ length_octets = raw_cert[start + 1] - Half
        /\ MaxOctets \in Nat
    BY Arguments, HalfIsSmaller DEF DInv, IInv, Decoded
  <1> DEFINE n == length_octets
             value == Abstract!LengthValues(Base, raw_cert, Size, start + 1, n)[n]
  <1>2. n \in Nat /\ n > 0 /\ raw_cert[start + 1] = Half + n
    BY <1>1
  <1> HIDE DEF n, value
  <1>3. CASE start + 1 + n >= Size
    <2>1. Field = [form |-> "ok", octets |-> 1 + n, value |-> 0]
      BY <1>1, <1>2, <1>3, FieldBeyond
    <2>2. start + 1 + Field.octets > parent_end /\ idx + n > parent_end
      BY <1>1, <1>2, <1>3, <2>1
    <2>3. Answer = [code |-> "UNEXPECTED_END_OF_DATA"]
      BY <1>1, <2>1, <2>2, AnswerByField
    <2> QED  BY <1>1, <1>2, <2>2, <2>3 DEF n
  <1>4. CASE ~(start + 1 + n >= Size)
    <2>1. start + 1 + n < Size
      BY <1>1, <1>2, <1>4
    <2>2. Field = [form |-> IF raw_cert[start + 2] = 0 THEN "padded"
                            ELSE IF n > MaxOctets THEN "huge"
                            ELSE IF value < Half THEN "padded" ELSE "ok",
                   octets |-> 1 + n, value |-> value]
      BY <1>1, <1>2, <2>1, LongField DEF value
    <2>3. start + 1 + Field.octets = idx + n
      BY <1>1, <1>2, <2>2
    <2>4. ASSUME idx + n > parent_end PROVE Answer = [code |-> "UNEXPECTED_END_OF_DATA"]
      <3>1. Field.form # "reserved"
        BY <2>2
      <3> QED  BY <1>1, <2>3, <2>4, <3>1, AnswerByField
    <2>5. ASSUME idx + n <= parent_end, raw_cert[idx] = 0
          PROVE  Answer = [code |-> "INVALID_LENGTH_FORM"]
      <3>1. Field.form = "padded" /\ ~(idx + n > parent_end)
        BY <1>1, <1>2, <2>2, <2>5
      <3> QED  BY <1>1, <2>3, <3>1, AnswerByField
    <2>6. ASSUME idx + n <= parent_end, raw_cert[idx] # 0, n > MaxOctets
          PROVE  Answer = [code |-> "UNEXPECTED_END_OF_DATA"]
      <3>1. Field.form = "huge" /\ ~(idx + n > parent_end)
        BY <1>1, <1>2, <2>2, <2>6
      <3> QED  BY <1>1, <2>3, <3>1, AnswerByField
    <2> QED  BY <2>4, <2>5, <2>6 DEF n
  <1> QED  BY <1>3, <1>4

LEMMA StepRefines == DInv /\ [Next]_vars => [Abstract!Parse]_(Abstract!vars)
  <1> SUFFICES ASSUME DInv, [Next]_vars PROVE [Abstract!Parse]_(Abstract!vars)
    OBVIOUS
  <1>0. /\ TypeOK /\ OctetsAhead /\ start \in Nat /\ parent_end \in Nat /\ idx \in Nat
        /\ length_octets \in Nat /\ length \in Nat /\ Half \in Nat /\ MaxOctets \in Nat
        /\ parent_end <= Size /\ Size \in Nat
    BY Arguments, HalfIsSmaller, DerAssumption DEF DInv, IInv, TypeOK
  <1>f. "UNEXPECTED_END_OF_DATA" \in Failures /\ "INVALID_LENGTH_FORM" \in Failures
    BY DEF Failures
  <1>1. CASE Identifier
    <2>1. pc = "identifier" /\ code = "none" /\ idx = start
      BY <1>0, <1>1 DEF Identifier, OctetsAhead, DInv, Decoded
    <2>2. CASE idx >= parent_end
      <3>1. Answer = [code |-> "UNEXPECTED_END_OF_DATA"]
        BY <1>0, <2>1, <2>2, NoLengthByte
      <3> QED  BY <1>0, <1>1, <1>f, <2>1, <2>2, <3>1, FailsAsElement DEF Identifier
    <2>3. CASE ~(idx >= parent_end)
      BY <1>0, <1>1, <2>1, <2>3, GotoStutters DEF Identifier
    <2> QED  BY <2>2, <2>3
  <1>2. CASE LengthByte
    <2>1. pc = "length" /\ code = "none" /\ idx = start + 1
      BY <1>0, <1>2 DEF LengthByte, OctetsAhead, DInv, Decoded
    <2>2. CASE idx >= parent_end
      <3>1. Answer = [code |-> "UNEXPECTED_END_OF_DATA"]
        BY <1>0, <2>1, <2>2, NoLengthByte
      <3>2. Fail("UNEXPECTED_END_OF_DATA")
        BY <1>0, <1>2, <2>2 DEF LengthByte
      <3> QED  BY <1>f, <2>1, <3>1, <3>2, FailsAsElement
    <2>3. CASE idx < parent_end /\ Disallowed(raw_cert[idx])
      <3>1. Field.form = "reserved"
        BY <1>0, <2>1, <2>3, ReservedField
      <3>2. Answer = [code |-> "INVALID_LENGTH_FORM"]
        BY <1>0, <2>1, <2>3, <3>1, AnswerByField
      <3>3. Fail("INVALID_LENGTH_FORM")
        BY <1>0, <1>2, <2>3 DEF LengthByte
      <3> QED  BY <1>f, <2>1, <3>2, <3>3, FailsAsElement
    <2>4. CASE idx < parent_end /\ ~Disallowed(raw_cert[idx])
      BY <1>0, <1>2, <2>1, <2>4, GotoStutters DEF LengthByte
    <2> QED  BY <1>0, <2>2, <2>3, <2>4
  <1>3. CASE LongForm
    <2>1. pc = "long_form" /\ code = "none"
      BY <1>0, <1>3 DEF LongForm, OctetsAhead
    <2>2. CASE idx + length_octets > parent_end
      BY <1>0, <1>3, <1>f, <2>1, <2>2, LongFormAnswer, FailsAsElement DEF LongForm
    <2>3. CASE ~(idx + length_octets > parent_end) /\ raw_cert[idx] = 0
      BY <1>0, <1>3, <1>f, <2>1, <2>3, LongFormAnswer, FailsAsElement DEF LongForm
    <2>4. CASE /\ ~(idx + length_octets > parent_end) /\ raw_cert[idx] # 0
               /\ length_octets > MaxOctets
      BY <1>0, <1>3, <1>f, <2>1, <2>4, LongFormAnswer, FailsAsElement DEF LongForm
    <2>5. CASE /\ ~(idx + length_octets > parent_end) /\ raw_cert[idx] # 0
               /\ ~(length_octets > MaxOctets)
      BY <1>0, <1>3, <2>1, <2>5, GotoStutters DEF LongForm
    <2> QED  BY <2>2, <2>3, <2>4, <2>5
  <1>4. CASE Octet
    BY <1>0, <1>4, GotoStutters DEF Octet, OctetsAhead
  <1>5. CASE LongFormEnds
    <2>1. pc = "octets" /\ code = "none" /\ i >= length_octets
      BY <1>0, <1>5 DEF LongFormEnds, OctetsAhead
    <2>2. CASE ShortFormDue
      <3>1. Field.form = "padded" /\ ~(start + 1 + Field.octets > parent_end)
        BY <1>0, <2>1, <2>2, OctetsEnd
      <3>2. Answer = [code |-> "INVALID_LENGTH_FORM"]
        BY <1>0, <2>1, <3>1, AnswerByField DEF DInv, Decoded
      <3> QED  BY <1>5, <1>f, <2>1, <2>2, <3>2, FailsAsElement DEF LongFormEnds
    <2>3. CASE ~ShortFormDue
      BY <1>5, <2>1, <2>3, GotoStutters DEF LongFormEnds
    <2> QED  BY <2>2, <2>3
  <1>6. CASE Content
    <2>1. /\ pc = "content" /\ code = "none" /\ start + 1 < parent_end
          /\ identifier = raw_cert[start]
          /\ Field.form = "ok" /\ idx = start + 1 + Field.octets
          /\ Field.value \in Nat /\ SameLength(Field.value, length)
          /\ idx <= parent_end
      BY <1>0, <1>6 DEF Content, OctetsAhead, DInv, Decoded
    <2>2. parent_end - idx \in Nat /\ parent_end - idx <= Size
          /\ ~(start + 1 + Field.octets > parent_end)
      BY <1>0, <2>1
    <2>3. (parent_end - idx) % Word = parent_end - idx
      BY <1>0, <2>2, NoWrap, DerAssumption
    <2>4. Field.value <= parent_end - idx <=> ~TooLong
      <3>1. TooLong <=> length > parent_end - idx
        BY <2>3 DEF TooLong
      <3>2. Field.value <= parent_end - idx <=> length <= parent_end - idx
        BY <1>0, <2>1, <2>2, SameTests
      <3> QED  BY <1>0, <2>2, <3>1, <3>2
    <2>5. CASE TooLong
      <3>1. Answer = [code |-> "UNEXPECTED_END_OF_DATA"]
        BY <1>0, <2>1, <2>2, <2>4, <2>5, AnswerByField
      <3> QED  BY <1>6, <1>f, <2>1, <2>5, <3>1, FailsAsElement DEF Content
    <2>6. CASE ~TooLong
      <3>1. Answer = [code |-> "PARSE_OK", idx |-> idx, end |-> idx + Field.value,
                      identifier |-> identifier]
        BY <1>0, <2>1, <2>2, <2>4, <2>6, AnswerByField
      <3>2. length = Field.value /\ length <= parent_end - idx
        BY <1>0, <2>1, <2>2, <2>4, <2>6, SameTests
      <3>3. (idx + length) % Word = idx + length
        <4>1. idx + length \in Nat /\ idx + length < Word /\ Word \in Nat
          BY <1>0, <3>2, DerAssumption
        <4> QED  BY <4>1, NoWrap
      <3>4. /\ content_end' = idx + length /\ code' = "PARSE_OK"
            /\ UNCHANGED <<idx, identifier, raw_cert, start, parent_end>>
        BY <1>6, <2>6, <3>3 DEF Content, Return, args
      <3> QED  BY <2>1, <3>1, <3>2, <3>4 DEF Abstract!Parse, Answer
    <2> QED  BY <2>5, <2>6
  <1>7. CASE UNCHANGED vars
    BY <1>7 DEF vars, args, locals, Abstract!vars
  <1> QED  BY <1>1, <1>2, <1>3, <1>4, <1>5, <1>6, <1>7 DEF Next

(***************************************************************************)
(* Octet by octet, parse_any computes the answer that the length field as  *)
(* a whole calls for (x509.c:41-75), for files of every size and content   *)
(* and for bytes and lengths of every width: the refinement that lets X509 *)
(* read an element in one step.                                            *)
(***************************************************************************)
THEOREM Refinement == Spec => ImplementsElement
  <1>1. Init => Abstract!Init
    BY DEF Init, Abstract!Init
  <1>2. Init => DInv
    BY InitInv, DecodedInit DEF DInv
  <1>3. DInv /\ [Next]_vars => DInv'
    BY NextInv, DecodedNext DEF DInv
  <1> QED
    BY <1>1, <1>2, <1>3, StepRefines, PTL DEF Spec, ImplementsElement, Abstract!Spec

-----------------------------------------------------------------------------
(* The files that X509 is about. *)

LEMMA FieldOfFile ==
    ASSUME NEW raw \in [0 .. Size - 1 -> 0 .. Base - 1], NEW j \in 0 .. Size - 1
    PROVE  Abstract!LengthFieldAt(Base, MaxOctets, raw, Size, j) \in Abstract!LengthField
  <1> DEFINE n == raw[j] - Half
             value == Abstract!LengthValues(Base, raw, Size, j, n)[n]
             field == Abstract!LengthFieldAt(Base, MaxOctets, raw, Size, j)
  <1>0. /\ raw[j] \in Nat /\ j \in Nat /\ Size \in Nat /\ Half \in Nat /\ Half > 1
        /\ Half = Base \div 2 /\ Half < Base /\ Base \in Nat
    BY HalfIsSmaller, DerAssumption DEF Half
  <1>1. CASE raw[j] < Half
    <2>1. field = [form |-> "ok", octets |-> 1, value |-> raw[j]]
      BY <1>0, <1>1 DEF Abstract!LengthFieldAt
    <2> QED  BY <1>0, <2>1 DEF Abstract!LengthField
  <1>2. CASE raw[j] \in {Half, Base - 1} /\ ~(raw[j] < Half)
    <2>1. field = [form |-> "reserved", octets |-> 1, value |-> 0]
      BY <1>0, <1>2 DEF Abstract!LengthFieldAt
    <2> QED  BY <2>1 DEF Abstract!LengthField
  <1>3. CASE raw[j] \notin {Half, Base - 1} /\ ~(raw[j] < Half)
    <2>1. n \in Nat /\ n > 0
      BY <1>0, <1>3
    <2>2. CASE j + n >= Size
      <3>1. field = [form |-> "ok", octets |-> 1 + n, value |-> 0]
        BY <1>0, <1>3, <2>1, <2>2 DEF Abstract!LengthFieldAt
      <3> HIDE DEF n
      <3> QED  BY <2>1, <3>1 DEF Abstract!LengthField
    <2>3. CASE ~(j + n >= Size)
      <3>1. field = [form |-> IF raw[j + 1] = 0 THEN "padded"
                              ELSE IF n > MaxOctets THEN "huge"
                              ELSE IF value < Half THEN "padded" ELSE "ok",
                     octets |-> 1 + n, value |-> value]
        BY <1>0, <1>3, <2>1, <2>3 DEF Abstract!LengthFieldAt
      <3>2. value \in Nat
        <4>1. j + n < Size
          BY <1>0, <2>1, <2>3
        <4> HIDE DEF n
        <4>2. Abstract!LengthValues(Base, raw, Size, j, n) \in [0 .. n -> Nat]
          BY <1>0, <2>1, <4>1, LengthValuesDef
        <4> QED  BY <2>1, <4>2
      <3> HIDE DEF n, value
      <3> QED  BY <2>1, <3>1, <3>2 DEF Abstract!LengthField
    <2> QED  BY <2>2, <2>3
  <1> QED  BY <1>1, <1>2, <1>3

(***************************************************************************)
(* For bytes of eight bits, the length fields that parse_any finds in a    *)
(* file that is not empty (read_cert.c:31) make it a file in the sense of  *)
(* X509: what X509 assumes of its certificates excludes no file, so its    *)
(* theorems are about all of them.                                         *)
(***************************************************************************)
THEOREM EveryFileIsOne ==
    Base = 256 /\ Size > 0 =>
        \A raw \in Raws : Abstract!IsFile(Abstract!FileOf(Base, MaxOctets, raw, Size))
  <1> SUFFICES ASSUME Base = 256, Size > 0, NEW raw \in Raws
               PROVE  Abstract!IsFile(Abstract!FileOf(Base, MaxOctets, raw, Size))
    OBVIOUS
  <1>1. raw \in [0 .. Size - 1 -> 0 .. Base - 1] /\ Size \in Nat \ {0} /\ Base - 1 = 255
    BY DerAssumption
  <1>2. \A j \in 0 .. Size - 1 :
            Abstract!LengthFieldAt(Base, MaxOctets, raw, Size, j) \in Abstract!LengthField
    BY <1>1, FieldOfFile
  <1> DEFINE f == Abstract!FileOf(Base, MaxOctets, raw, Size)
  <1>3. /\ f.size = Size /\ f.byte = raw
        /\ f.length = [j \in 0 .. Size - 1 |->
                          Abstract!LengthFieldAt(Base, MaxOctets, raw, Size, j)]
    BY DEF Abstract!FileOf
  <1>4. f.length \in [0 .. Size - 1 -> Abstract!LengthField]
    BY <1>2, <1>3
  <1> HIDE DEF f
  <1>5. Abstract!IsFile(f)
    BY <1>1, <1>3, <1>4 DEF Abstract!IsFile, Abstract!Byte
  <1> QED  BY <1>5 DEF f

=============================================================================
