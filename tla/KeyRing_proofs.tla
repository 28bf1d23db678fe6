--------------------------- MODULE KeyRing_proofs ---------------------------
(***************************************************************************)
(* Proofs about the key loop, for any number of certificates, any expiry   *)
(* dates, any clock and any received buffers.                              *)
(***************************************************************************)
EXTENDS KeyRing, FiniteSetTheorems, TLAPS

(***************************************************************************)
(* No pass gives up before every key that was live at its start has been   *)
(* tried: part of what KeyAuth promises.                                   *)
(***************************************************************************)
PassComplete ==
    pass.verdict \in {"miss", "expired"} =>
        \A k \in Live(bound) : ~Accepts(k, pass.buf, pass.now)

Exp(j) == Expired(keys[j], pass.now)

(***************************************************************************)
(* The live keys the pass finds expired, and how many keys have not.       *)
(***************************************************************************)
Stale == Gone(Live(bound), pass.now)

Sound == bound - Cardinality(Stale)

(***************************************************************************)
(* The inductive invariant.  PassComplete alone is not inductive: a        *)
(* removal may swap a key that was not tried yet behind i, or bring one    *)
(* already removed back in front of it.  What makes the loop try every key *)
(* is that every position behind i is settled (Tried), and that every      *)
(* position beyond both keys_size and i holds an expired key (Dropped).    *)
(*                                                                         *)
(* What the pass costs follows from the two phases of the loop.  While i   *)
(* is within keys_size it sorts the expired keys behind keys_size (Sweep). *)
(* Beyond, it meets each of them again and swaps it with a sound key, so   *)
(* keys_size goes down as i goes up, and their sum stays at twice the      *)
(* number of sound keys, one less between a swap and the next key (Meets). *)
(***************************************************************************)
Bounds ==
    Scanning => keys_size <= bound /\ i <= bound

Tried ==
    Scanning => \A j \in 0 .. i - 1 : ~Accepts(keys[j], pass.buf, pass.now)

Dropped ==
    Scanning => \A j \in i + 1 .. bound - 1 : j >= keys_size => Exp(j)

Sweep ==
    Scanning /\ i <= keys_size =>
        /\ \A j \in 0 .. i - 1 : ~Exp(j)
        /\ \A j \in keys_size .. bound - 1 : Exp(j)

Meets ==
    Scanning /\ i >= keys_size =>
        /\ keys_size <= Sound /\ Sound <= i
        /\ \/ i + keys_size = 2 * Sound
           \/ i + keys_size = 2 * Sound - 1 /\ i < bound
        /\ \A j \in 0 .. bound - 1 :
              Exp(j) <=> \/ keys_size <= j /\ j < Sound
                         \/ j > i
                         \/ j = i /\ i + keys_size = 2 * Sound

PassType ==
    pass = Pass(pass.verdict, pass.key, pass.buf, pass.now)

Inv ==
    /\ TypeOK /\ PassType /\ Bounds /\ Tried /\ Dropped
    /\ Sweep /\ Meets /\ PassComplete

-----------------------------------------------------------------------------

LEMMA NKeysType == NKeys \in Nat /\ NKeys >= 1
  <1>1. NKeys \in Nat
    BY PubKeysAssumption, FS_CardinalityType DEF NKeys
  <1>2. NKeys # 0
    BY PubKeysAssumption, FS_EmptySet DEF NKeys
  <1> QED
    BY <1>1, <1>2

LEMMA BijectionType ==
    keys \in Bijection(Slots, Certs) <=>
        /\ keys \in [Slots -> Certs]
        /\ \A a, b \in Slots : keys[a] = keys[b] => a = b
        /\ \A k \in Certs : \E a \in Slots : keys[a] = k
  BY DEF Bijection, Injection, Surjection, IsInjective

LEMMA SwapType ==
    ASSUME keys \in Bijection(Slots, Certs), NEW a \in Slots, NEW b \in Slots
    PROVE  /\ Swapped(keys, a, b) \in Bijection(Slots, Certs)
           /\ \A j \in Slots : Swapped(keys, a, b)[j] =
                 IF j = b THEN keys[a] ELSE IF j = a THEN keys[b] ELSE keys[j]
  <1> DEFINE f == Swapped(keys, a, b)
  <1>1. /\ keys \in [Slots -> Certs]
        /\ \A x, y \in Slots : keys[x] = keys[y] => x = y
        /\ \A k \in Certs : \E x \in Slots : keys[x] = k
    BY BijectionType
  <1>2. f \in [Slots -> Certs]
    BY <1>1 DEF Swapped
  <1>3. \A j \in Slots : f[j] = IF j = b THEN keys[a] ELSE IF j = a THEN keys[b] ELSE keys[j]
    BY <1>1 DEF Swapped
  <1>4. \A x, y \in Slots : f[x] = f[y] => x = y
    BY <1>1, <1>3
  <1>5. \A k \in Certs : \E x \in Slots : f[x] = k
    <2> TAKE k \in Certs
    <2>1. PICK x \in Slots : keys[x] = k
      BY <1>1
    <2>2. CASE x = a
      BY <2>1, <2>2, <1>3
    <2>3. CASE x = b
      <3>1. f[a] = k
        BY <2>1, <2>3, <1>3
      <3> QED
        BY <3>1
    <2>4. CASE x # a /\ x # b
      BY <2>1, <2>4, <1>3
    <2> QED
      BY <2>2, <2>3, <2>4
  <1>6. f \in Bijection(Slots, Certs)
    BY <1>2, <1>4, <1>5 DEF Bijection, Injection, Surjection, IsInjective
  <1> QED
    BY <1>3, <1>6

(***************************************************************************)
(* A swap inside the loop's range leaves the set of keys there unchanged.  *)
(***************************************************************************)
LEMMA SwapLive ==
    ASSUME keys \in Bijection(Slots, Certs), bound \in 0 .. NKeys, bound' = bound,
           NEW a \in 0 .. bound - 1, NEW b \in 0 .. bound - 1,
           keys' = Swapped(keys, a, b)
    PROVE  Live(bound)' = Live(bound)
  <1> USE NKeysType
  <1>1. a \in Slots /\ b \in Slots /\ \A j \in 0 .. bound - 1 : j \in Slots
    BY DEF Slots
  <1>2. \A j \in 0 .. bound - 1 : keys'[j] =
            IF j = b THEN keys[a] ELSE IF j = a THEN keys[b] ELSE keys[j]
    BY <1>1, SwapType
  <1>3. Live(bound)' \subseteq Live(bound)
    BY <1>2 DEF Live
  <1>4. ASSUME NEW j \in 0 .. bound - 1 PROVE keys[j] \in Live(bound)'
    <2>1. CASE j = a
      <3>1. keys'[b] = keys[j]
        BY <1>2, <2>1
      <3> QED
        BY <3>1 DEF Live
    <2>2. CASE j = b
      <3>1. keys'[a] = keys[j]
        BY <1>2, <2>2
      <3> QED
        BY <3>1 DEF Live
    <2>3. CASE j # a /\ j # b
      BY <1>2, <2>3 DEF Live
    <2> QED
      BY <2>1, <2>2, <2>3
  <1> QED
    BY <1>3, <1>4 DEF Live

(***************************************************************************)
(* A stretch of the array holds as many keys as it has positions.          *)
(***************************************************************************)
LEMMA StretchSize ==
    ASSUME keys \in Bijection(Slots, Certs),
           NEW a \in 0 .. NKeys, NEW b \in 0 .. NKeys, a <= b
    PROVE  LET S == {keys[j] : j \in a .. b - 1}
           IN  IsFiniteSet(S) /\ Cardinality(S) = b - a
  <1> USE NKeysType
  <1> DEFINE D == a .. b - 1
             S == {keys[j] : j \in D}
             f == [j \in D |-> keys[j]]
  <1>1. /\ \A j \in D : j \in Slots
        /\ \A x, y \in Slots : keys[x] = keys[y] => x = y
    BY BijectionType DEF Slots
  <1>2. f \in Bijection(D, S)
    BY <1>1 DEF Bijection, Injection, Surjection, IsInjective
  <1>3. ExistsBijection(D, S)
    BY <1>2 DEF ExistsBijection
  <1>4. IsFiniteSet(D) /\ Cardinality(D) = b - a
    <2>1. a \in Int /\ b - 1 \in Int
      OBVIOUS
    <2>2. /\ IsFiniteSet(a .. b - 1)
          /\ Cardinality(a .. b - 1) = IF a > b - 1 THEN 0 ELSE (b - 1) - a + 1
      BY <2>1, FS_Interval, Zenon
    <2> QED
      BY <2>1, <2>2
  <1> HIDE DEF D, S
  <1>5. IsFiniteSet(S) /\ Cardinality(S) = b - a
    BY <1>3, <1>4, FS_Bijection
  <1> QED
    BY <1>5 DEF S, D

LEMMA LiveSize ==
    ASSUME keys \in Bijection(Slots, Certs), NEW n \in 0 .. NKeys
    PROVE  IsFiniteSet(Live(n)) /\ Cardinality(Live(n)) = n
  BY NKeysType, StretchSize, 0 <= n DEF Live

(***************************************************************************)
(* Stale, and with it Sound, counts positions of the loop's range.         *)
(***************************************************************************)
LEMMA GoneType ==
    ASSUME keys \in Bijection(Slots, Certs), bound \in 0 .. NKeys
    PROVE  /\ IsFiniteSet(Stale) /\ Cardinality(Stale) \in 0 .. bound
           /\ IsFiniteSet(Live(bound)) /\ Cardinality(Live(bound)) = bound
           /\ Sound \in 0 .. bound
  <1> USE NKeysType
  <1>1. IsFiniteSet(Live(bound)) /\ Cardinality(Live(bound)) = bound
    BY LiveSize
  <1>2. Stale \subseteq Live(bound)
    BY DEF Stale, Gone
  <1>3. IsFiniteSet(Stale) /\ Cardinality(Stale) <= bound /\ Cardinality(Stale) \in Nat
    BY <1>1, <1>2, FS_Subset, FS_CardinalityType
  <1> QED
    BY <1>1, <1>3 DEF Sound

(***************************************************************************)
(* When the expired keys are those from n on, they are bound - n.          *)
(***************************************************************************)
LEMMA GoneIsTail ==
    ASSUME keys \in Bijection(Slots, Certs), bound \in 0 .. NKeys,
           NEW n \in 0 .. bound,
           \A j \in 0 .. bound - 1 : Exp(j) <=> j >= n
    PROVE  Sound = n
  <1> USE NKeysType
  <1>1. Stale = {keys[j] : j \in n .. bound - 1}
    BY DEF Stale, Gone, Live, Exp
  <1>2. n \in 0 .. NKeys /\ n <= bound
    OBVIOUS
  <1>3. Cardinality(Stale) = bound - n
    BY <1>1, <1>2, StretchSize
  <1> QED
    BY <1>3 DEF Sound

(***************************************************************************)
(* When the keys from n on have expired, and perhaps others, they are at   *)
(* least bound - n.                                                        *)
(***************************************************************************)
LEMMA GoneHasTail ==
    ASSUME keys \in Bijection(Slots, Certs), bound \in 0 .. NKeys,
           NEW n \in 0 .. bound,
           \A j \in n .. bound - 1 : Exp(j)
    PROVE  Sound <= n
  <1> USE NKeysType
  <1> DEFINE T == {keys[j] : j \in n .. bound - 1}
  <1>1. IsFiniteSet(T) /\ Cardinality(T) = bound - n
    BY StretchSize
  <1>2. T \subseteq Stale
    BY DEF Stale, Gone, Live, Exp
  <1> HIDE DEF T
  <1>3. Cardinality(T) <= Cardinality(Stale)
    BY <1>2, GoneType, FS_Subset
  <1> QED
    BY <1>1, <1>3, GoneType DEF Sound

-----------------------------------------------------------------------------

(***************************************************************************)
(* The initial states satisfy the invariant.                               *)
(***************************************************************************)
LEMMA InitInv == Init => Inv
  <1> SUFFICES ASSUME Init PROVE Inv
    OBVIOUS
  <1>1. pass.verdict = "none" /\ PassType
    BY DEF Init, NoPass, Pass, PassType
  <1>2. TypeOK
    BY <1>1, NKeysType DEF Init, TypeOK
  <1> QED
    BY <1>1, <1>2 DEF Inv, Bounds, Tried, Dropped, Sweep, Meets, PassComplete, Scanning

(***************************************************************************)
(* Every step of the loop preserves the invariant.                         *)
(***************************************************************************)
LEMMA NextInv == Inv /\ [Next]_vars => Inv'
  <1> SUFFICES ASSUME Inv, [Next]_vars PROVE Inv'
    OBVIOUS
  <1> USE NKeysType
  <1>1. /\ keys \in Bijection(Slots, Certs)
        /\ keys \in [Slots -> Certs]
        /\ keys_size \in 1 .. NKeys
        /\ i \in 0 .. NKeys
        /\ bound \in 0 .. NKeys
    BY BijectionType DEF Inv, TypeOK
  <1>2. ASSUME NEW buf \in Inputs, NEW now \in Times, BeginPass(buf, now)
        PROVE  Inv'
    <2>1. /\ keys' = keys /\ keys_size' = keys_size
          /\ i' = 0 /\ bound' = keys_size
          /\ pass' = Pass("pending", NoCert, buf, now)
      BY <1>2 DEF BeginPass
    <2>2. pass'.verdict = "pending" /\ PassType'
      BY <2>1 DEF Pass, PassType
    <2>3. TypeOK'
      BY <1>1, <2>1, <2>2 DEF TypeOK, Slots, NKeys
    <2> QED
      BY <1>1, <2>1, <2>2, <2>3
      DEF Inv, Bounds, Tried, Dropped, Sweep, Meets, PassComplete, Scanning
  <1>3. CASE DropExpired
    <2> DEFINE last == keys_size - 1
    <2>1. /\ Scanning /\ i < bound /\ keys_size > 1
          /\ Expired(keys[i], pass.now)
          /\ keys' = Swapped(keys, i, last) /\ keys_size' = last
          /\ i' = i /\ bound' = bound /\ pass' = pass
      BY <1>3 DEF DropExpired, RemoveKey, AtKey
    <2>2. i \in Slots /\ last \in Slots /\ last < bound
      BY <1>1, <2>1 DEF Inv, Bounds, Slots
    <2>3. /\ keys' \in Bijection(Slots, Certs)
          /\ \A j \in Slots : keys'[j] =
                IF j = last THEN keys[i] ELSE IF j = i THEN keys[last] ELSE keys[j]
      BY <1>1, <2>1, <2>2, SwapType
    <2>4. TypeOK' /\ PassType' /\ Bounds'
      BY <1>1, <2>1, <2>2, <2>3 DEF Inv, TypeOK, PassType, Bounds, Scanning, Slots, NKeys
    <2>5. Tried'
      <3> SUFFICES ASSUME NEW j \in 0 .. i - 1
                   PROVE  ~Accepts(keys'[j], pass.buf, pass.now)
        BY <2>1 DEF Tried
      <3>1. j \in Slots /\ j # i
        BY <1>1, <2>1 DEF Slots
      <3>2. ~Accepts(keys[j], pass.buf, pass.now)
        BY <2>1 DEF Inv, Tried
      <3>3. ~Accepts(keys[i], pass.buf, pass.now)
        BY <2>1 DEF Accepts
      <3> QED
        BY <2>3, <3>1, <3>2, <3>3
    <2>6. Dropped'
      <3> SUFFICES ASSUME NEW j \in i + 1 .. bound - 1, j >= last
                   PROVE  Expired(keys'[j], pass.now)
        BY <2>1 DEF Dropped, Exp
      <3>1. j \in Slots /\ j # i
        BY <1>1, <2>1 DEF Slots
      <3>2. CASE j = last
        BY <2>1, <2>3, <3>1, <3>2
      <3>3. CASE j # last
        BY <1>1, <2>1, <2>3, <3>1, <3>3 DEF Inv, Dropped, Exp
      <3> QED
        BY <3>2, <3>3
    <2>7. /\ Sound' = Sound /\ Sound \in 0 .. bound
          /\ \A j \in 0 .. bound - 1 : Exp(j)' <=> IF j = last THEN Exp(i)
                                                  ELSE IF j = i THEN Exp(last)
                                                  ELSE Exp(j)
      <3>1. Live(bound)' = Live(bound)
        BY <1>1, <2>1, <2>2, SwapLive
      <3>2. Stale' = Stale
        BY <2>1, <3>1 DEF Stale, Gone, Expired
      <3>3. \A j \in 0 .. bound - 1 : j \in Slots
        BY <1>1 DEF Slots
      <3> QED
        BY <1>1, <2>1, <2>3, <3>2, <3>3, GoneType DEF Sound, Exp, Expired
    <2>8. Sweep' /\ Meets'
      <3>1. Exp(i)
        BY <2>1 DEF Exp
      <3>2. CASE i < keys_size
        <4>1. /\ \A j \in 0 .. i - 1 : ~Exp(j)
              /\ \A j \in keys_size .. bound - 1 : Exp(j)
          BY <1>1, <2>1, <3>2 DEF Inv, Sweep
        <4>2. Sweep'
          BY <1>1, <2>1, <2>2, <2>7, <3>1, <3>2, <4>1 DEF Sweep
        <4>3. ASSUME i = last PROVE Sound = i
          <5>1. \A j \in 0 .. bound - 1 : Exp(j) <=> j >= i
            BY <1>1, <2>1, <3>1, <4>1, <4>3
          <5> QED
            BY <1>1, <2>1, <5>1, GoneIsTail
        <4>4. Meets'
          BY <1>1, <2>1, <2>2, <2>7, <3>1, <3>2, <4>1, <4>3 DEF Meets
        <4> QED
          BY <4>2, <4>4
      <3>3. CASE i >= keys_size
        <4>1. /\ keys_size <= Sound /\ Sound <= i
              /\ i + keys_size = 2 * Sound
              /\ \A j \in 0 .. bound - 1 :
                    Exp(j) <=> (keys_size <= j /\ j < Sound) \/ j >= i
          BY <1>1, <2>1, <2>7, <3>1, <3>3 DEF Inv, Meets
        <4>2. ~Exp(last)
          BY <1>1, <2>1, <2>2, <2>7, <3>3, <4>1
        <4>3. /\ last <= Sound /\ i + last = 2 * Sound - 1 /\ i < bound /\ last < i
              /\ i + last # 2 * Sound
          BY <1>1, <2>1, <2>2, <2>7, <3>3, <4>1
        <4>4. ASSUME NEW j \in 0 .. bound - 1
              PROVE  Exp(j)' <=> (last <= j /\ j < Sound) \/ j > i
          <5>1. CASE j = last
            BY <1>1, <2>1, <2>7, <3>1, <4>1, <4>3, <5>1
          <5>2. CASE j = i
            BY <1>1, <2>1, <2>7, <4>1, <4>2, <4>3, <5>2
          <5>3. CASE j # last /\ j # i
            BY <1>1, <2>1, <2>7, <4>1, <4>3, <5>3
          <5> QED
            BY <5>1, <5>2, <5>3
        <4> QED
          BY <1>1, <2>1, <2>7, <4>1, <4>3, <4>4 DEF Sweep, Meets
      <3> QED
        BY <1>1, <3>2, <3>3
    <2>9. PassComplete'
      BY <2>1 DEF PassComplete, Scanning
    <2> QED
      BY <2>4, <2>5, <2>6, <2>8, <2>9 DEF Inv
  <1>4. CASE CloseServer
    <2>1. /\ Scanning /\ i < bound /\ keys_size <= 1
          /\ Expired(keys[i], pass.now)
          /\ UNCHANGED <<keys, keys_size, i, bound>>
          /\ pass' = Pass("expired", NoCert, pass.buf, pass.now)
      BY <1>4 DEF CloseServer, AtKey, EndPass
    <2>2. /\ pass'.verdict = "expired" /\ pass'.buf = pass.buf /\ pass'.now = pass.now
          /\ PassType'
      BY <2>1 DEF Pass, PassType
    <2>3. \A j \in 0 .. bound - 1 : ~Accepts(keys[j], pass.buf, pass.now)
      <3> TAKE j \in 0 .. bound - 1
      <3>1. CASE j < i
        BY <1>1, <2>1, <3>1 DEF Inv, Tried
      <3>2. CASE j = i
        BY <2>1, <3>2 DEF Accepts
      <3>3. CASE j > i
        BY <1>1, <2>1, <3>3 DEF Inv, Dropped, Accepts, Exp
      <3> QED
        BY <1>1, <3>1, <3>2, <3>3
    <2>4. PassComplete'
      BY <2>1, <2>2, <2>3 DEF PassComplete, Live
    <2> QED
      BY <1>1, <2>1, <2>2, <2>4
      DEF Inv, TypeOK, Bounds, Tried, Dropped, Sweep, Meets, Scanning, Slots, NKeys
  <1>5. CASE Accept
    <2>1. /\ UNCHANGED <<keys, keys_size, i, bound>>
          /\ pass' = Pass("hit", keys[i], pass.buf, pass.now)
      BY <1>5 DEF Accept, EndPass
    <2>2. pass'.verdict = "hit" /\ PassType'
      BY <2>1 DEF Pass, PassType
    <2> QED
      BY <1>1, <2>1, <2>2
      DEF Inv, TypeOK, Bounds, Tried, Dropped, Sweep, Meets, PassComplete, Scanning, Slots, NKeys
  <1>6. CASE TryNext
    <2>1. /\ Scanning /\ i < bound
          /\ ~Exp(i)
          /\ ~Authenticates(keys[i], pass.buf)
          /\ i' = i + 1
          /\ UNCHANGED <<keys, keys_size, bound, pass>>
      BY <1>6 DEF TryNext, AtKey, Exp
    <2>2. TypeOK' /\ PassType' /\ Bounds'
      BY <1>1, <2>1 DEF Inv, TypeOK, PassType, Bounds, Scanning, Slots, NKeys
    <2>3. Tried'
      <3> SUFFICES ASSUME NEW j \in 0 .. i
                   PROVE  ~Accepts(keys[j], pass.buf, pass.now)
        BY <1>1, <2>1 DEF Tried
      <3>1. CASE j = i
        BY <2>1, <3>1 DEF Accepts
      <3>2. CASE j # i
        BY <1>1, <2>1, <3>2 DEF Inv, Tried
      <3> QED
        BY <3>1, <3>2
    <2>4. Dropped'
      BY <1>1, <2>1 DEF Inv, Dropped, Scanning, Exp
    <2>5. /\ Sound' = Sound /\ Sound \in 0 .. bound
          /\ \A j \in 0 .. bound - 1 : Exp(j)' <=> Exp(j)
      BY <1>1, <2>1, GoneType DEF Sound, Stale, Gone, Live, Exp
    <2>6. Sweep'
      BY <1>1, <2>1, <2>5 DEF Inv, Bounds, Sweep, Scanning
    <2>7. Meets'
      <3>1. ASSUME i + 1 = keys_size PROVE Sound = keys_size
        <4>1. \A j \in 0 .. bound - 1 : Exp(j) <=> j >= keys_size
          BY <1>1, <2>1, <3>1 DEF Inv, Bounds, Sweep
        <4> QED
          BY <1>1, <2>1, <4>1, GoneIsTail DEF Inv, Bounds
      <3>2. CASE i + 1 = keys_size
        BY <1>1, <2>1, <2>5, <3>1, <3>2 DEF Inv, Bounds, Sweep, Meets
      <3>3. CASE i >= keys_size
        BY <1>1, <2>1, <2>5, <3>3 DEF Inv, Bounds, Meets
      <3> QED
        BY <1>1, <2>1, <3>2, <3>3 DEF Meets
    <2>8. PassComplete'
      BY <2>1 DEF Inv, PassComplete, Scanning, Live
    <2> QED
      BY <2>2, <2>3, <2>4, <2>6, <2>7, <2>8 DEF Inv
  <1>7. CASE Reject
    <2>1. /\ Scanning /\ i >= bound
          /\ UNCHANGED <<keys, keys_size, i, bound>>
          /\ pass' = Pass("miss", NoCert, pass.buf, pass.now)
      BY <1>7 DEF Reject, EndPass
    <2>2. /\ pass'.verdict = "miss" /\ pass'.buf = pass.buf /\ pass'.now = pass.now
          /\ PassType'
      BY <2>1 DEF Pass, PassType
    <2>3. PassComplete'
      BY <1>1, <2>1, <2>2 DEF Inv, Tried, PassComplete, Live
    <2> QED
      BY <1>1, <2>1, <2>2, <2>3
      DEF Inv, TypeOK, Bounds, Tried, Dropped, Sweep, Meets, Scanning, Slots, NKeys
  <1>8. CASE UNCHANGED vars
    BY <1>8 DEF vars, Inv, TypeOK, PassType, Bounds, Tried, Dropped, Sweep, Meets,
                PassComplete, Scanning, Live, Slots, NKeys, Exp, Stale, Gone, Sound
  <1> QED
    BY <1>2, <1>3, <1>4, <1>5, <1>6, <1>7, <1>8 DEF Next, LoopStep

(***************************************************************************)
(* The array stays a permutation of the loaded keys and the loop's indices *)
(* stay inside it.                                                         *)
(***************************************************************************)
THEOREM TypeCorrect == Spec => []TypeOK
  <1>1. Inv => TypeOK
    BY DEF Inv
  <1> QED
    BY InitInv, NextInv, <1>1, PTL DEF Spec

-----------------------------------------------------------------------------

(***************************************************************************)
(* KeyAuth and KeyRing are about the same keys: their copies of the        *)
(* operators of PubKeys agree.                                             *)
(***************************************************************************)
LEMMA SameOperators ==
    ASSUME NEW live, NEW buf, NEW now, NEW verdict, NEW key
    PROVE  /\ Abstract!PassResults(live, buf, now) = PassResults(live, buf, now)
           /\ Abstract!Pass(verdict, key, buf, now) = Pass(verdict, key, buf, now)
  <1>1. \A k : Abstract!Accepts(k, buf, now) <=> Accepts(k, buf, now)
    BY DEF Accepts, Abstract!Accepts, Expired, Abstract!Expired,
           Authenticates, Abstract!Authenticates
  <1>2. \A k : Abstract!Expired(k, now) <=> Expired(k, now)
    BY DEF Expired, Abstract!Expired
  <1>3. Abstract!Gone(live, now) = Gone(live, now)
    BY <1>2 DEF Gone, Abstract!Gone
  <1>4. \A S : Abstract!Cardinality(S) = Cardinality(S)
    BY Zenon DEF Cardinality, Abstract!Cardinality
  <1>5. \A left : Abstract!Lost(live, left) = Lost(live, left)
    BY <1>4 DEF Lost, Abstract!Lost
  <1>6. Abstract!PassResults(live, buf, now) = PassResults(live, buf, now)
    <2>1. ASSUME NEW r
          PROVE  r \in Abstract!PassResults(live, buf, now) <=> r \in PassResults(live, buf, now)
      BY <1>1, <1>3, <1>4, <1>5, Zenon DEF PassResults, Abstract!PassResults
    <2> QED
      BY <2>1
  <1> QED
    BY <1>6 DEF Pass, Abstract!Pass

(***************************************************************************)
(* What the pass has cost when it ends: at the bound, at an expired key    *)
(* with none left to swap it with, or at a key that has not expired.       *)
(***************************************************************************)
LEMMA PassCost ==
    ASSUME Inv, Scanning
    PROVE  /\ i >= bound => /\ bound - keys_size = 2 * Cardinality(Stale)
                            /\ Live(keys_size) \cap Stale = {}
           /\ i < bound /\ Exp(i) /\ keys_size <= 1 => bound <= 2 * Cardinality(Stale)
           /\ i < bound /\ ~Exp(i) => bound - keys_size <= 2 * Cardinality(Stale)
  <1> USE NKeysType
  <1>1. /\ keys \in Bijection(Slots, Certs)
        /\ keys_size \in 1 .. bound /\ i \in 0 .. bound /\ bound \in 0 .. NKeys
    BY DEF Inv, TypeOK, Bounds
  <1>2. /\ Sound \in 0 .. bound /\ Cardinality(Stale) \in 0 .. bound
        /\ Sound = bound - Cardinality(Stale)
    BY <1>1, GoneType DEF Sound
  <1>3. ASSUME i >= keys_size
        PROVE  /\ keys_size <= Sound /\ Sound <= i
               /\ \/ i + keys_size = 2 * Sound
                  \/ i + keys_size = 2 * Sound - 1 /\ i < bound
               /\ i < bound => (Exp(i) <=> i + keys_size = 2 * Sound)
               /\ \A j \in 0 .. keys_size - 1 : ~Exp(j) \/ j = i
    BY <1>1, <1>2, <1>3 DEF Inv, Meets
  <1>4. ASSUME i >= bound
        PROVE  /\ bound - keys_size = 2 * Cardinality(Stale)
               /\ Live(keys_size) \cap Stale = {}
    <2>1. i = bound /\ i + keys_size = 2 * Sound
      BY <1>1, <1>2, <1>3, <1>4
    <2>2. \A j \in 0 .. keys_size - 1 : ~Exp(j)
      BY <1>1, <1>3, <1>4
    <2>3. Live(keys_size) \cap Stale = {}
      BY <2>2 DEF Live, Stale, Gone, Exp
    <2>4. bound - keys_size = 2 * Cardinality(Stale)
      BY <1>1, <1>2, <2>1
    <2> QED
      BY <2>3, <2>4
  <1>5. ASSUME i < bound, Exp(i), keys_size <= 1
        PROVE  bound <= 2 * Cardinality(Stale)
    <2>1. CASE i >= keys_size
      BY <1>1, <1>2, <1>3, <1>5, <2>1
    <2>2. CASE i < keys_size
      <3>1. \A j \in 0 .. bound - 1 : Exp(j)
        BY <1>1, <1>5, <2>2 DEF Inv, Sweep
      <3>2. Sound <= 0
        BY <1>1, <3>1, GoneHasTail
      <3> QED
        BY <1>1, <1>2, <3>2
    <2> QED
      BY <1>1, <2>1, <2>2
  <1>6. ASSUME i < bound, ~Exp(i)
        PROVE  bound - keys_size <= 2 * Cardinality(Stale)
    <2>1. CASE i >= keys_size
      BY <1>1, <1>2, <1>3, <1>6, <2>1
    <2>2. CASE i < keys_size
      <3>1. \A j \in keys_size .. bound - 1 : Exp(j)
        BY <1>1, <2>2 DEF Inv, Sweep
      <3>2. Sound <= keys_size
        BY <1>1, <3>1, GoneHasTail
      <3> QED
        BY <1>1, <1>2, <3>2
    <2> QED
      BY <1>1, <2>1, <2>2
  <1> QED
    BY <1>4, <1>5, <1>6

(***************************************************************************)
(* The end of a pass is a Finish step of the abstract specification.       *)
(***************************************************************************)
LEMMA EndIsFinish ==
    ASSUME Inv, Scanning, UNCHANGED <<keys, keys_size, i, bound>>,
           NEW verdict \in {"hit", "miss", "expired"}, NEW key,
           pass' = Pass(verdict, key, pass.buf, pass.now),
           verdict = "hit" => i < bound /\ key = keys[i] /\ Accepts(key, pass.buf, pass.now),
           verdict # "hit" => /\ key = NoCert
                              /\ \A k \in Live(bound) : ~Accepts(k, pass.buf, pass.now),
           verdict = "miss" => i >= bound,
           verdict = "expired" => i < bound /\ Exp(i) /\ keys_size <= 1
    PROVE  Abstract!Finish
  <1> USE NKeysType
  <1>1. /\ keys \in Bijection(Slots, Certs) /\ i \in 0 .. NKeys
        /\ keys_size \in 1 .. NKeys /\ bound \in 0 .. NKeys /\ keys_size <= bound
    BY DEF Inv, TypeOK, Bounds
  <1>2. ring = Live(bound)
    BY DEF ring
  <1>3. ring' = Live(keys_size)
    <2>1. pass'.verdict = verdict
      BY DEF Pass
    <2> QED
      BY <2>1 DEF ring, Scanning, Live
  <1>4. Live(keys_size) \in (SUBSET Live(bound)) \ {{}}
    <2>1. Live(keys_size) \subseteq Live(bound)
      BY <1>1 DEF Live
    <2>2. keys[0] \in Live(keys_size)
      BY <1>1 DEF Live
    <2> QED
      BY <2>1, <2>2
  <1>5. Cardinality(Live(keys_size)) = keys_size /\ Cardinality(Live(bound)) = bound
    BY <1>1, LiveSize
  <1>6. verdict = "hit" => key \in Live(bound) /\ ~Exp(i)
    BY <1>1 DEF Live, Accepts, Exp
  <1>7. /\ verdict = "hit" => bound - keys_size <= 2 * Cardinality(Stale)
        /\ verdict = "miss" => /\ bound - keys_size = 2 * Cardinality(Stale)
                               /\ Live(keys_size) \cap Stale = {}
        /\ verdict = "expired" => bound <= 2 * Cardinality(Stale)
    BY <1>6, PassCost
  <1> DEFINE r == [verdict |-> verdict, key |-> key, ring |-> Live(keys_size)]
  <1>8. r \in [verdict : {"hit", "miss", "expired"},
               key : Live(bound) \cup {NoCert}, ring : (SUBSET Live(bound)) \ {{}}]
    BY <1>4, <1>6
  <1>9. r \in PassResults(ring, pass.buf, pass.now)
    BY <1>2, <1>5, <1>6, <1>7, <1>8 DEF PassResults, Stale, Lost
  <1>10. ring' = r.ring /\ pass' = Pass(r.verdict, r.key, pass.buf, pass.now)
    BY <1>3
  <1>11. pass.verdict = "pending"
    BY DEF Scanning
  <1> HIDE DEF r
  <1> QED
    BY <1>9, <1>10, <1>11, SameOperators DEF Abstract!Finish

(***************************************************************************)
(* Every step of the loop is a step of KeyAuth or changes nothing there.   *)
(***************************************************************************)
LEMMA StepRefines == Inv /\ [Next]_vars => [Abstract!AbsNext]_(Abstract!absvars)
  <1> SUFFICES ASSUME Inv, [Next]_vars PROVE [Abstract!AbsNext]_(Abstract!absvars)
    OBVIOUS
  <1> USE NKeysType
  <1>1. /\ keys \in Bijection(Slots, Certs)
        /\ keys_size \in 1 .. NKeys
        /\ i \in 0 .. NKeys
        /\ bound \in 0 .. NKeys
    BY DEF Inv, TypeOK
  <1>2. ASSUME NEW buf \in Inputs, NEW now \in Times, BeginPass(buf, now)
        PROVE  Abstract!AbsNext
    <2>1. /\ pass.verdict \notin {"pending", "expired"}
          /\ keys' = keys /\ keys_size' = keys_size /\ bound' = keys_size
          /\ pass' = Pass("pending", NoCert, buf, now)
      BY <1>2 DEF BeginPass
    <2>2. pass'.verdict = "pending"
      BY <2>1 DEF Pass
    <2>3. ring' = ring
      BY <2>1, <2>2 DEF ring, Scanning, Live
    <2>4. Abstract!Begin(buf, now)
      BY <2>1, <2>3 DEF Abstract!Begin, Abstract!Pass, Pass
    <2> QED
      BY <2>4 DEF Abstract!AbsNext
  <1>3. CASE DropExpired
    <2>1. /\ Scanning /\ i < bound /\ keys_size > 1
          /\ keys' = Swapped(keys, i, keys_size - 1)
          /\ bound' = bound /\ pass' = pass
      BY <1>3 DEF DropExpired, RemoveKey, AtKey
    <2>2. i \in 0 .. bound - 1 /\ keys_size - 1 \in 0 .. bound - 1
      BY <1>1, <2>1 DEF Inv, Bounds
    <2>3. Live(bound)' = Live(bound)
      BY <1>1, <2>1, <2>2, SwapLive
    <2>4. UNCHANGED Abstract!absvars
      BY <2>1, <2>3 DEF Abstract!absvars, ring, Scanning
    <2> QED
      BY <2>4
  <1>4. CASE CloseServer
    <2>1. /\ Scanning /\ i < bound
          /\ Exp(i) /\ keys_size <= 1
          /\ UNCHANGED <<keys, keys_size, i, bound>>
          /\ pass' = Pass("expired", NoCert, pass.buf, pass.now)
      BY <1>4 DEF CloseServer, AtKey, EndPass, Exp
    <2>2. keys[i] \in Live(bound)
      BY <1>1, <2>1 DEF Live
    <2>3. \A k \in Live(bound) : ~Accepts(k, pass.buf, pass.now)
      <3>1. pass'.verdict = "expired" /\ pass'.buf = pass.buf /\ pass'.now = pass.now
        BY <2>1 DEF Pass
      <3>2. PassComplete'
        BY NextInv DEF Inv
      <3> QED
        BY <2>1, <3>1, <3>2 DEF PassComplete, Live
    <2>4. Abstract!Finish
      BY <2>1, <2>2, <2>3, EndIsFinish
    <2> QED
      BY <2>4 DEF Abstract!AbsNext
  <1>5. CASE Accept
    <2>1. /\ Scanning /\ i < bound
          /\ Accepts(keys[i], pass.buf, pass.now)
          /\ UNCHANGED <<keys, keys_size, i, bound>>
          /\ pass' = Pass("hit", keys[i], pass.buf, pass.now)
      BY <1>5 DEF Accept, AtKey, EndPass, Accepts
    <2>2. keys[i] \in Live(bound)
      BY <1>1, <2>1 DEF Live
    <2>3. Abstract!Finish
      BY <2>1, <2>2, EndIsFinish
    <2> QED
      BY <2>3 DEF Abstract!AbsNext
  <1>6. CASE TryNext
    BY <1>6 DEF TryNext, Abstract!absvars, ring, Scanning, Live
  <1>7. CASE Reject
    <2>1. /\ Scanning /\ i >= bound
          /\ UNCHANGED <<keys, keys_size, i, bound>>
          /\ pass' = Pass("miss", NoCert, pass.buf, pass.now)
      BY <1>7 DEF Reject, EndPass
    <2>2. \A k \in Live(bound) : ~Accepts(k, pass.buf, pass.now)
      <3>1. pass'.verdict = "miss" /\ pass'.buf = pass.buf /\ pass'.now = pass.now
        BY <2>1 DEF Pass
      <3>2. PassComplete'
        BY NextInv DEF Inv
      <3> QED
        BY <2>1, <3>1, <3>2 DEF PassComplete, Live
    <2>3. Abstract!Finish
      BY <2>1, <2>2, EndIsFinish
    <2> QED
      BY <2>3 DEF Abstract!AbsNext
  <1>8. CASE UNCHANGED vars
    BY <1>8 DEF vars, Abstract!absvars, ring, Scanning, Live
  <1> QED
    BY <1>2, <1>3, <1>4, <1>5, <1>6, <1>7, <1>8 DEF Next, LoopStep

(***************************************************************************)
(* The loop of the code implements the abstract authentication step that   *)
(* Server uses: within one pass every live key that could accept is tried, *)
(* keys only leave the ring, and two of them for each one that expired.    *)
(***************************************************************************)
THEOREM Refinement == Spec => ImplementsKeyAuth
  <1>1. Init => Abstract!AbsInit
    <2> SUFFICES ASSUME Init PROVE Abstract!AbsInit
      OBVIOUS
    <2>1. ~Scanning /\ keys_size = NKeys /\ keys \in Bijection(Slots, Certs)
      BY DEF Init, Scanning, NoPass, Pass
    <2>2. ring = {keys[j] : j \in Slots}
      BY <2>1 DEF ring, Live, Slots
    <2>3. ring = Certs
      BY <2>1, <2>2, BijectionType
    <2> QED
      BY <2>3 DEF Init, Abstract!AbsInit, NoPass, Abstract!NoPass, Pass, Abstract!Pass
  <1> QED
    BY <1>1, InitInv, NextInv, StepRefines, PTL DEF Spec, ImplementsKeyAuth, Abstract!AbsSpec

=============================================================================
