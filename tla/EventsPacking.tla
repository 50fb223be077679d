--------------------------- MODULE EventsPacking ---------------------------
(***************************************************************************)
(* What is read back from the 64 bits of an Events value, proved for every *)
(* even Half > 1, so for 2^32.                                             *)
(***************************************************************************)
EXTENDS Events, TLAPS

(* Division by b is determined by its remainder. *)
LEMMA QuotientUnique ==
    ASSUME NEW b \in Nat, b > 0, NEW q \in Int, NEW r \in 0..(b - 1)
    PROVE  (q * b + r) \div b = q /\ (q * b + r) % b = r
  OBVIOUS

(* Arithmetic of the widths. *)
LEMMA Widths ==
    /\ Half \in Nat /\ Half > 1
    /\ Half \div 2 \in Nat /\ 2 * (Half \div 2) = Half
    /\ Half * Half \in Nat /\ Half * Half >= 2 * Half
  BY HalfAssumption

(* The largest data leaves room for a half below the square. *)
LEMMA DataFits == ASSUME NEW data \in U32 PROVE data * Half \in Nat /\ data * Half <= Half * Half - Half
  <1>1. data \in Nat /\ data <= Half - 1
    BY Widths DEF U32
  <1>2. data * Half <= (Half - 1) * Half
    BY <1>1, Widths
  <1>3. (Half - 1) * Half = Half * Half - Half
    BY Widths
  <1> QED BY <1>1, <1>2, <1>3, Widths

(* A real descriptor and the data lie side by side. *)
LEMMA DescriptorPacks ==
    ASSUME NEW source \in Descriptors, NEW data \in U32
    PROVE  /\ ~SumOverflows(source, data)
           /\ InnerFd(InnerData(source, data)) = source
           /\ UserData(InnerData(source, data)) = data
  <1>1. source \in Nat /\ source < Half \div 2 /\ source \in 0..(Half - 1)
    BY Widths DEF Descriptors
  <1>2. AsU64(source) = source
    BY <1>1, Widths DEF AsU64
  <1>3. data * Half + source \in Nat /\ data * Half + source < Half * Half
    BY <1>1, DataFits, Widths
  <1>4. InnerData(source, data) = data * Half + source
    BY <1>2, <1>3, Widths DEF InnerData
  <1>5. (data * Half + source) \div Half = data /\ (data * Half + source) % Half = source
    BY <1>1, QuotientUnique, Widths DEF U32
  <1>6. ~SumOverflows(source, data)
    BY <1>2, <1>3, Widths DEF SumOverflows
  <1>7. InnerFd(InnerData(source, data)) = source
    BY <1>1, <1>4, <1>5 DEF InnerFd
  <1>8. UserData(InnerData(source, data)) = data
    BY <1>4, <1>5 DEF UserData
  <1> QED BY <1>6, <1>7, <1>8

(* A negative one is read back, and takes one from the data. *)
LEMMA NegativePacks ==
    ASSUME NEW source \in RawFds, source < 0, NEW data \in U32
    PROVE  /\ SumOverflows(source, data) <=> data # 0
           /\ InnerFd(InnerData(source, data)) = source
           /\ UserData(InnerData(source, data)) = IF data = 0 THEN Half - 1 ELSE data - 1
  <1>0. PICK low \in 0..(Half - 1) : low = Half + source
    BY Widths DEF RawFds
  <1>1. source \in Int /\ -Half < source /\ low \in Nat /\ low < Half /\ low >= Half \div 2
    BY <1>0, Widths DEF RawFds
  <1>2. AsU64(source) = source + Half * Half
    <2>1. -1 * (Half * Half) + (source + Half * Half) = source
      BY <1>1, Widths
    <2>2. source + Half * Half \in 0..(Half * Half - 1)
      BY <1>1, Widths
    <2> QED BY <2>1, <2>2, QuotientUnique, Widths DEF AsU64
  <1> DEFINE high == IF data = 0 THEN Half - 1 ELSE data - 1
  <1>3. /\ high \in Nat
        /\ InnerData(source, data) = high * Half + low
        /\ SumOverflows(source, data) <=> data # 0
    <2>1. CASE data = 0
      <3>1. InnerData(source, data) = source + Half * Half
        <4>1. data * Half + AsU64(source) = 0 * (Half * Half) + (source + Half * Half)
          BY <1>1, <1>2, <2>1, Widths
        <4>2. source + Half * Half \in 0..(Half * Half - 1)
          BY <1>1, Widths
        <4> QED BY <4>1, <4>2, QuotientUnique, Widths DEF InnerData
      <3>2. source + Half * Half = (Half - 1) * Half + low
        BY <1>0, <1>1, Widths
      <3>3. high = Half - 1 /\ high \in Nat
        BY <2>1, Widths
      <3>4. ~SumOverflows(source, data)
        BY <1>1, <1>2, <2>1, Widths DEF SumOverflows
      <3> QED BY <2>1, <3>1, <3>2, <3>3, <3>4
    <2>2. CASE data # 0
      <3>1. data - 1 \in Nat /\ data * Half = (data - 1) * Half + Half
        BY <2>2, Widths DEF U32
      <3>2. data * Half + source = (data - 1) * Half + low
        BY <3>1, <1>0, <1>1, DataFits, Widths
      <3>3. data * Half + source \in 0..(Half * Half - 1)
        BY <3>1, <3>2, <1>1, DataFits, Widths
      <3>4. data * Half + AsU64(source) = 1 * (Half * Half) + (data * Half + source)
        BY <1>1, <1>2, DataFits, Widths
      <3>5. InnerData(source, data) = data * Half + source
        BY <3>3, <3>4, QuotientUnique, Widths DEF InnerData
      <3>6. high = data - 1 /\ high \in Nat
        BY <2>2, <3>1
      <3>7. SumOverflows(source, data)
        <4>1. data * Half + AsU64(source) = Half * Half + (data * Half + source)
          BY <3>4, <3>3, Widths
        <4> QED BY <4>1, <3>3, Widths DEF SumOverflows
      <3> HIDE DEF high
      <3> QED BY <2>2, <3>2, <3>5, <3>6, <3>7
    <2> QED BY <2>1, <2>2
  <1> HIDE DEF high
  <1>4. (high * Half + low) % Half = low /\ (high * Half + low) \div Half = high
    BY <1>0, <1>1, <1>3, QuotientUnique, Widths
  <1>5. InnerFd(InnerData(source, data)) = source
    BY <1>0, <1>1, <1>3, <1>4, Widths DEF InnerFd
  <1>6. UserData(InnerData(source, data)) = high
    BY <1>3, <1>4 DEF UserData
  <1> QED BY <1>3, <1>5, <1>6 DEF high

(* Events::fd is the inverse of the constructors on every RawFd, negative  *)
(* ones included: fd_dispatch is keyed by it.                              *)
THEOREM FdSurvives ==
    ASSUME NEW source \in RawFds, NEW data \in U32, NEW events
    PROVE  InnerFd(WithData(source, data, events).inner) = source
  <1>1. source < 0 \/ source \in Descriptors
    BY Widths DEF RawFds, Descriptors
  <1> QED BY <1>1, DescriptorPacks, NegativePacks DEF WithData

(* Events::data returns the data the value was built with, and 0 without,  *)
(* for every descriptor the kernel can hand out; the addition in           *)
(* with_data_raw does not overflow then.                                   *)
THEOREM DataSurvives ==
    ASSUME NEW source \in Descriptors, NEW data \in U32, NEW events
    PROVE  /\ ~SumOverflows(source, data)
           /\ UserData(WithData(source, data, events).inner) = data
           /\ UserData(New(source, events).inner) = 0
           /\ UserData(Empty(source).inner) = 0
  <1>1. 0 \in U32
    BY Widths DEF U32
  <1> QED BY <1>1, DescriptorPacks DEF WithData, New, Empty

(* For a negative RawFd, which only the _raw constructors can be given,    *)
(* Events::data returns the data less one, and u32::MAX for 0: the         *)
(* sign-extended descriptor borrows from the upper half.                   *)
THEOREM NegativeDescriptorBorrows ==
    ASSUME NEW source \in RawFds \ Descriptors, NEW data \in U32, NEW events
    PROVE  /\ SumOverflows(source, data) <=> data # 0
           /\ UserData(WithData(source, data, events).inner) = (data - 1) % Half
  <1>1. source \in RawFds /\ source < 0
    BY Widths DEF RawFds, Descriptors
  <1>2. (data - 1) % Half = IF data = 0 THEN Half - 1 ELSE data - 1
    <2>1. CASE data = 0
      <3>1. -1 * Half + (Half - 1) = data - 1 /\ Half - 1 \in 0..(Half - 1)
        BY <2>1, Widths
      <3> QED BY <2>1, <3>1, QuotientUnique, Widths
    <2>2. CASE data # 0
      <3>1. 0 * Half + (data - 1) = data - 1 /\ data - 1 \in 0..(Half - 1)
        BY <2>2, Widths DEF U32
      <3> QED BY <2>2, <3>1, QuotientUnique, Widths
    <2> QED BY <2>1, <2>2
  <1> QED BY <1>1, <1>2, NegativePacks DEF WithData

(* PartialEq tells two Events of real descriptors apart exactly when their *)
(* descriptor, their data or their event sets differ, although it compares *)
(* the packed values.                                                      *)
THEOREM EqualityIsSound ==
    ASSUME NEW s1 \in Descriptors, NEW d1 \in U32, NEW ev1,
           NEW s2 \in Descriptors, NEW d2 \in U32, NEW ev2
    PROVE  SameEvents(WithData(s1, d1, ev1), WithData(s2, d2, ev2))
              <=> s1 = s2 /\ d1 = d2 /\ ev1 = ev2
  BY DescriptorPacks DEF SameEvents, WithData
=============================================================================
