------------------------- MODULE LoopProgressProofs -------------------------
(***************************************************************************)
(* Proofs about LoopProgress, for any number of descriptors and any        *)
(* capacity: which capacities make `run` fail, and how long a ready        *)
(* descriptor can be passed over when the buffer is always full.           *)
(***************************************************************************)
EXTENDS LoopProgress, FiniteSetTheorems, TLAPS

-----------------------------------------------------------------------------
(* The invariant. *)

(* What the constructor lets through, and what it leaves untouched. *)
ConstructionInv ==
    /\ state = "none" => \A fd \in Fds : passed[fd] = 0
    /\ state \notin {"none", "refused"} => capacity <= MAX_READY_EVENTS_CAPACITY
    /\ state = "error" => capacity \notin 1..EpMaxEvents

(* The ready list has each source once, and every ready one. *)
ReadyListInv ==
    /\ \A i, j \in 1..Len(rdlist) : rdlist[i] = rdlist[j] => i = j
    /\ \A s \in raised : \E i \in 1..Len(rdlist) : rdlist[i] = s

(* A descriptor that was passed over is still ready, is not about to be    *)
(* served, and has behind it on the list all those served instead: a full  *)
(* buffer of them for each poll.                                           *)
PassedOver(fd) ==
    /\ fd \in raised
    /\ \A i \in 1..Len(batch) : batch[i] # fd
    /\ \A p \in 1..Len(rdlist) : rdlist[p] = fd => passed[fd] * capacity <= Len(rdlist) - p

TurnInv == \A fd \in Fds : passed[fd] # 0 => PassedOver(fd)

ProgressInv ==
    /\ ProgressTypeOK
    /\ pending <= sent
    /\ ConstructionInv
    /\ ReadyListInv
    /\ TurnInv

(* The limit is a number, and the same for constructor and kernel. *)
LEMMA LimitIsNat == MAX_READY_EVENTS_CAPACITY \in Nat /\ EpMaxEvents = MAX_READY_EVENTS_CAPACITY
BY ProgressAssumption DEF MAX_READY_EVENTS_CAPACITY, EpMaxEvents

-----------------------------------------------------------------------------
(* Enlist: a source that becomes ready. *)

(* The list of before is kept, and s is on the new one. *)
LEMMA EnlistFacts ==
    ASSUME NEW s \in SourcesSet, rdlist \in Seq(SourcesSet), ReadyListInv, rdlist' = Enlist(s)
    PROVE  /\ rdlist' \in Seq(SourcesSet)
           /\ Len(rdlist') >= Len(rdlist)
           /\ \A i \in 1..Len(rdlist) : rdlist'[i] = rdlist[i]
           /\ \E i \in 1..Len(rdlist') : rdlist'[i] = s
           /\ \A i, j \in 1..Len(rdlist') : rdlist'[i] = rdlist'[j] => i = j
           /\ \A i \in 1..Len(rdlist') : i > Len(rdlist) => rdlist'[i] = s
<1>1. Contains(rdlist, s) <=> \E i \in 1..Len(rdlist) : rdlist[i] = s
  BY DEF Contains
<1>2. CASE \E i \in 1..Len(rdlist) : rdlist[i] = s
  BY <1>1, <1>2 DEF Enlist, ReadyListInv
<1>3. CASE \A i \in 1..Len(rdlist) : rdlist[i] # s
  <2>1. rdlist' = Append(rdlist, s)
    BY <1>1, <1>3 DEF Enlist
  <2>2. rdlist' \in Seq(SourcesSet) /\ Len(rdlist') = Len(rdlist) + 1
    BY <2>1
  <2>3. \A i \in 1..Len(rdlist') : rdlist'[i] = IF i <= Len(rdlist) THEN rdlist[i] ELSE s
    BY <2>1
  <2> QED
    BY <1>3, <2>2, <2>3 DEF ReadyListInv
<1> QED
  BY <1>2, <1>3

(* A source that becomes ready gets behind everybody on the list. *)
LEMMA EnlistTurns ==
    ASSUME ProgressTypeOK, ReadyListInv, TurnInv, NEW s \in SourcesSet,
           raised' = Ready(s), rdlist' = Enlist(s), UNCHANGED <<capacity, batch, passed>>
    PROVE  rdlist' \in Seq(SourcesSet) /\ ReadyListInv' /\ TurnInv'
<1>1. rdlist \in Seq(SourcesSet)
  BY DEF ProgressTypeOK
<1>2. /\ rdlist' \in Seq(SourcesSet)
      /\ Len(rdlist') >= Len(rdlist)
      /\ \A i \in 1..Len(rdlist) : rdlist'[i] = rdlist[i]
      /\ \E i \in 1..Len(rdlist') : rdlist'[i] = s
      /\ \A i, j \in 1..Len(rdlist') : rdlist'[i] = rdlist'[j] => i = j
  BY <1>1, EnlistFacts
<1>3. Len(rdlist) \in Nat /\ Len(rdlist') \in Nat
  BY <1>1, <1>2
<1>4. ReadyListInv'
  <2>1. ASSUME NEW r \in raised' PROVE \E i \in 1..Len(rdlist') : rdlist'[i] = r
    <3>1. CASE r = s
      BY <1>2, <3>1
    <3>2. CASE r \in raised
      <4>1. PICK i \in 1..Len(rdlist) : rdlist[i] = r
        BY <3>2 DEF ReadyListInv
      <4>2. i \in 1..Len(rdlist') /\ rdlist'[i] = r
        BY <1>2, <1>3, <4>1
      <4> QED
        BY <4>2
    <3> QED
      BY <3>1, <3>2 DEF Ready
  <2> QED
    BY <1>2, <2>1 DEF ReadyListInv
<1>5. ASSUME NEW fd \in Fds, passed'[fd] # 0
      PROVE  PassedOver(fd)'
  <2>1. PassedOver(fd)
    BY <1>5 DEF TurnInv
  <2>2. ASSUME NEW p \in 1..Len(rdlist'), rdlist'[p] = fd
        PROVE  passed[fd] * capacity <= Len(rdlist') - p
    <3>1. PICK q \in 1..Len(rdlist) : rdlist[q] = fd
      BY <2>1 DEF PassedOver, ReadyListInv
    <3>2. q = p
      BY <1>2, <1>3, <2>2, <3>1
    <3>3. passed[fd] * capacity <= Len(rdlist) - q
      BY <2>1, <3>1 DEF PassedOver
    <3>4. passed[fd] * capacity \in Nat
      BY LimitIsNat DEF ProgressTypeOK
    <3> QED
      BY <1>2, <1>3, <3>1, <3>2, <3>3, <3>4
  <2>3. fd \in raised'
    BY <2>1 DEF PassedOver, Ready
  <2> QED
    BY <2>1, <2>2, <2>3 DEF PassedOver
<1> QED
  BY <1>2, <1>4, <1>5 DEF TurnInv

-----------------------------------------------------------------------------
(* Wait: what a poll does to the list. *)

(* A sequence without its first n elements. *)
LEMMA DropFacts ==
    ASSUME NEW S, NEW s \in Seq(S), NEW k \in 0..Len(s)
    PROVE  /\ SubSeq(s, k + 1, Len(s)) \in Seq(S)
           /\ Len(SubSeq(s, k + 1, Len(s))) = Len(s) - k
           /\ \A i \in 1..(Len(s) - k) : SubSeq(s, k + 1, Len(s))[i] = s[k + i]
<1>1. Len(s) \in Nat /\ k \in Nat
  OBVIOUS
<1> QED
  BY <1>1

(* A concatenation, element by element. *)
LEMMA ConcatFacts ==
    ASSUME NEW S, NEW s \in Seq(S), NEW t \in Seq(S)
    PROVE  /\ s \o t \in Seq(S)
           /\ Len(s \o t) = Len(s) + Len(t)
           /\ \A i \in 1..Len(s) : (s \o t)[i] = s[i]
           /\ \A i \in 1..Len(t) : (s \o t)[Len(s) + i] = t[i]
OBVIOUS

(* After a poll the list is what it did not reach, then what it reported:  *)
(* the same sources less the ones found not ready.  A ready source that is *)
(* left out has one full buffer more behind it.                            *)
LEMMA WaitFacts ==
    ASSUME ProgressTypeOK, ReadyListInv, NEW slots \in Nat \ {0}, Wait(slots)
    PROVE  /\ rdlist' \in Seq(SourcesSet)
           /\ batch' \in Seq(SourcesSet)
           /\ \A i, j \in 1..Len(rdlist') : rdlist'[i] = rdlist'[j] => i = j
           /\ \A s \in raised : \E i \in 1..Len(rdlist') : rdlist'[i] = s
           /\ passed' = [fd \in Fds |-> IF fd \in raised /\ \A i \in 1..Len(batch') : batch'[i] # fd
                                        THEN passed[fd] + 1 ELSE 0]
           /\ \A s \in raised : (\A i \in 1..Len(batch') : batch'[i] # s) =>
                 \A p \in 1..Len(rdlist), q \in 1..Len(rdlist') :
                    rdlist[p] = s /\ rdlist'[q] = s
                       => Len(rdlist') - q = Len(rdlist) - p + slots
<1>1. rdlist \in Seq(SourcesSet) /\ Len(rdlist) \in Nat
  BY DEF ProgressTypeOK
<1>2. PICK k \in 0..Len(rdlist), n \in 0..slots : \E at \in [1..n -> 1..k] :
        /\ FindsReady(at, n, k)
        /\ StopsAt(at, n, k, slots)
        /\ batch' = [i \in 1..n |-> rdlist[at[i]]]
        /\ rdlist' = SubSeq(rdlist, k + 1, Len(rdlist)) \o batch'
        /\ passed' = [fd \in Fds |-> IF fd \in raised /\ ~Contains(batch', fd)
                                     THEN passed[fd] + 1 ELSE 0]
  BY DEF Wait
<1>3. PICK at \in [1..n -> 1..k] :
        /\ FindsReady(at, n, k)
        /\ StopsAt(at, n, k, slots)
        /\ batch' = [i \in 1..n |-> rdlist[at[i]]]
        /\ rdlist' = SubSeq(rdlist, k + 1, Len(rdlist)) \o batch'
        /\ passed' = [fd \in Fds |-> IF fd \in raised /\ ~Contains(batch', fd)
                                     THEN passed[fd] + 1 ELSE 0]
  BY <1>2
<1> DEFINE L == Len(rdlist)
           m == L - k
<1>4. n \in Nat /\ k \in Nat /\ m \in Nat /\ L \in Nat /\ k + m = L
  BY <1>1
<1>5. /\ batch' \in Seq(SourcesSet) /\ Len(batch') = n
      /\ rdlist' \in Seq(SourcesSet) /\ Len(rdlist') = m + n
      /\ \A i \in 1..m : rdlist'[i] = rdlist[k + i]
      /\ \A i \in 1..n : rdlist'[m + i] = rdlist[at[i]]
  <2> HIDE DEF L, m
  <2> DEFINE rest == SubSeq(rdlist, k + 1, Len(rdlist))
  <2>1. rest \in Seq(SourcesSet) /\ Len(rest) = m
    BY <1>1, DropFacts DEF L, m
  <2>2. \A i \in 1..m : rest[i] = rdlist[k + i]
    BY <1>1, DropFacts DEF L, m
  <2>3. \A i \in 1..n : at[i] \in 1..Len(rdlist)
    BY <1>1
  <2>4. batch' \in [1..n -> SourcesSet]
    <3>1. \A i \in 1..n : rdlist[at[i]] \in SourcesSet
      BY <1>1, <2>3
    <3> QED
      BY <1>3, <3>1
  <2>5. batch' \in Seq(SourcesSet) /\ Len(batch') = n
    BY <1>4, <2>4
  <2> HIDE DEF rest
  <2>6. PICK found : found = batch'
    OBVIOUS
  <2>7. found \in Seq(SourcesSet) /\ Len(found) = n
    BY <2>5, <2>6
  <2>8. /\ rest \o found \in Seq(SourcesSet)
        /\ Len(rest \o found) = Len(rest) + Len(found)
        /\ \A i \in 1..Len(rest) : (rest \o found)[i] = rest[i]
        /\ \A i \in 1..Len(found) : (rest \o found)[Len(rest) + i] = found[i]
    <3>1. rest \in Seq(SourcesSet)
      BY <2>1
    <3>2. found \in Seq(SourcesSet)
      BY <2>7
    <3> QED
      BY <3>1, <3>2, ConcatFacts
  <2>9. rdlist' = rest \o found
    BY <1>3, <2>6 DEF rest
  <2>10. \A i \in 1..n : found[i] = rdlist[at[i]]
    BY <1>3, <2>6
  <2>11. rdlist' \in Seq(SourcesSet) /\ Len(rdlist') = m + n
    BY <2>1, <2>7, <2>8, <2>9
  <2>12. \A i \in 1..m : rdlist'[i] = rdlist[k + i]
    BY <2>1, <2>2, <2>8, <2>9
  <2>13. \A i \in 1..n : rdlist'[m + i] = rdlist[at[i]]
    BY <2>1, <2>7, <2>8, <2>9, <2>10
  <2> QED
    BY <2>5, <2>11, <2>12, <2>13
<1>6. \A i \in 1..n : batch'[i] = rdlist[at[i]]
  BY <1>3
<1>7. \A i \in 1..n : at[i] \in 1..k /\ at[i] \in 1..L
  BY <1>4
<1>8. \A i, j \in 1..n : at[i] = at[j] => i = j
  <2> SUFFICES ASSUME NEW i \in 1..n, NEW j \in 1..n, at[i] = at[j], i # j PROVE FALSE
    OBVIOUS
  <2>1. (i < j => at[i] < at[j]) /\ (j < i => at[j] < at[i])
    BY <1>3 DEF FindsReady
  <2>2. i < j \/ j < i
    OBVIOUS
  <2>3. at[i] \in Nat /\ at[j] \in Nat
    BY <1>4, <1>7
  <2> QED
    BY <2>1, <2>2, <2>3
<1>9. \A i \in 1..k : rdlist[i] \in raised => \E j \in 1..n : at[j] = i
  <2>1. {at[i] : i \in 1..n} = {i \in 1..k : rdlist[i] \in raised}
    BY <1>3 DEF FindsReady
  <2> QED
    BY <2>1
<1> HIDE DEF L, m
<1> DEFINE from(i) == IF i <= m THEN k + i ELSE at[i - m]
<1>10. \A i \in 1..(m + n) : from(i) \in 1..L /\ rdlist'[i] = rdlist[from(i)]
  <2> SUFFICES ASSUME NEW i \in 1..(m + n)
               PROVE  from(i) \in 1..L /\ rdlist'[i] = rdlist[from(i)]
    OBVIOUS
  <2>1. CASE i <= m
    <3>1. i \in 1..m /\ k + i \in 1..L
      BY <1>4, <2>1
    <3> QED
      BY <1>5, <2>1, <3>1
  <2>2. CASE i > m
    <3>1. i - m \in 1..n /\ m + (i - m) = i /\ ~(i <= m)
      BY <1>4, <2>2
    <3>2. rdlist'[i] = rdlist[at[i - m]]
      BY <1>5, <3>1
    <3> QED
      BY <1>7, <3>1, <3>2
  <2> QED
    BY <1>4, <2>1, <2>2
<1>11. \A i, j \in 1..(m + n) : from(i) = from(j) => i = j
  <2> SUFFICES ASSUME NEW i \in 1..(m + n), NEW j \in 1..(m + n), from(i) = from(j)
               PROVE  i = j
    OBVIOUS
  <2>1. \A x \in 1..(m + n) : x > m => x - m \in 1..n
    BY <1>4
  <2>2. \A x \in 1..(m + n) : x > m => from(x) \in 1..k /\ from(x) = at[x - m]
    BY <1>4, <1>7, <2>1
  <2>3. \A x \in 1..(m + n) : x <= m => from(x) > k /\ from(x) = k + x
    BY <1>4
  <2>4. CASE i <= m /\ j <= m
    BY <1>4, <2>3, <2>4
  <2>5. CASE i > m /\ j > m
    <3>1. at[i - m] = at[j - m] /\ i - m \in 1..n /\ j - m \in 1..n
      BY <2>1, <2>2, <2>5
    <3>2. i - m = j - m
      BY <1>8, <3>1
    <3> QED
      BY <1>4, <3>2
  <2>6. CASE i > m /\ j <= m
    <3>1. from(i) \in 1..k /\ from(j) > k
      BY <2>2, <2>3, <2>6
    <3> QED
      BY <1>4, <3>1
  <2>7. CASE i <= m /\ j > m
    <3>1. from(j) \in 1..k /\ from(i) > k
      BY <2>2, <2>3, <2>7
    <3> QED
      BY <1>4, <3>1
  <2> QED
    BY <1>4, <2>4, <2>5, <2>6, <2>7
<1> HIDE DEF from
<1>12. \A i, j \in 1..Len(rdlist') : rdlist'[i] = rdlist'[j] => i = j
  <2>1. \A i, j \in 1..L : rdlist[i] = rdlist[j] => i = j
    BY DEF ReadyListInv, L
  <2>2. ASSUME NEW i \in 1..(m + n), NEW j \in 1..(m + n), rdlist'[i] = rdlist'[j]
        PROVE  i = j
    <3>1. from(i) \in 1..L /\ from(j) \in 1..L /\ rdlist[from(i)] = rdlist[from(j)]
      BY <1>10, <2>2
    <3>2. from(i) = from(j)
      BY <2>1, <3>1
    <3> QED
      BY <1>11, <3>2
  <2>3. Len(rdlist') = m + n
    BY <1>5
  <2> QED
    BY <2>2, <2>3
<1>13. ASSUME NEW s \in raised
       PROVE  \E i \in 1..Len(rdlist') : rdlist'[i] = s
  <2>1. PICK p \in 1..L : rdlist[p] = s
    BY DEF ReadyListInv, L
  <2>2. CASE p <= k
    <3>1. p \in 1..k /\ rdlist[p] \in raised
      BY <1>4, <2>1, <2>2
    <3>2. PICK j \in 1..n : at[j] = p
      BY <1>9, <3>1
    <3>3. m + j \in 1..(m + n) /\ rdlist'[m + j] = s
      BY <1>4, <1>5, <2>1, <3>2
    <3> QED
      BY <1>5, <3>3
  <2>3. CASE p > k
    <3>1. p - k \in 1..m /\ p - k \in 1..(m + n) /\ k + (p - k) = p
      BY <1>4, <2>3
    <3>2. rdlist'[p - k] = s
      BY <1>5, <2>1, <3>1
    <3> QED
      BY <1>5, <3>1, <3>2
  <2> QED
    BY <1>4, <2>2, <2>3
<1>14. ASSUME NEW s \in raised, \A i \in 1..Len(batch') : batch'[i] # s,
              NEW p \in 1..Len(rdlist), NEW q \in 1..Len(rdlist'),
              rdlist[p] = s, rdlist'[q] = s
       PROVE  Len(rdlist') - q = Len(rdlist) - p + slots
  <2>1. p \in 1..L /\ L = Len(rdlist)
    BY DEF L
  <2>2. p > k
    <3> SUFFICES ASSUME p <= k PROVE FALSE
      BY <1>4, <2>1
    <3>1. p \in 1..k
      BY <1>4, <2>1
    <3>2. PICK j \in 1..n : at[j] = p
      BY <1>9, <1>14, <3>1
    <3>3. batch'[j] = s
      BY <1>6, <1>14, <3>2
    <3> QED
      BY <1>5, <1>14, <3>3
  <2>3. n = slots
    <3> SUFFICES ASSUME n # slots PROVE FALSE
      OBVIOUS
    <3>1. k = L
      BY <1>3 DEF StopsAt, L
    <3> QED
      BY <1>4, <2>1, <2>2, <3>1
  <2>4. p - k \in 1..m /\ p - k \in 1..(m + n) /\ k + (p - k) = p
    BY <1>4, <2>1, <2>2
  <2>5. rdlist'[p - k] = s
    BY <1>5, <1>14, <2>4
  <2>6. q = p - k
    BY <1>5, <1>12, <1>14, <2>4, <2>5
  <2>7. Len(rdlist') = m + slots /\ q = p - k /\ k + m = Len(rdlist)
    BY <1>4, <1>5, <2>1, <2>3, <2>6
  <2>8. p \in Nat /\ slots \in Nat
    BY <1>4, <2>1
  <2> QED
    BY <1>4, <2>7, <2>8
<1>15. \A fd \in Fds : Contains(batch', fd) <=> \E i \in 1..Len(batch') : batch'[i] = fd
  BY DEF Contains
<1>16. passed' = [fd \in Fds |-> IF fd \in raised /\ \A i \in 1..Len(batch') : batch'[i] # fd
                                 THEN passed[fd] + 1 ELSE 0]
  BY <1>3, <1>15
<1> QED
  BY <1>5, <1>12, <1>13, <1>14, <1>16

(* A poll passes over those it does not report and gives the rest a turn. *)
LEMMA PollTurns ==
    ASSUME ProgressTypeOK, ReadyListInv, TurnInv, Poll
    PROVE  /\ rdlist' \in Seq(SourcesSet)
           /\ batch' \in Seq(SourcesSet)
           /\ passed' \in [Fds -> Nat]
           /\ ReadyListInv'
           /\ TurnInv'
<1>1. capacity \in Nat \ {0} /\ Wait(capacity) /\ UNCHANGED <<raised, capacity>>
  BY LimitIsNat DEF Poll
<1>2. PICK c : c = capacity
  OBVIOUS
<1>3. c \in Nat \ {0} /\ Wait(c)
  BY <1>1, <1>2
<1>4. /\ rdlist' \in Seq(SourcesSet)
      /\ batch' \in Seq(SourcesSet)
      /\ \A i, j \in 1..Len(rdlist') : rdlist'[i] = rdlist'[j] => i = j
      /\ \A s \in raised : \E i \in 1..Len(rdlist') : rdlist'[i] = s
      /\ passed' = [fd \in Fds |-> IF fd \in raised /\ \A i \in 1..Len(batch') : batch'[i] # fd
                                   THEN passed[fd] + 1 ELSE 0]
      /\ \A s \in raised : (\A i \in 1..Len(batch') : batch'[i] # s) =>
            \A p \in 1..Len(rdlist), q \in 1..Len(rdlist') :
               rdlist[p] = s /\ rdlist'[q] = s
                  => Len(rdlist') - q = Len(rdlist) - p + c
  BY <1>3, WaitFacts
<1>5. passed \in [Fds -> Nat]
  BY DEF ProgressTypeOK
<1>6. passed' \in [Fds -> Nat]
  BY <1>4, <1>5
<1>7. ReadyListInv'
  BY <1>1, <1>4 DEF ReadyListInv
<1>8. ASSUME NEW fd \in Fds, passed'[fd] # 0
      PROVE  PassedOver(fd)'
  <2>1. fd \in raised /\ (\A i \in 1..Len(batch') : batch'[i] # fd) /\ passed'[fd] = passed[fd] + 1
    BY <1>4, <1>8
  <2>2. ASSUME NEW q \in 1..Len(rdlist'), rdlist'[q] = fd
        PROVE  passed'[fd] * capacity' <= Len(rdlist') - q
    <3>1. PICK p \in 1..Len(rdlist) : rdlist[p] = fd
      BY <2>1 DEF ReadyListInv
    <3>2. Len(rdlist') - q = Len(rdlist) - p + c
      BY <1>4, <2>1, <2>2, <3>1
    <3>3. Len(rdlist) \in Nat /\ p \in Nat /\ p <= Len(rdlist) /\ passed[fd] \in Nat
      BY <1>5 DEF ProgressTypeOK
    <3>4. passed[fd] * c <= Len(rdlist) - p
      <4>1. CASE passed[fd] = 0
        BY <1>3, <3>3, <4>1
      <4>2. CASE passed[fd] # 0
        BY <1>2, <3>1, <4>2 DEF TurnInv, PassedOver
      <4> QED
        BY <4>1, <4>2
    <3>5. (passed[fd] + 1) * c = passed[fd] * c + c /\ passed[fd] * c \in Nat
      BY <1>3, <3>3
    <3>6. passed'[fd] * capacity' = (passed[fd] + 1) * c
      BY <1>1, <1>2, <2>1
    <3> QED
      BY <1>3, <3>2, <3>3, <3>4, <3>5, <3>6
  <2> QED
    BY <1>1, <2>1, <2>2 DEF PassedOver
<1> QED
  BY <1>4, <1>6, <1>7, <1>8 DEF TurnInv

-----------------------------------------------------------------------------
(* The other steps. *)

(* What leaves the batch was not passed over. *)
LEMMA TailOfBatch ==
    ASSUME batch \in Seq(SourcesSet), batch # << >>, batch' = Tail(batch)
    PROVE  /\ batch' \in Seq(SourcesSet)
           /\ Head(batch) = batch[1] /\ 1 \in 1..Len(batch)
           /\ \A i \in 1..Len(batch') : i + 1 \in 1..Len(batch) /\ batch'[i] = batch[i + 1]
OBVIOUS

(* A step that leaves the list alone, and takes at most the channel and    *)
(* the descriptor just served from the ready sources, keeps the turns.     *)
LEMMA SameTurns ==
    ASSUME ProgressTypeOK, ReadyListInv, TurnInv, UNCHANGED <<capacity, rdlist, passed>>,
           raised' \subseteq raised,
           \A fd \in Fds : passed[fd] # 0 /\ fd \in raised => fd \in raised',
           \A i \in 1..Len(batch') : \E j \in 1..Len(batch) : batch'[i] = batch[j]
    PROVE  ReadyListInv' /\ TurnInv'
<1>1. ReadyListInv'
  BY DEF ReadyListInv
<1>2. ASSUME NEW fd \in Fds, passed'[fd] # 0
      PROVE  PassedOver(fd)'
  BY <1>2 DEF TurnInv, PassedOver
<1> QED
  BY <1>1, <1>2 DEF TurnInv

(* The invariant is inductive. *)
LEMMA NextProgressInv == ProgressInv /\ [ProgressNext]_progressVars => ProgressInv'
<1> SUFFICES ASSUME ProgressInv, [ProgressNext]_progressVars PROVE ProgressInv'
  OBVIOUS
<1>0. ProgressTypeOK /\ pending <= sent /\ ConstructionInv /\ ReadyListInv /\ TurnInv
  BY DEF ProgressInv
<1>1. ASSUME NEW n \in 0..(MAX_READY_EVENTS_CAPACITY + 1), NewWithCapacity(n)
      PROVE  ProgressInv'
  <2>1. state = "none" /\ state' \in {"idle", "refused"} /\ capacity' = n
        /\ (state' = "idle" => n <= MAX_READY_EVENTS_CAPACITY)
    BY <1>1, LimitIsNat DEF NewWithCapacity
  <2>2. UNCHANGED <<raised, rdlist, batch, noted, pending, sent, passed>>
    BY <1>1 DEF NewWithCapacity
  <2>3. \A fd \in Fds : passed[fd] = 0
    BY <1>0, <2>1 DEF ConstructionInv
  <2>4. ProgressTypeOK'
    BY <1>0, <2>1, <2>2 DEF ProgressTypeOK
  <2>5. ConstructionInv'
    BY <2>1 DEF ConstructionInv
  <2>6. ReadyListInv' /\ TurnInv'
    BY <1>0, <2>2, <2>3 DEF ReadyListInv, TurnInv
  <2> QED
    BY <1>0, <2>2, <2>4, <2>5, <2>6 DEF ProgressInv
<1>2. ASSUME NEW s \in SourcesSet, NEW n \in 0..1, Exists, raised' = Ready(s), rdlist' = Enlist(s),
             sent + n <= MaxMessages, sent' = sent + n, pending' = pending + n,
             UNCHANGED <<capacity, state, batch, noted, passed>>
      PROVE  ProgressInv'
  <2>1. rdlist' \in Seq(SourcesSet) /\ ReadyListInv' /\ TurnInv'
    BY <1>0, <1>2, EnlistTurns
  <2>2. pending' <= sent' /\ pending' \in 0..MaxMessages /\ sent' \in 0..MaxMessages
    BY <1>0, <1>2, ProgressAssumption DEF ProgressTypeOK
  <2>3. raised' \in SUBSET SourcesSet
    BY <1>0, <1>2 DEF Ready, ProgressTypeOK
  <2>4. ProgressTypeOK'
    BY <1>0, <1>2, <2>1, <2>2, <2>3 DEF ProgressTypeOK
  <2>5. ConstructionInv'
    BY <1>0, <1>2 DEF ConstructionInv
  <2> QED
    BY <2>1, <2>2, <2>4, <2>5 DEF ProgressInv
<1>3. ASSUME NEW fd \in Fds, Raise(fd)
      PROVE  ProgressInv'
  <2>1. fd \in SourcesSet /\ 0 \in 0..1
    BY DEF SourcesSet
  <2>2. sent + 0 <= MaxMessages /\ sent' = sent + 0 /\ pending' = pending + 0
    BY <1>0, <1>3, ProgressAssumption DEF Raise, ProgressTypeOK
  <2> QED
    BY <1>2, <1>3, <2>1, <2>2 DEF Raise
<1>4. ASSUME NEW n \in 0..1, Send(n)
      PROVE  ProgressInv'
  <2>1. Channel \in SourcesSet
    BY DEF SourcesSet
  <2> QED
    BY <1>2, <1>4, <2>1 DEF Send
<1>5. CASE Poll
  <2>1. /\ rdlist' \in Seq(SourcesSet)
        /\ batch' \in Seq(SourcesSet)
        /\ passed' \in [Fds -> Nat]
        /\ ReadyListInv'
        /\ TurnInv'
    BY <1>0, <1>5, PollTurns
  <2>2. state = "idle" /\ state' = "dispatch" /\ UNCHANGED <<capacity, raised, noted, pending, sent>>
    BY <1>5 DEF Poll
  <2>3. ProgressTypeOK'
    BY <1>0, <2>1, <2>2 DEF ProgressTypeOK
  <2>4. ConstructionInv'
    BY <1>0, <2>2 DEF ConstructionInv
  <2> QED
    BY <1>0, <2>1, <2>2, <2>3, <2>4 DEF ProgressInv
<1>6. CASE PollInvalid \/ DrainEnds \/ RunClosure
  <2>1. /\ UNCHANGED <<capacity, raised, rdlist, batch, noted, sent, passed>>
        /\ state \in {"idle", "drain"}
        /\ state' \in {"error", "idle", "drain"}
        /\ state' = "error" => capacity \notin 1..EpMaxEvents
    BY <1>6 DEF PollInvalid, DrainEnds, RunClosure
  <2>2. pending' \in 0..MaxMessages /\ pending' <= sent'
    BY <1>0, <1>6, ProgressAssumption DEF PollInvalid, DrainEnds, RunClosure, ProgressTypeOK
  <2>3. ProgressTypeOK'
    BY <1>0, <2>1, <2>2 DEF ProgressTypeOK
  <2>4. ReadyListInv' /\ TurnInv'
    BY <1>0, <2>1, SameTurns
  <2>5. ConstructionInv'
    BY <1>0, <2>1 DEF ConstructionInv
  <2> QED
    BY <2>2, <2>3, <2>4, <2>5 DEF ProgressInv
<1>7. ASSUME UNCHANGED <<capacity, state, rdlist, pending, sent, passed>>, state = "dispatch",
             batch # << >>, batch' = Tail(batch), noted' \in BOOLEAN,
             raised' \subseteq raised, raised \ raised' \subseteq {Head(batch)}
      PROVE  ProgressInv'
  <2>1. /\ batch' \in Seq(SourcesSet)
        /\ Head(batch) = batch[1] /\ 1 \in 1..Len(batch)
        /\ \A i \in 1..Len(batch') : i + 1 \in 1..Len(batch) /\ batch'[i] = batch[i + 1]
    BY <1>0, <1>7, TailOfBatch DEF ProgressTypeOK
  <2>2. ASSUME NEW fd \in Fds, passed[fd] # 0, fd \in raised PROVE fd \in raised'
    <3>1. batch[1] # fd
      BY <1>0, <2>1, <2>2 DEF TurnInv, PassedOver
    <3> QED
      BY <1>7, <2>1, <2>2, <3>1
  <2>3. \A i \in 1..Len(batch') : \E j \in 1..Len(batch) : batch'[i] = batch[j]
    BY <2>1
  <2>4. ReadyListInv' /\ TurnInv'
    BY <1>0, <1>7, <2>2, <2>3, SameTurns
  <2>5. ProgressTypeOK'
    BY <1>0, <1>7, <2>1 DEF ProgressTypeOK
  <2>6. ConstructionInv'
    BY <1>0, <1>7 DEF ConstructionInv
  <2> QED
    BY <1>0, <1>7, <2>4, <2>5, <2>6 DEF ProgressInv
<1>8. CASE NoteEndpointEvent
  BY <1>7, <1>8 DEF NoteEndpointEvent
<1>9. ASSUME NEW fd \in Fds, Process(fd)
      PROVE  ProgressInv'
  <2>1. noted \in BOOLEAN
    BY <1>0 DEF ProgressTypeOK
  <2> QED
    BY <1>7, <1>9, <2>1 DEF Process
<1>10. CASE DispatchEnds
  <2>1. /\ UNCHANGED <<capacity, rdlist, batch, pending, sent, passed>>
        /\ state = "dispatch" /\ state' \in {"drain", "idle"}
        /\ raised' \subseteq raised /\ raised \ raised' \subseteq {Channel}
        /\ noted' = FALSE
    BY <1>10 DEF DispatchEnds
  <2>2. ReadyListInv' /\ TurnInv'
    BY <1>0, <2>1, SameTurns, ProgressAssumption
  <2>3. ProgressTypeOK'
    BY <1>0, <2>1 DEF ProgressTypeOK
  <2>4. ConstructionInv'
    BY <1>0, <2>1 DEF ConstructionInv
  <2> QED
    BY <1>0, <2>1, <2>2, <2>3, <2>4 DEF ProgressInv
<1>11. CASE UNCHANGED progressVars
  <2>1. ProgressTypeOK' /\ ReadyListInv' /\ ConstructionInv'
    BY <1>0, <1>11 DEF progressVars, ProgressTypeOK, ReadyListInv, ConstructionInv
  <2>2. TurnInv'
    BY <1>0, <1>11 DEF progressVars, TurnInv, PassedOver
  <2> QED
    BY <1>0, <1>11, <2>1, <2>2 DEF progressVars, ProgressInv
<1> QED
  BY <1>1, <1>3, <1>4, <1>5, <1>6, <1>8, <1>9, <1>10, <1>11
     DEF ProgressNext, Dispatch, GivenUp

(* It holds before the constructor runs. *)
LEMMA InitProgressInv == ProgressInit => ProgressInv
<1> SUFFICES ASSUME ProgressInit PROVE ProgressInv
  OBVIOUS
<1>1. ProgressTypeOK
  <2>1. << >> \in Seq(SourcesSet)
    OBVIOUS
  <2>2. 0 \in 0..(MAX_READY_EVENTS_CAPACITY + 1) /\ 0 \in 0..MaxMessages
    BY LimitIsNat, ProgressAssumption
  <2>3. passed \in [Fds -> Nat]
    BY DEF ProgressInit
  <2>4. noted \in BOOLEAN
    BY DEF ProgressInit
  <2> QED
    BY <2>1, <2>2, <2>3, <2>4 DEF ProgressInit, ProgressTypeOK
<1>2. ConstructionInv /\ ReadyListInv /\ TurnInv
  BY DEF ProgressInit, ConstructionInv, ReadyListInv, TurnInv
<1> QED
  BY <1>1, <1>2 DEF ProgressInit, ProgressInv

-----------------------------------------------------------------------------
(* Theorems. *)

(* The constructor, the ready list and the turns stay as described. *)
THEOREM ProgressInvariant == ProgressSpec => []ProgressInv
BY InitProgressInv, NextProgressInv, PTL DEF ProgressSpec

(* Every variable keeps its type, with a list and a batch of any length;   *)
(* the drain takes no closure that was not sent.                           *)
THEOREM ProgressTypes == ProgressSpec => []ProgressTypeOK
<1>1. ProgressInv => ProgressTypeOK
  BY DEF ProgressInv
<1> QED
  BY <1>1, ProgressInvariant, PTL

(* With a size of EpollEvent and an i32::MAX of any value, the largest     *)
(* capacity the constructor accepts is the largest epoll_wait accepts:     *)
(* only capacity 0 makes `run` fail.                                       *)
THEOREM OnlyZeroIsInvalid == ProgressSpec => []InvalidOnlyForZero
<1>1. ProgressInv => InvalidOnlyForZero
  BY LimitIsNat DEF ProgressInv, ProgressTypeOK, ConstructionInv, InvalidOnlyForZero
<1> QED
  BY <1>1, ProgressInvariant, PTL

(* A ready descriptor is passed over by at most (number of other sources / *)
(* capacity) polls in a row: those served instead are all behind it on     *)
(* the ready list, each once.                                              *)
THEOREM BypassIsBounded == ProgressSpec => []BoundedBypass
<1>1. ProgressInv => BoundedBypass
  <2> SUFFICES ASSUME ProgressInv, NEW fd \in Fds
               PROVE  passed[fd] * capacity <= Cardinality(SourcesSet \ {fd})
    BY DEF BoundedBypass
  <2> DEFINE others == SourcesSet \ {fd}
  <2>1. IsFiniteSet(others) /\ Cardinality(others) \in Nat
    <3>1. IsFiniteSet(SourcesSet)
      BY ProgressAssumption, FS_AddElement DEF SourcesSet
    <3>2. IsFiniteSet(others)
      BY <3>1, FS_RemoveElement
    <3> QED
      BY <3>2, FS_CardinalityType
  <2>2. capacity \in Nat /\ passed[fd] \in Nat /\ rdlist \in Seq(SourcesSet)
    BY LimitIsNat DEF ProgressInv, ProgressTypeOK
  <2>3. CASE passed[fd] = 0
    BY <2>1, <2>2, <2>3
  <2>4. CASE passed[fd] # 0
    <3>1. PassedOver(fd)
      BY <2>4 DEF ProgressInv, TurnInv
    <3>2. PICK p \in 1..Len(rdlist) : rdlist[p] = fd
      BY <3>1 DEF ProgressInv, ReadyListInv, PassedOver
    <3>3. passed[fd] * capacity <= Len(rdlist) - p
      BY <3>1, <3>2 DEF PassedOver
    <3>4. Len(rdlist) \in Nat /\ p \in Nat /\ p <= Len(rdlist)
      BY <2>2
    <3> DEFINE behind == (p + 1)..Len(rdlist)
               who == [i \in behind |-> rdlist[i]]
    <3>5. who \in Injection(behind, others)
      <4>1. \A i \in behind : i \in 1..Len(rdlist) /\ i # p
        BY <3>4
      <4>2. \A i, j \in 1..Len(rdlist) : rdlist[i] = rdlist[j] => i = j
        BY DEF ProgressInv, ReadyListInv
      <4>3. \A i \in behind : rdlist[i] \in others
        BY <2>2, <3>2, <4>1, <4>2
      <4>4. \A i, j \in behind : rdlist[i] = rdlist[j] => i = j
        BY <4>1, <4>2
      <4> QED
        BY <4>3, <4>4 DEF Injection, IsInjective
    <3>6. Cardinality(behind) <= Cardinality(others)
      BY <2>1, <3>5, FS_Injection
    <3>7. Cardinality(behind) = Len(rdlist) - p
      <4>1. p + 1 \in Int /\ Len(rdlist) \in Int
        BY <3>4
      <4>2. Cardinality(behind) = IF p + 1 > Len(rdlist) THEN 0 ELSE Len(rdlist) - (p + 1) + 1
        BY <4>1, FS_Interval
      <4> QED
        BY <3>4, <4>2
    <3>8. passed[fd] * capacity \in Nat
      BY <2>2
    <3> HIDE DEF others, behind
    <3>9. passed[fd] * capacity <= Cardinality(others)
      BY <2>1, <3>3, <3>4, <3>6, <3>7, <3>8
    <3> QED
      BY <3>9 DEF others
  <2> QED
    BY <2>3, <2>4
<1> QED
  BY <1>1, ProgressInvariant, PTL
=============================================================================
