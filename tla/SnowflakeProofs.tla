--------------------------- MODULE SnowflakeProofs ---------------------------
(***************************************************************************)
(* The ids of all generators are distinct, for any field widths, as long   *)
(* as no clock is set back while its generator waits for a new millisecond.*)
(***************************************************************************)
EXTENDS Snowflake, FiniteSetTheorems, TLAPS

Seq0 == 0..(SeqSize - 1)

(* Multiplication leaves a gap of one multiplier between successive factors. *)
LEMMA TimesMonotone ==
    ASSUME NEW x \in Nat, NEW y \in Nat, NEW z \in Nat, x < y
    PROVE  x * z + z <= y * z
<1>1. PICK d \in Nat : y = x + 1 + d
  <2>1. y - x - 1 \in Nat /\ y = x + 1 + (y - x - 1)
    OBVIOUS
  <2> QED BY <2>1
<1>2. y * z = x * z + z + d * z
  BY <1>1
<1>3. d * z \in Nat /\ x * z \in Nat
  OBVIOUS
<1> QED BY <1>2, <1>3

(* The node id and the sequence number fit below the timestamp. *)
LEMMA LowBits ==
    ASSUME NEW n \in Node, NEW s \in Seq0
    PROVE  /\ n * SeqSize + s \in Nat
           /\ n * SeqSize + s < NodeSize * SeqSize
<1>1. n \in Nat /\ SeqSize \in Nat /\ NodeSize \in Nat /\ n < NodeSize
      /\ s \in Nat /\ s < SeqSize
  BY Sizes DEF Seq0
<1>2. n * SeqSize + SeqSize <= NodeSize * SeqSize
  BY <1>1, TimesMonotone
<1>3. n * SeqSize \in Nat /\ NodeSize * SeqSize \in Nat
  BY <1>1
<1> QED BY <1>1, <1>2, <1>3

(* An id with an earlier timestamp, or an earlier sequence number, is smaller. *)
LEMMA PackOrder ==
    ASSUME NEW n \in Node, NEW m \in Node, NEW s \in Seq0, NEW r \in Seq0, NEW t \in Nat, NEW u \in Nat
    PROVE  /\ Pack(t, n, s) \in Nat
           /\ t < u => Pack(t, n, s) < Pack(u, m, r)
           /\ t = u /\ n < m => Pack(t, n, s) < Pack(u, m, r)
           /\ t = u /\ n = m /\ s < r => Pack(t, n, s) < Pack(u, m, r)
<1> DEFINE W == NodeSize * SeqSize
           a == n * SeqSize + s
           b == m * SeqSize + r
<1>0. SeqSize \in Nat /\ NodeSize \in Nat /\ n \in Nat /\ m \in Nat /\ s \in Nat /\ r \in Nat
      /\ s < SeqSize /\ r < SeqSize
  BY Sizes DEF Seq0
<1>1. W \in Nat /\ a \in Nat /\ b \in Nat /\ a < W /\ b < W
  BY <1>0, LowBits
<1>2. Pack(t, n, s) = t * W + a /\ Pack(u, m, r) = u * W + b
  BY <1>0 DEF Pack
<1>3. n < m => a < b
  <2> SUFFICES ASSUME n < m PROVE a < b
    OBVIOUS
  <2>1. n * SeqSize + SeqSize <= m * SeqSize
    BY <1>0, TimesMonotone
  <2>2. n * SeqSize \in Nat /\ m * SeqSize \in Nat
    BY <1>0
  <2> QED BY <1>0, <2>1, <2>2
<1>4. n = m /\ s < r => a < b
  <2>1. n * SeqSize \in Nat
    BY <1>0
  <2> QED BY <1>0, <2>1
<1> HIDE DEF W, a, b
<1>5. t * W \in Nat /\ u * W \in Nat
  BY <1>1
<1>6. t < u => t * W + W <= u * W
  BY <1>1, TimesMonotone
<1> QED BY <1>1, <1>2, <1>3, <1>4, <1>5, <1>6

-----------------------------------------------------------------------------
(* Every id returned so far has an earlier timestamp than the last one, or *)
(* the same and no greater sequence number; a generator that spins has     *)
(* forgotten its sequence number, but will take a later timestamp.         *)
Past(n, i) ==
    \E t \in Nat, s \in Seq0 :
        /\ i = Pack(t, n, s)
        /\ \/ t < lastTimestamp[n]
           \/ t = lastTimestamp[n] /\ (spinning[n] \/ s <= sequence[n])

IssuedInv ==
    /\ TypeOK
    /\ \A n \in Node : IsFiniteSet(issued[n]) /\ Cardinality(issued[n]) = calls[n]
    /\ \A n \in Node : \A i \in issued[n] : Past(n, i)
    /\ \A n \in Node : spinning[n] => clock[n] >= lastTimestamp[n]

(* What UId and Spin choose is greater than every id in the past. *)
Chosen(n, ts, s) ==
    /\ ts \in Nat /\ s \in Seq0
    /\ \/ ts > lastTimestamp[n]
       \/ ts = lastTimestamp[n] /\ ~spinning[n] /\ s > sequence[n]

(* A chosen id is greater than each id of the past. *)
LEMMA ChosenIsNew ==
    ASSUME TypeOK, NEW n \in Node, NEW ts, NEW s, Chosen(n, ts, s), NEW i, Past(n, i)
    PROVE  i < Pack(ts, n, s)
<1>1. PICK u \in Nat, r \in Seq0 :
         /\ i = Pack(u, n, r)
         /\ \/ u < lastTimestamp[n]
            \/ u = lastTimestamp[n] /\ (spinning[n] \/ r <= sequence[n])
  BY DEF Past
<1>2. lastTimestamp[n] \in Int /\ sequence[n] \in Int /\ ts \in Nat /\ s \in Seq0
  BY DEF TypeOK, Chosen
<1>3. u < ts \/ (u = ts /\ r < s)
  BY <1>1, <1>2 DEF Chosen, Seq0
<1> QED BY <1>1, <1>2, <1>3, PackOrder

(* A step that returns an id returns a chosen one: the loop in Id waited for *)
(* a later millisecond, or the sequence number did not wrap.                 *)
LEMMA StepChooses ==
    ASSUME IssuedInv, ~BackInSpin, NEW n \in Node, UId(n) \/ Spin(n),
           calls' # calls
    PROVE  \E ts, s : /\ Chosen(n, ts, s) /\ Return(n, ts, s)
                      /\ sequence' = [sequence EXCEPT ![n] = s]
                      /\ spinning' = [spinning EXCEPT ![n] = FALSE]
<1>0. /\ clock[n] \in Nat /\ lastTimestamp[n] \in Int /\ sequence[n] \in Seq0
      /\ spinning[n] \in BOOLEAN
      /\ sequence \in [Node -> Seq0] /\ spinning \in [Node -> BOOLEAN]
  BY DEF IssuedInv, TypeOK, Seq0
<1>1. CASE Spin(n)
  <2>1. clock[n] > lastTimestamp[n]
    BY <1>0, <1>1 DEF Spin, NewMillisecond, IssuedInv
  <2>2. Return(n, clock[n], sequence[n]) /\ sequence' = [sequence EXCEPT ![n] = sequence[n]]
        /\ spinning' = [spinning EXCEPT ![n] = FALSE]
    BY <1>0, <1>1 DEF Spin
  <2> QED BY <1>0, <2>1, <2>2, Zenon DEF Chosen
<1>2. CASE UId(n) /\ clock[n] # lastTimestamp[n]
  <2>1. Return(n, clock[n], 0) /\ sequence' = [sequence EXCEPT ![n] = 0]
        /\ spinning' = spinning /\ clock[n] > lastTimestamp[n] /\ ~spinning[n]
    BY <1>0, <1>2 DEF UId, Behind
  <2>2. spinning' = [spinning EXCEPT ![n] = FALSE] /\ 0 \in Seq0
    BY <1>0, <2>1, Sizes DEF Seq0
  <2> QED BY <1>0, <2>1, <2>2, Zenon DEF Chosen
<1>3. CASE UId(n) /\ clock[n] = lastTimestamp[n]
  <2> DEFINE s == NextSequence(n)
  <2>1. /\ Return(n, clock[n], s) /\ s # 0 /\ sequence' = [sequence EXCEPT ![n] = s]
        /\ spinning' = spinning /\ ~spinning[n]
    BY <1>3 DEF UId
  <2>2. s \in Seq0 /\ s > sequence[n]
    <3>1. SeqSize \in Nat \ {0} /\ sequence[n] \in 0..(SeqSize - 1)
      BY <1>0, Sizes DEF Seq0
    <3>2. CASE sequence[n] + 1 < SeqSize
      <4>1. (sequence[n] + 1) % SeqSize = sequence[n] + 1
        BY <3>1, <3>2
      <4> QED BY <3>1, <3>2, <4>1 DEF NextSequence, Seq0
    <3>3. CASE sequence[n] + 1 = SeqSize
      <4>1. (sequence[n] + 1) % SeqSize = 0
        BY <3>1, <3>3
      <4> QED BY <4>1, <2>1 DEF NextSequence
    <3> QED BY <3>1, <3>2, <3>3
  <2>3. spinning' = [spinning EXCEPT ![n] = FALSE]
    BY <1>0, <2>1
  <2> HIDE DEF s
  <2> QED BY <1>0, <1>3, <2>1, <2>2, <2>3, Zenon DEF Chosen
<1> QED BY <1>1, <1>2, <1>3

(* A returned id joins the past and keeps the rest of it there. *)
LEMMA ReturnStep ==
    ASSUME IssuedInv, NEW n \in Node, NEW ts, NEW s, Chosen(n, ts, s), Return(n, ts, s),
           sequence' = [sequence EXCEPT ![n] = s],
           spinning' = [spinning EXCEPT ![n] = FALSE]
    PROVE  IssuedInv'
<1> DEFINE id == Pack(ts, n, s)
<1>0. TypeOK /\ ts \in Nat /\ s \in Seq0 /\ id \in Nat
  BY PackOrder DEF IssuedInv, Chosen
<1>1. TypeOK'
  <2>1. calls[n] + 1 \in Nat
    BY <1>0 DEF TypeOK
  <2> HIDE DEF id
  <2>2. issued' = [issued EXCEPT ![n] = issued[n] \cup {id}] /\ lastTimestamp' = [lastTimestamp EXCEPT ![n] = ts]
        /\ calls' = [calls EXCEPT ![n] = calls[n] + 1] /\ UNCHANGED <<clock, backs>>
    BY <1>0 DEF Return, TypeOK, id
  <2>3. /\ lastTimestamp' \in [Node -> Nat \cup {-1}]
        /\ clock' \in [Node -> Nat] /\ backs' \in Nat
    BY <1>0, <2>2 DEF TypeOK
  <2>4. sequence' \in [Node -> 0..(SeqSize - 1)] /\ spinning' \in [Node -> BOOLEAN]
    BY <1>0 DEF TypeOK, Seq0
  <2>5. issued' \in [Node -> SUBSET Nat]
    <3>1. issued[n] \cup {id} \in SUBSET Nat
      BY <1>0 DEF TypeOK
    <3> QED BY <1>0, <2>2, <3>1 DEF TypeOK
  <2>6. calls' \in [Node -> Nat]
    BY <1>0, <2>1, <2>2 DEF TypeOK
  <2> QED BY <2>3, <2>4, <2>5, <2>6 DEF TypeOK
<1>2. \A i \in issued[n] : i < id /\ i \in Nat
  BY <1>0, ChosenIsNew DEF IssuedInv, TypeOK
<1>3. id \notin issued[n]
  <2> HIDE DEF id
  <2> QED BY <1>0, <1>2
<1>4. ASSUME NEW m \in Node
      PROVE  IsFiniteSet(issued'[m]) /\ Cardinality(issued'[m]) = calls'[m]
  <2>1. CASE m = n
    <3>1. issued'[n] = issued[n] \cup {id} /\ calls'[n] = calls[n] + 1
      BY <1>0 DEF Return, TypeOK
    <3>2. IsFiniteSet(issued[n]) /\ Cardinality(issued[n]) = calls[n]
      BY DEF IssuedInv
    <3> HIDE DEF id
    <3>3. /\ IsFiniteSet(issued[n] \cup {id})
          /\ Cardinality(issued[n] \cup {id}) = Cardinality(issued[n]) + 1
      BY <3>2, <1>3, FS_AddElement, Zenon
    <3> QED BY <2>1, <3>1, <3>2, <3>3
  <2>2. CASE m # n
    BY <2>2, <1>0 DEF Return, TypeOK, IssuedInv
  <2> QED BY <2>1, <2>2
<1>5. ASSUME NEW m \in Node, NEW i \in issued'[m]
      PROVE  Past(m, i)'
  <2>1. CASE m # n
    <3>1. i \in issued[m] /\ lastTimestamp'[m] = lastTimestamp[m]
          /\ sequence'[m] = sequence[m] /\ spinning'[m] = spinning[m]
      BY <2>1, <1>0, <1>5 DEF Return, TypeOK
    <3>2. Past(m, i)
      BY <3>1 DEF IssuedInv
    <3> QED BY <3>1, <3>2, Zenon DEF Past
  <2>2. CASE m = n
    <3>1. /\ i \in issued[n] \/ i = id
          /\ lastTimestamp'[n] = ts /\ sequence'[n] = s /\ ~spinning'[n]
      BY <2>2, <1>0, <1>5 DEF Return, TypeOK
    <3>2. CASE i = id
      BY <2>2, <3>1, <3>2, <1>0 DEF Past, Seq0
    <3>3. CASE i \in issued[n]
      <4>1. PICK u \in Nat, r \in Seq0 :
              /\ i = Pack(u, n, r)
              /\ \/ u < lastTimestamp[n]
                 \/ u = lastTimestamp[n] /\ (spinning[n] \/ r <= sequence[n])
        BY <3>3 DEF IssuedInv, Past
      <4>2. lastTimestamp[n] \in Int /\ sequence[n] \in Int
        BY <1>0 DEF TypeOK
      <4>3. u < ts \/ (u = ts /\ r <= s)
        BY <1>0, <4>1, <4>2 DEF Chosen, Seq0
      <4> QED BY <2>2, <3>1, <4>1, <4>3 DEF Past
    <3> QED BY <3>1, <3>2, <3>3
  <2> QED BY <2>1, <2>2
<1>6. ASSUME NEW m \in Node, spinning'[m]
      PROVE  clock'[m] >= lastTimestamp'[m]
  <2>1. m # n
    BY <1>6, <1>0 DEF TypeOK
  <2>2. spinning[m] /\ clock' = clock /\ lastTimestamp'[m] = lastTimestamp[m]
    BY <2>1, <1>6, <1>0 DEF TypeOK, Return
  <2> QED BY <2>2 DEF IssuedInv
<1> QED BY <1>1, <1>4, <1>5, <1>6 DEF IssuedInv

(* A step that returns no id: the loop is entered, or a clock changes. *)
LEMMA QuietStep ==
    ASSUME IssuedInv, TypeOK', UNCHANGED <<lastTimestamp, issued, calls>>,
           \A m \in Node : \/ spinning'[m]
                           \/ spinning'[m] = spinning[m] /\ sequence'[m] = sequence[m],
           \A m \in Node : spinning'[m] => clock'[m] >= lastTimestamp[m]
    PROVE  IssuedInv'
<1>1. ASSUME NEW m \in Node, NEW i \in issued'[m] PROVE Past(m, i)'
  <2>1. Past(m, i)
    BY <1>1 DEF IssuedInv
  <2> QED BY <2>1 DEF Past
<1> QED BY <1>1 DEF IssuedInv

(* No id has been returned. *)
LEMMA IssuedInit == Init => IssuedInv
<1> SUFFICES ASSUME Init PROVE IssuedInv
  OBVIOUS
<1>1. TypeOK
  BY Sizes DEF Init, TypeOK
<1>2. \A n \in Node : IsFiniteSet(issued[n]) /\ Cardinality(issued[n]) = calls[n]
  BY FS_EmptySet DEF Init
<1> QED BY <1>1, <1>2 DEF Init, IssuedInv

(* Every step keeps the invariant; SetBack needs that a waiting generator's *)
(* clock is left alone.                                                     *)
LEMMA IssuedNext ==
    ASSUME ~BackInSpin, IssuedInv, [Next]_vars
    PROVE  IssuedInv'
<1>0. TypeOK
  BY DEF IssuedInv
<1>1. CASE UNCHANGED vars
  BY <1>1, <1>0, QuietStep DEF vars, gen, TypeOK, IssuedInv
<1>2. ASSUME NEW n \in Node, UId(n) \/ Spin(n) PROVE IssuedInv'
  <2>1. CASE calls' # calls
    BY <1>2, <2>1, StepChooses, ReturnStep
  <2>2. CASE calls' = calls
    <3>1. \A ts, s : ~Return(n, ts, s)
      BY <2>2, <1>0 DEF Return, TypeOK
    <3>2. /\ clock[n] = lastTimestamp[n]
          /\ sequence' = [sequence EXCEPT ![n] = 0]
          /\ spinning' = [spinning EXCEPT ![n] = TRUE]
          /\ UNCHANGED <<clock, lastTimestamp, issued, calls, backs>>
      BY <1>2, <3>1 DEF UId, Spin
    <3>3. TypeOK'
      BY <1>0, <3>2, Sizes DEF TypeOK
    <3>4. \A m \in Node : \/ spinning'[m]
                          \/ spinning'[m] = spinning[m] /\ sequence'[m] = sequence[m]
      BY <1>0, <3>2 DEF TypeOK
    <3>5. \A m \in Node : spinning'[m] => clock'[m] >= lastTimestamp[m]
      BY <1>0, <3>2 DEF TypeOK, IssuedInv
    <3> QED BY <3>2, <3>3, <3>4, <3>5, QuietStep, Zenon
  <2> QED BY <2>1, <2>2
<1>3. ASSUME NEW n \in Node, Tick(n) PROVE IssuedInv'
  <2>1. clock[n] + 1 \in Nat
    BY <1>0 DEF TypeOK
  <2>2. TypeOK'
    BY <1>0, <1>3, <2>1 DEF TypeOK, Tick, gen
  <2>3. \A m \in Node : spinning'[m] => clock'[m] >= lastTimestamp[m]
    BY <1>0, <1>3 DEF TypeOK, Tick, gen, IssuedInv
  <2> QED BY <1>3, <2>2, <2>3, QuietStep DEF Tick, gen
<1>4. ASSUME NEW n \in Node, SetBack(n) PROVE IssuedInv'
  <2>1. clock[n] - 1 \in Nat /\ backs + 1 \in Nat
    BY <1>0, <1>4 DEF TypeOK, SetBack
  <2>2. TypeOK'
    BY <1>0, <1>4, <2>1 DEF TypeOK, SetBack, gen
  <2>3. \A m \in Node : spinning'[m] => clock'[m] >= lastTimestamp[m]
    BY <1>0, <1>4 DEF TypeOK, SetBack, gen, IssuedInv
  <2> QED BY <1>4, <2>2, <2>3, QuietStep DEF SetBack, gen
<1> QED BY <1>1, <1>2, <1>3, <1>4 DEF Next

(* Ids of two generators differ, because each holds its own node id. *)
LEMMA IssuedIsUnique == IssuedInv => UniqueIds
<1> SUFFICES ASSUME IssuedInv,
                    NEW m \in Node, NEW n \in Node, m # n,
                    NEW i \in issued[m], i \in issued[n]
             PROVE  FALSE
  BY DEF IssuedInv, UniqueIds
<1>1. PICK t \in Nat, s \in Seq0 : i = Pack(t, m, s)
  BY DEF IssuedInv, Past
<1>2. PICK u \in Nat, r \in Seq0 : i = Pack(u, n, r)
  BY DEF IssuedInv, Past
<1>3. m \in Nat /\ n \in Nat /\ i \in Nat
  BY <1>1, PackOrder, Sizes
<1>4. /\ t < u => Pack(t, m, s) < Pack(u, n, r)
      /\ t = u /\ m < n => Pack(t, m, s) < Pack(u, n, r)
  BY PackOrder
<1>5. /\ u < t => Pack(u, n, r) < Pack(t, m, s)
      /\ u = t /\ n < m => Pack(u, n, r) < Pack(t, m, s)
  BY PackOrder
<1> QED BY <1>1, <1>2, <1>3, <1>4, <1>5

(* No id is returned twice, by one generator or by two, for any field      *)
(* widths and any number of clocks set back between calls, if no clock is  *)
(* set back while the loop of Id waits for the next millisecond.           *)
THEOREM IdsAreUnique ==
    ASSUME ~BackInSpin
    PROVE  Spec => []UniqueIds
<1>1. Init => IssuedInv
  BY IssuedInit
<1>2. IssuedInv /\ [Next]_vars => IssuedInv'
  BY IssuedNext
<1>3. IssuedInv => UniqueIds
  BY IssuedIsUnique
<1> QED BY <1>1, <1>2, <1>3, PTL DEF Spec
=============================================================================
