------------------------------ MODULE Snowflake ------------------------------
(***************************************************************************)
(* The id generators (snowflake.go): every task, job and transaction id    *)
(* comes from UId of the node that issues the task.  A generator packs the *)
(* milliseconds of its clock, its node id and a sequence number into one   *)
(* integer.                                                                *)
(*                                                                         *)
(* The mutex makes Id one step, except where it spins: a caller that has   *)
(* used up the sequence numbers of a millisecond holds the lock until the  *)
(* clock shows another one.                                                *)
(***************************************************************************)
EXTENDS Integers, FiniteSets

CONSTANTS
    Node,           \* Env.NodeId of the generators
    NodeSize,       \* 1 << BITS_OF_NODE_NUMBER
    SeqSize,        \* 1 << BITS_OF_SEQUENCE
    MaxClock,       \* bound on the clocks
    MaxBack,        \* bound on the times a clock is set back
    BackInSpin      \* whether a clock may be set back while its node spins

ASSUME Sizes ==
    /\ NodeSize \in Nat \ {0} /\ SeqSize \in Nat \ {0}
    /\ Node \subseteq 0..(NodeSize - 1)
    /\ MaxClock \in Nat /\ MaxBack \in Nat /\ BackInSpin \in BOOLEAN

VARIABLES
    clock,          \* time.Now().UnixMilli() - EpochStart, per node
    lastTimestamp,
    sequence,
    spinning,       \* the caller that holds the lock is in the inner loop
    issued,         \* the ids each node has returned
    calls,          \* how many ids each node has returned
    backs           \* times a clock was set back

gen == <<lastTimestamp, sequence, spinning>>
vars == <<clock, gen, issued, calls, backs>>

TypeOK ==
    /\ clock \in [Node -> Nat]
    /\ lastTimestamp \in [Node -> Nat \cup {-1}]
    /\ sequence \in [Node -> 0..(SeqSize - 1)]
    /\ spinning \in [Node -> BOOLEAN]
    /\ issued \in [Node -> SUBSET Nat]
    /\ calls \in [Node -> Nat]
    /\ backs \in Nat

Init ==
    /\ clock = [n \in Node |-> 0]
    /\ lastTimestamp = [n \in Node |-> -1]
    /\ sequence = [n \in Node |-> 0]
    /\ spinning = [n \in Node |-> FALSE]
    /\ issued = [n \in Node |-> {}]
    /\ calls = [n \in Node |-> 0]
    /\ backs = 0

(* The fields do not overlap, so | is addition. *)
Pack(ts, n, s) == ts * (NodeSize * SeqSize) + n * SeqSize + s

(* Parse, without the epoch. *)
ParseUnmasked(id) ==                            \* mutant: nodeIdMask left out
             [timestamp |-> id \div (NodeSize * SeqSize),
              nodeId    |-> id \div SeqSize,
              sequence  |-> id % SeqSize]
Parse(id) == [timestamp |-> id \div (NodeSize * SeqSize),
              nodeId    |-> (id \div SeqSize) % NodeSize,
              sequence  |-> id % SeqSize]

(* The end of Id: remember the timestamp and return the id. *)
Return(n, ts, s) ==
    /\ lastTimestamp' = [lastTimestamp EXCEPT ![n] = ts]
    /\ issued' = [issued EXCEPT ![n] = @ \cup {Pack(ts, n, s)}]
    /\ calls' = [calls EXCEPT ![n] = @ + 1]
    /\ UNCHANGED <<clock, backs>>

(* The clock is behind: Id returns the error and UId tries again later. *)
NeverBehind(n) == FALSE                         \* mutant: the check is dropped
Behind(n) == clock[n] < lastTimestamp[n]

NoWrap(n) == sequence[n] + 1                    \* mutant: & MAX_SEQUENCE missing
NextSequence(n) == (sequence[n] + 1) % SeqSize

(* UId, by some goroutine that gets the lock, once Id does not refuse. *)
UId(n) ==
    /\ ~spinning[n] /\ ~Behind(n)
    /\ \/ /\ clock[n] # lastTimestamp[n]
          /\ sequence' = [sequence EXCEPT ![n] = 0]
          /\ Return(n, clock[n], 0)
          /\ UNCHANGED spinning
       \/ /\ clock[n] = lastTimestamp[n]
          /\ NextSequence(n) # 0
          /\ sequence' = [sequence EXCEPT ![n] = NextSequence(n)]
          /\ Return(n, clock[n], NextSequence(n))
          /\ UNCHANGED spinning
       \/ /\ clock[n] = lastTimestamp[n]
          /\ NextSequence(n) = 0
          /\ sequence' = [sequence EXCEPT ![n] = 0]
          /\ spinning' = [spinning EXCEPT ![n] = TRUE]
          /\ UNCHANGED <<clock, lastTimestamp, issued, calls, backs>>

(* The inner loop ends when the clock shows another millisecond. *)
LeaveAtOnce(n) == TRUE                          \* mutant: no wait
NewMillisecond(n) == clock[n] # lastTimestamp[n]

Spin(n) ==
    /\ spinning[n] /\ NewMillisecond(n)
    /\ spinning' = [spinning EXCEPT ![n] = FALSE]
    /\ Return(n, clock[n], sequence[n])
    /\ UNCHANGED sequence

(* The system clock advances; or it is set back. *)
Tick(n) ==
    /\ clock[n] < MaxClock
    /\ clock' = [clock EXCEPT ![n] = @ + 1]
    /\ UNCHANGED <<gen, issued, calls, backs>>

SetBack(n) ==
    /\ clock[n] > 0 /\ backs < MaxBack
    /\ spinning[n] => BackInSpin
    /\ clock' = [clock EXCEPT ![n] = @ - 1]
    /\ backs' = backs + 1
    /\ UNCHANGED <<gen, issued, calls>>

Next == \E n \in Node : UId(n) \/ Spin(n) \/ Tick(n) \/ SetBack(n)

Spec == Init /\ [][Next]_vars

-----------------------------------------------------------------------------
(* No id is returned twice, by one generator or by two ("Duplcated Key" is *)
(* an error of TestSmoke, snowflake_test.go:27), although the sequence     *)
(* number wraps and the clock may be set back between two calls.           *)
UniqueIds ==
    /\ \A n \in Node : Cardinality(issued[n]) = calls[n]
    /\ \A m, n \in Node : m # n => issued[m] \cap issued[n] = {}

(* Ids are ordered by time of issue: a generator only ever returns an id   *)
(* greater than all it returned before (Id).                               *)
Ascending ==
    [][\A n \in Node : \A i \in issued'[n] \ issued[n], j \in issued[n] : j < i]_vars

(* Parse gives back the fields of every id that was issued. *)
ParsesBack ==
    \A n \in Node : \A i \in issued[n] :
        LET f == Parse(i) IN
            f.nodeId = n /\ Pack(f.timestamp, f.nodeId, f.sequence) = i
=============================================================================
