-------------------------- MODULE PipelineLagProofs --------------------------
(***************************************************************************)
(* Proofs about how far the message pump lags and what it skips, for every *)
(* value of its constants: retried block results are handled in time and   *)
(* do not pile up, and a skipped block has cost all its attempts.          *)
(***************************************************************************)
EXTENDS FetchPipelineProofs, FiniteSetTheorems

USE PipelineAssumption

----------------------------------------------------------------------------
(* The invariants.                                                         *)

(* The requests for block results of a queue, in whatever stage, and those *)
(* that have the block request before them in the pipeline: in the queue,  *)
(* or in one that is ahead of it.                                          *)
Requested(q) == {q[i] : i \in ResultsJobsIn(q)}
BehindBlock(q, ahead) ==
  {q[i] : i \in {k \in ResultsJobsIn(q) : ahead \/ \E j \in JobsIn(q) : j < k}}

Pending == Requested(msgQ) \cup Requested(cmdQ) \cup Requested(outbox)
Behind ==
  BehindBlock(msgQ, FALSE)
    \cup BehindBlock(cmdQ, JobsIn(msgQ) # {})
    \cup BehindBlock(outbox, JobsIn(msgQ) # {} \/ JobsIn(cmdQ) # {})

(* An answer no longer says how often it was asked for.                    *)
Tries(x) == IF x.kind = "BlockResults" THEN MAX_FETCH_RETRIES ELSE x.retries

(* Each retry lets one block pass, and only once it is behind that block.  *)
LagInv ==
  /\ \A x \in Pending : /\ x.height <= last_processed_height
                        /\ last_processed_height <= x.height + Tries(x)
  /\ \A x \in Behind : last_processed_height < x.height + Tries(x)

OneEach(q) == \A i, j \in ResultsJobsIn(q) : q[i].height = q[j].height => i = j
Apart(p, q) == \A x \in Requested(p), y \in Requested(q) : x.height # y.height

(* The results of a block are requested once at a time.                    *)
DistinctInv ==
  /\ OneEach(msgQ) /\ OneEach(cmdQ) /\ OneEach(outbox)
  /\ Apart(msgQ, cmdQ) /\ Apart(msgQ, outbox) /\ Apart(cmdQ, outbox)

(* What is late has failed at least once, each for a failure of its own.   *)
Late ==
  Behind \cup {x \in Pending : \/ x.kind = "FetchBlockResultsError"
                               \/ x.height < last_processed_height}
LateHeights == {x.height : x \in Late}
LateInv == Cardinality(LateHeights) <= faults

(* The failures a block request has met so far.                            *)
Spent(x) == CASE x.kind = "FetchBlock" -> x.retries
              [] x.kind = "FetchError" -> x.retries + 1
              [] OTHER -> 0
Skipped == (last_processed_height - chain_height) * (MAX_FETCH_RETRIES + 1)

PaidFor(q, skipped, f) == \A i \in JobsIn(q) : skipped + Spent(q[i]) <= f

(* The skipped blocks and the one being tried have all had their failures. *)
SkipInv ==
  chain_height # 0 =>
    /\ Skipped <= faults
    /\ PaidFor(msgQ, Skipped, faults) /\ PaidFor(cmdQ, Skipped, faults)
    /\ PaidFor(outbox, Skipped, faults)

----------------------------------------------------------------------------
(* Queues.                                                                 *)

(* The members of the two sets, by their positions.                        *)
LEMMA RequestedMembers ==
  ASSUME NEW q, NEW x
  PROVE  x \in Requested(q) <=> \E i \in ResultsJobsIn(q) : x = q[i]
  BY Zenon DEF Requested

(* Those behind the block request.                                         *)
LEMMA BehindMembers ==
  ASSUME NEW q, NEW a \in BOOLEAN, NEW x
  PROVE  x \in BehindBlock(q, a)
           <=> \E i \in ResultsJobsIn(q) :
                 x = q[i] /\ (a \/ \E j \in JobsIn(q) : j < i)
  BY Zenon DEF BehindBlock

(* What is behind the block request is requested; nothing is behind a      *)
(* block request that is not there, everything behind one that is ahead.   *)
LEMMA BehindFacts ==
  ASSUME NEW q
  PROVE  /\ \A a \in BOOLEAN : BehindBlock(q, a) \subseteq Requested(q)
         /\ BehindBlock(q, TRUE) = Requested(q)
         /\ JobsIn(q) = {} => BehindBlock(q, FALSE) = {}
         /\ \A a \in BOOLEAN : BehindBlock(q, FALSE) \subseteq BehindBlock(q, a)
<1>1. ASSUME NEW a \in BOOLEAN, NEW x \in BehindBlock(q, a)
      PROVE  x \in Requested(q)
  BY <1>1, RequestedMembers, BehindMembers
<1>2. ASSUME NEW x \in Requested(q)
      PROVE  x \in BehindBlock(q, TRUE)
  BY RequestedMembers, BehindMembers
<1>3. ASSUME JobsIn(q) = {}, NEW x \in BehindBlock(q, FALSE)
      PROVE  FALSE
  BY <1>3, BehindMembers
<1>4. ASSUME NEW a \in BOOLEAN, NEW x \in BehindBlock(q, FALSE)
      PROVE  x \in BehindBlock(q, a)
  BY BehindMembers
<1>5. QED
  BY <1>1, <1>2, <1>3, <1>4

(* What appending one element does to them.                                *)
LEMMA AppendResults ==
  ASSUME NEW S, NEW q \in Seq(S), NEW x \in S
  PROVE  /\ ~IsResultsJob(x)
              => /\ Requested(Append(q, x)) = Requested(q)
                 /\ \A a \in BOOLEAN : BehindBlock(Append(q, x), a) = BehindBlock(q, a)
                 /\ OneEach(q) => OneEach(Append(q, x))
         /\ IsResultsJob(x) /\ ~IsJob(x)
              => /\ Requested(Append(q, x)) = Requested(q) \cup {x}
                 /\ \A a \in BOOLEAN : BehindBlock(Append(q, x), a)
                          = BehindBlock(q, a)
                              \cup (IF a \/ JobsIn(q) # {} THEN {x} ELSE {})
                 /\ OneEach(q) /\ (\A y \in Requested(q) : y.height # x.height)
                      => OneEach(Append(q, x))
<1> DEFINE t == Append(q, x)
           n == Len(q) + 1
<1>1. /\ \A i \in DOMAIN q : i \in Nat /\ i < n /\ t[i] = q[i]
      /\ DOMAIN t = DOMAIN q \cup {n} /\ t[n] = x /\ n \in Nat /\ n \notin DOMAIN q
  BY AppendFacts
<1> HIDE DEF t, n
<1>2. /\ \A i : i \in ResultsJobsIn(q) => i \in ResultsJobsIn(t) /\ i \in DOMAIN q
      /\ \A i : i \in ResultsJobsIn(t) => i \in ResultsJobsIn(q) \/ i = n
      /\ n \in ResultsJobsIn(t) <=> IsResultsJob(x)
  BY <1>1 DEF ResultsJobsIn
<1>3. /\ \A i : i \in JobsIn(q) => i \in JobsIn(t) /\ i \in DOMAIN q
      /\ \A i : i \in JobsIn(t) => i \in JobsIn(q) \/ i = n
      /\ n \in JobsIn(t) <=> IsJob(x)
  BY <1>1 DEF JobsIn
<1>4. ASSUME ~IsResultsJob(x)
      PROVE  /\ Requested(t) = Requested(q)
             /\ \A a \in BOOLEAN : BehindBlock(t, a) = BehindBlock(q, a)
             /\ OneEach(q) => OneEach(t)
  <2>1. \A i : i \in ResultsJobsIn(t) <=> i \in ResultsJobsIn(q)
    BY <1>2, <1>4
  <2>2. \A i \in ResultsJobsIn(q) :
          (\E j \in JobsIn(t) : j < i) <=> (\E j \in JobsIn(q) : j < i)
    BY <1>1, <1>2, <1>3
  <2>3. \A i \in ResultsJobsIn(q) : t[i] = q[i]
    BY <1>1, <1>2
  <2>4. \A y : y \in Requested(t) <=> y \in Requested(q)
    BY <2>1, <2>3, RequestedMembers
  <2>5. ASSUME NEW a \in BOOLEAN, NEW y
        PROVE  y \in BehindBlock(t, a) <=> y \in BehindBlock(q, a)
    BY <2>1, <2>2, <2>3, BehindMembers
  <2>6. OneEach(q) => OneEach(t)
    BY <2>1, <2>3 DEF OneEach
  <2>7. QED
    BY <2>4, <2>5, <2>6
<1>5. ASSUME IsResultsJob(x), ~IsJob(x)
      PROVE  /\ Requested(t) = Requested(q) \cup {x}
             /\ \A a \in BOOLEAN : BehindBlock(t, a)
                      = BehindBlock(q, a)
                          \cup (IF a \/ JobsIn(q) # {} THEN {x} ELSE {})
             /\ OneEach(q) /\ (\A y \in Requested(q) : y.height # x.height)
                  => OneEach(t)
  <2>1. \A i : i \in ResultsJobsIn(t) <=> i \in ResultsJobsIn(q) \/ i = n
    BY <1>2, <1>5
  <2>2. \A j : j \in JobsIn(t) <=> j \in JobsIn(q)
    BY <1>3, <1>5
  <2>3. \A i \in ResultsJobsIn(q) : t[i] = q[i]
    BY <1>1, <1>2
  <2>4. (\E j \in JobsIn(t) : j < n) <=> JobsIn(q) # {}
    BY <1>1, <1>3, <2>2
  <2>5. \A y : y \in Requested(t) <=> y \in Requested(q) \cup {x}
    BY <1>1, <2>1, <2>3, RequestedMembers
  <2>6. ASSUME NEW a \in BOOLEAN, NEW y
        PROVE  y \in BehindBlock(t, a)
                 <=> y \in BehindBlock(q, a) \/ (y = x /\ (a \/ JobsIn(q) # {}))
    <3>1. y \in BehindBlock(t, a)
            <=> \/ \E i \in ResultsJobsIn(q) :
                     y = t[i] /\ (a \/ \E j \in JobsIn(t) : j < i)
                \/ y = t[n] /\ (a \/ \E j \in JobsIn(t) : j < n)
      BY <2>1, BehindMembers
    <3>2. y = t[n] /\ (a \/ \E j \in JobsIn(t) : j < n)
            <=> y = x /\ (a \/ JobsIn(q) # {})
      BY <1>1, <2>4
    <3>3. (\E i \in ResultsJobsIn(q) : y = t[i] /\ (a \/ \E j \in JobsIn(t) : j < i))
            <=> y \in BehindBlock(q, a)
      BY <2>2, <2>3, BehindMembers
    <3>4. QED
      BY <3>1, <3>2, <3>3
  <2>7. \A i \in ResultsJobsIn(q) : q[i] \in Requested(q)
    BY RequestedMembers
  <2>8. OneEach(q) /\ (\A y \in Requested(q) : y.height # x.height) => OneEach(t)
    BY <1>1, <2>1, <2>3, <2>7 DEF OneEach
  <2>9. QED
    BY <2>5, <2>6, <2>8
<1>6. QED
  BY <1>4, <1>5 DEF t

(* What receiving the first element does to them.                          *)
LEMMA TailResults ==
  ASSUME NEW S, NEW q \in Seq(S), q # <<>>
  PROVE  /\ Requested(Tail(q)) \subseteq Requested(q)
         /\ \A a \in BOOLEAN : BehindBlock(Tail(q), a) \subseteq BehindBlock(q, a)
         /\ OneEach(q) => OneEach(Tail(q))
         /\ IsJob(Head(q)) => Requested(Tail(q)) \subseteq BehindBlock(q, FALSE)
         /\ IsResultsJob(Head(q))
              => /\ Head(q) \in Requested(q)
                 /\ Head(q) \in BehindBlock(q, TRUE)
                 /\ OneEach(q)
                      => \A y \in Requested(Tail(q)) : y.height # Head(q).height
<1> DEFINE t == Tail(q)
<1>1. /\ Head(q) = q[1] /\ 1 \in DOMAIN q
      /\ \A i \in DOMAIN t : i + 1 \in DOMAIN q /\ t[i] = q[i + 1] /\ i \in Nat \ {0}
  BY TailFacts
<1> HIDE DEF t
<1>2. /\ \A i : i \in ResultsJobsIn(t)
               => i \in Nat \ {0} /\ i + 1 \in ResultsJobsIn(q) /\ t[i] = q[i + 1]
      /\ 1 \in ResultsJobsIn(q) <=> IsResultsJob(Head(q))
  BY <1>1 DEF ResultsJobsIn
<1>3. /\ \A i : i \in JobsIn(t) => i \in Nat \ {0} /\ i + 1 \in JobsIn(q)
      /\ 1 \in JobsIn(q) <=> IsJob(Head(q))
  BY <1>1 DEF JobsIn
<1>4. Requested(t) \subseteq Requested(q)
  BY <1>2, RequestedMembers
<1>5. ASSUME NEW a \in BOOLEAN, NEW y \in BehindBlock(t, a)
      PROVE  y \in BehindBlock(q, a)
  <2>1. PICK i \in ResultsJobsIn(t) :
          y = t[i] /\ (a \/ \E j \in JobsIn(t) : j < i)
    BY BehindMembers
  <2>2. i + 1 \in ResultsJobsIn(q) /\ y = q[i + 1]
    BY <1>2, <2>1
  <2>3. a \/ \E j \in JobsIn(q) : j < i + 1
    <3>1. ASSUME NEW j \in JobsIn(t), j < i
          PROVE  j + 1 \in JobsIn(q) /\ j + 1 < i + 1
      BY <1>2, <1>3, <3>1
    <3>2. QED
      BY <2>1, <3>1
  <2>4. QED
    BY <2>2, <2>3, BehindMembers
<1>6. OneEach(q) => OneEach(t)
  BY <1>2 DEF OneEach
<1>7. ASSUME IsJob(Head(q)), NEW y \in Requested(t)
      PROVE  y \in BehindBlock(q, FALSE)
  <2>1. PICK i \in ResultsJobsIn(t) : y = t[i]
    BY RequestedMembers
  <2>2. i + 1 \in ResultsJobsIn(q) /\ y = q[i + 1] /\ 1 < i + 1 /\ 1 \in JobsIn(q)
    BY <1>2, <1>3, <1>7, <2>1
  <2>3. QED
    BY <2>2, BehindMembers
<1>8. ASSUME IsResultsJob(Head(q))
      PROVE  Head(q) \in Requested(q) /\ Head(q) \in BehindBlock(q, TRUE)
  BY <1>1, <1>2, <1>8, RequestedMembers, BehindMembers
<1>9. ASSUME IsResultsJob(Head(q)), OneEach(q), NEW y \in Requested(t)
      PROVE  y.height # Head(q).height
  <2>1. PICK i \in ResultsJobsIn(t) : y = t[i]
    BY RequestedMembers
  <2>2. i + 1 \in ResultsJobsIn(q) /\ y = q[i + 1] /\ 1 # i + 1
        /\ 1 \in ResultsJobsIn(q)
    BY <1>2, <1>9, <2>1
  <2>3. QED
    BY <1>1, <1>9, <2>2 DEF OneEach
<1>10. QED
  BY <1>4, <1>5, <1>6, <1>7, <1>8, <1>9 DEF t

(* The short queues the handlers return.                                   *)
LEMMA ShortResults ==
  ASSUME NEW x, NEW y
  PROVE  /\ Requested(<<>>) = {} /\ OneEach(<<>>)
         /\ Requested(<<x>>) = (IF IsResultsJob(x) THEN {x} ELSE {})
         /\ OneEach(<<x>>) /\ BehindBlock(<<x>>, FALSE) = {}
         /\ IsResultsJob(x) /\ ~IsJob(x) /\ ~IsResultsJob(y)
              => /\ Requested(<<x, y>>) = {x} /\ OneEach(<<x, y>>)
                 /\ BehindBlock(<<x, y>>, FALSE) = {}
<1> DEFINE s == <<x>>
           t == <<x, y>>
<1>1. ResultsJobsIn(<<>>) = {}
  BY DEF ResultsJobsIn
<1>2. /\ \A i : i \in ResultsJobsIn(s) <=> i = 1 /\ IsResultsJob(x)
      /\ \A i : i \in JobsIn(s) <=> i = 1 /\ IsJob(x)
  BY DEF ResultsJobsIn, JobsIn
<1>3. /\ \A i : i \in ResultsJobsIn(t)
               <=> (i = 1 /\ IsResultsJob(x)) \/ (i = 2 /\ IsResultsJob(y))
      /\ \A i : i \in JobsIn(t) <=> (i = 1 /\ IsJob(x)) \/ (i = 2 /\ IsJob(y))
  BY DEF ResultsJobsIn, JobsIn
<1>4. s[1] = x /\ t[1] = x
  OBVIOUS
<1> HIDE DEF s, t
<1>5. Requested(<<>>) = {} /\ OneEach(<<>>)
  BY <1>1, RequestedMembers DEF OneEach
<1>6. \A z : z \in Requested(s) <=> z = x /\ IsResultsJob(x)
  BY <1>2, <1>4, RequestedMembers
<1>7. OneEach(s)
  BY <1>2 DEF OneEach
<1>8. ASSUME NEW z \in BehindBlock(s, FALSE)
      PROVE  FALSE
  <2>1. \E i \in ResultsJobsIn(s) : \E j \in JobsIn(s) : j < i
    BY BehindMembers
  <2>2. QED
    BY <1>2, <2>1
<1>9. ASSUME IsResultsJob(x), ~IsJob(x), ~IsResultsJob(y)
      PROVE  Requested(t) = {x} /\ OneEach(t) /\ BehindBlock(t, FALSE) = {}
  <2>1. \A i : i \in ResultsJobsIn(t) <=> i = 1
    BY <1>3, <1>9
  <2>2. \A z : z \in Requested(t) <=> z = x
    BY <1>4, <2>1, RequestedMembers
  <2>3. ASSUME NEW z \in BehindBlock(t, FALSE)
        PROVE  FALSE
    <3>1. \E i \in ResultsJobsIn(t) : \E j \in JobsIn(t) : j < i
      BY BehindMembers
    <3>2. QED
      BY <1>3, <1>9, <2>1, <3>1
  <2>4. OneEach(t)
    BY <2>1 DEF OneEach
  <2>5. QED
    BY <2>2, <2>3, <2>4
<1>10. QED
  BY <1>5, <1>6, <1>7, <1>8, <1>9 DEF s, t

----------------------------------------------------------------------------
(* Types.                                                                  *)

(* The kinds of a request for block results, and the ranges of its fields. *)
LEMMA ResultsJobTypes ==
  /\ \A x : ~(IsJob(x) /\ IsResultsJob(x))
  /\ \A x \in IoCommand : IsResultsJob(x)
       => /\ x.kind = "FetchBlockResults" /\ x.height \in Heights
          /\ Tries(x) = x.retries /\ Tries(x) \in Retries
  /\ \A x \in IoResult : IsResultsJob(x)
       => /\ x.kind # "FetchBlockResults" /\ x.height \in Heights
          /\ Tries(x) \in Retries
<1>1. \A x : ~(IsJob(x) /\ IsResultsJob(x))
  BY DEF IsJob, IsResultsJob
<1>2. ASSUME NEW x \in IoCommand, IsResultsJob(x)
      PROVE  /\ x.kind = "FetchBlockResults" /\ x.height \in Heights
             /\ Tries(x) = x.retries /\ Tries(x) \in Retries
  <2>1. x.kind = "FetchBlockResults"
    BY <1>2 DEF IoCommand, IsResultsJob
  <2>2. QED
    BY <2>1, CommandFields DEF Tries
<1>3. ASSUME NEW x \in IoResult, IsResultsJob(x)
      PROVE  /\ x.kind # "FetchBlockResults" /\ x.height \in Heights
             /\ Tries(x) \in Retries
  <2>1. x.kind \in {"BlockResults", "FetchBlockResultsError"}
    BY <1>3 DEF IoResult, IsResultsJob
  <2>2. QED
    BY <2>1, ResultFields DEF Tries, Retries
<1>4. QED
  BY <1>1, <1>2, <1>3

(* The elements of a queue are of its type.                                *)
LEMMA RequestedElements ==
  ASSUME NEW S, NEW q \in Seq(S), NEW x \in Requested(q)
  PROVE  x \in S /\ IsResultsJob(x)
<1>1. PICK i \in ResultsJobsIn(q) : x = q[i]
  BY RequestedMembers
<1>2. QED
  BY <1>1 DEF ResultsJobsIn

(* Every pending request has a height, and its retries are in range.       *)
LEMMA PendingTypes ==
  ASSUME TypeOK, NEW x \in Pending
  PROVE  x.height \in Nat /\ x.height > 0 /\ Tries(x) \in Nat
         /\ Tries(x) <= MAX_FETCH_RETRIES
<1>1. x \in IoResult \/ x \in IoCommand
  BY RequestedElements DEF TypeOK, Pending
<1>2. IsResultsJob(x)
  BY RequestedElements DEF TypeOK, Pending
<1>3. x.height \in Heights /\ Tries(x) \in Retries
  BY <1>1, <1>2, ResultsJobTypes
<1>4. QED
  BY <1>3 DEF Heights, Retries

(* The same after a step that keeps the types.                             *)
LEMMA PendingTypesNext ==
  TypeOK' => \A x \in Pending' : x.height \in Nat /\ Tries(x) \in Nat
<1>1. TypeOK => \A x \in Pending : x.height \in Nat /\ Tries(x) \in Nat
  BY PendingTypes
<1>2. (TypeOK => \A x \in Pending : x.height \in Nat /\ Tries(x) \in Nat)'
  BY <1>1, PTL
<1>3. QED
  BY <1>2

(* What is behind the block request is pending.                            *)
LEMMA BehindPending ==
  Behind \subseteq Pending /\ Behind' \subseteq Pending'
<1>1. Behind \subseteq Pending
  BY BehindFacts DEF Behind, Pending
<1>2. (Behind \subseteq Pending)'
  BY <1>1, PTL
<1>3. QED
  BY <1>1, <1>2

(* The members of Late, and their heights.                                 *)
LEMMA LateMembers ==
  /\ \A x : x \in Late
           <=> \/ x \in Behind
               \/ /\ x \in Pending
                  /\ \/ x.kind = "FetchBlockResultsError"
                     \/ x.height < last_processed_height
  /\ \A h : h \in LateHeights <=> \E x \in Late : h = x.height
  /\ \A h : h \in LateHeights' <=> \E x \in Late' : h = x.height
<1>1. \A x : x \in Late
           <=> \/ x \in Behind
               \/ /\ x \in Pending
                  /\ \/ x.kind = "FetchBlockResultsError"
                     \/ x.height < last_processed_height
  BY DEF Late
<1>2. \A h : h \in LateHeights <=> \E x \in Late : h = x.height
  BY Zenon DEF LateHeights
<1>3. \A h : h \in LateHeights' <=> \E x \in Late' : h = x.height
  BY Zenon DEF LateHeights
<1>4. QED
  BY <1>1, <1>2, <1>3

(* Only finitely many blocks can be late.                                  *)
LEMMA LateFinite ==
  ASSUME TypeOK, LagInv
  PROVE  /\ IsFiniteSet(LateHeights) /\ Cardinality(LateHeights) \in Nat
         /\ LateHeights \subseteq 0..last_processed_height
<1>1. ASSUME NEW h \in LateHeights
      PROVE  h \in 0..last_processed_height
  <2>1. PICK x \in Late : h = x.height
    BY LateMembers
  <2>2. x \in Pending
    BY <2>1, LateMembers, BehindPending
  <2>3. QED
    BY <2>1, <2>2, PendingTypes DEF LagInv, TypeOK
<1>2. IsFiniteSet(0..last_processed_height)
  BY FS_Interval DEF TypeOK
<1>3. QED
  BY <1>1, <1>2, FS_Subset, FS_CardinalityType

(* A step in which nothing becomes late, or one request does by a failure. *)
LEMMA StepKeepsLateInv ==
  ASSUME TypeOK, LagInv, LateInv, faults' \in Nat, faults' >= faults, NEW h,
         \A k \in LateHeights' :
           k \in LateHeights \/ (k = h /\ faults' = faults + 1)
  PROVE  LateInv'
<1>1. IsFiniteSet(LateHeights) /\ Cardinality(LateHeights) \in Nat
  BY LateFinite
<1>2. faults \in Nat /\ Cardinality(LateHeights) <= faults
  BY DEF TypeOK, LateInv
<1>3. CASE LateHeights' \subseteq LateHeights
  <2>1. /\ Cardinality(LateHeights') <= Cardinality(LateHeights)
        /\ Cardinality(LateHeights') \in Nat
    BY <1>1, <1>3, FS_Subset, FS_CardinalityType
  <2>2. QED
    BY <1>1, <1>2, <2>1 DEF LateInv
<1>4. CASE ~(LateHeights' \subseteq LateHeights)
  <2>1. /\ faults' = faults + 1
        /\ LateHeights' \subseteq LateHeights \cup {h}
    BY <1>4
  <2>2. /\ IsFiniteSet(LateHeights \cup {h})
        /\ Cardinality(LateHeights \cup {h}) <= Cardinality(LateHeights) + 1
        /\ Cardinality(LateHeights \cup {h}) \in Nat
    <3>1. /\ IsFiniteSet(LateHeights \cup {h})
          /\ \/ Cardinality(LateHeights \cup {h}) = Cardinality(LateHeights)
             \/ Cardinality(LateHeights \cup {h}) = Cardinality(LateHeights) + 1
      BY <1>1, FS_AddElement, Zenon
    <3>2. QED
      BY <1>1, <3>1
  <2>3. /\ Cardinality(LateHeights') <= Cardinality(LateHeights \cup {h})
        /\ Cardinality(LateHeights') \in Nat
    BY <2>1, <2>2, FS_Subset, FS_CardinalityType
  <2>4. QED
    BY <1>1, <1>2, <2>1, <2>2, <2>3 DEF LateInv
<1>5. QED
  BY <1>3, <1>4

----------------------------------------------------------------------------
(* The IO thread.                                                          *)

(* The answer to a request for block results stands for it, with its       *)
(* height and no fewer tries; only a failure makes it an error.            *)
LEMMA IoStepResults ==
  ASSUME TypeOK, IoStep
  PROVE  /\ Head(cmdQ) \in IoCommand
         /\ faults' \in {faults, faults + 1}
         /\ \/ msgQ' = msgQ /\ ~IsResultsJob(Head(cmdQ)) /\ ~IsJob(Head(cmdQ))
            \/ \E x \in IoResult :
                 /\ msgQ' = Append(msgQ, x)
                 /\ IsJob(x) <=> IsJob(Head(cmdQ))
                 /\ IsResultsJob(x) <=> IsResultsJob(Head(cmdQ))
                 /\ IsResultsJob(x) => x.height = Head(cmdQ).height
                                       /\ Tries(x) >= Tries(Head(cmdQ))
                 /\ x.kind = "FetchBlockResultsError" => faults' = faults + 1
                 /\ IsJob(x) => /\ Spent(x) \in Nat /\ Spent(Head(cmdQ)) \in Nat
                                /\ Spent(x) <= Spent(Head(cmdQ)) + faults' - faults
<1> DEFINE c == Head(cmdQ)
<1>1. cmdQ # <<>> /\ c \in IoCommand
  BY TailFacts, IoStepJobs DEF TypeOK
<1>2. faults' \in {faults, faults + 1}
  BY DEF IoStep, IoFetchBlock, IoFetchBlockResults, IoFetchChainList,
         IoFetchChainParams, IoFetchHead, RequestFails
<1>3. CASE IoFetchBlock
  <2>1. c.kind = "FetchBlock" /\ c.height \in Heights /\ c.retries \in Retries
    BY <1>1, <1>3, CommandFields DEF IoFetchBlock, Executes
  <2>2. \/ msgQ' = Append(msgQ, Block(c.height)) /\ faults' = faults
        \/ msgQ' = Append(msgQ, FetchError(c.height, c.retries)) /\ faults' = faults + 1
    BY <1>3 DEF IoFetchBlock, Yields, RequestFails
  <2>3. /\ Block(c.height) \in IoResult
        /\ FetchError(c.height, c.retries) \in IoResult
        /\ Block(c.height).kind = "Block"
        /\ FetchError(c.height, c.retries).kind = "FetchError"
        /\ FetchError(c.height, c.retries).retries = c.retries
    BY <2>1, ResultTypes DEF Block, FetchError
  <2>4. /\ Spent(Block(c.height)) = 0 /\ Spent(c) = c.retries
        /\ Spent(FetchError(c.height, c.retries)) = c.retries + 1
    BY <2>1, <2>3 DEF Spent
  <2>5. /\ IsJob(c) /\ IsJob(Block(c.height)) /\ IsJob(FetchError(c.height, c.retries))
        /\ ~IsResultsJob(c) /\ ~IsResultsJob(Block(c.height))
        /\ ~IsResultsJob(FetchError(c.height, c.retries))
    BY <2>1, <2>3 DEF IsJob, IsResultsJob
  <2>6. faults \in Nat /\ c.retries \in Nat
    BY <2>1 DEF TypeOK, Retries
  <2>7. CASE msgQ' = Append(msgQ, Block(c.height)) /\ faults' = faults
    BY <1>1, <1>2, <2>3, <2>4, <2>5, <2>6, <2>7
  <2>8. CASE /\ msgQ' = Append(msgQ, FetchError(c.height, c.retries))
             /\ faults' = faults + 1
    BY <1>1, <1>2, <2>3, <2>4, <2>5, <2>6, <2>8
  <2>9. QED
    BY <2>2, <2>7, <2>8
<1>4. CASE IoFetchBlockResults
  <2>1. /\ c.kind = "FetchBlockResults" /\ c.height \in Heights
        /\ c.retries \in Retries /\ c.polls \in PollLists
    BY <1>1, <1>4, CommandFields DEF IoFetchBlockResults, Executes
  <2> DEFINE good == BlockResults(c.height, c.polls)
             bad == FetchBlockResultsError(c.height, c.polls, c.retries)
  <2>2. \/ msgQ' = Append(msgQ, good) /\ faults' = faults
        \/ msgQ' = Append(msgQ, bad) /\ faults' = faults + 1
    BY <1>4 DEF IoFetchBlockResults, Yields, RequestFails
  <2>3. /\ good \in IoResult /\ good.kind = "BlockResults" /\ good.height = c.height
        /\ bad \in IoResult /\ bad.kind = "FetchBlockResultsError"
        /\ bad.height = c.height /\ bad.retries = c.retries
    BY <2>1, ResultTypes DEF BlockResults, FetchBlockResultsError
  <2> HIDE DEF good, bad
  <2>4. \A x \in {c, good, bad} : ~IsJob(x) /\ IsResultsJob(x)
    BY <2>1, <2>3 DEF IsJob, IsResultsJob
  <2>5. Tries(good) >= Tries(c) /\ Tries(bad) >= Tries(c)
    BY <2>1, <2>3 DEF Tries, Retries
  <2>6. QED
    BY <1>1, <1>2, <2>2, <2>3, <2>4, <2>5
<1>5. CASE IoFetchChainList
  <2>1. c.kind = "FetchChainList"
    BY <1>5 DEF IoFetchChainList, Executes
  <2>2. \E x \in {ChainListAnswer, FetchChainListError} : msgQ' = Append(msgQ, x)
    BY <1>5 DEF IoFetchChainList, Yields
  <2>3. \A x \in {ChainListAnswer, FetchChainListError} :
           /\ x \in IoResult /\ ~IsJob(x) /\ ~IsResultsJob(x)
           /\ x.kind # "FetchBlockResultsError"
    BY ResultTypes DEF IsJob, IsResultsJob, ChainListAnswer, FetchChainListError
  <2>4. ~IsJob(c) /\ ~IsResultsJob(c)
    BY <2>1 DEF IsJob, IsResultsJob
  <2>5. QED
    BY <1>1, <1>2, <2>2, <2>3, <2>4
<1>6. CASE IoFetchChainParams
  <2>1. c.kind = "FetchChainParams" /\ c.chain \in Chains
    BY <1>1, <1>6, CommandFields DEF IoFetchChainParams, Executes
  <2>2. msgQ' = msgQ \/ msgQ' = Append(msgQ, ChainParams(c.chain))
    BY <1>6 DEF IoFetchChainParams, Yields
  <2>3. /\ ChainParams(c.chain) \in IoResult /\ ~IsJob(ChainParams(c.chain))
        /\ ~IsResultsJob(ChainParams(c.chain))
        /\ ChainParams(c.chain).kind # "FetchBlockResultsError"
    BY <2>1, ResultTypes DEF IsJob, IsResultsJob, ChainParams
  <2>4. ~IsJob(c) /\ ~IsResultsJob(c)
    BY <2>1 DEF IsJob, IsResultsJob
  <2>5. QED
    BY <1>1, <1>2, <2>2, <2>3, <2>4
<1>7. CASE IoFetchHead
  <2>1. c.kind = "FetchHead"
    BY <1>7 DEF IoFetchHead, Executes
  <2>2. msgQ' = msgQ \/ \E n \in HeadsServed : msgQ' = Append(msgQ, HeadAnswer(n))
    BY <1>7 DEF IoFetchHead, Yields
  <2>3. HeadsServed \subseteq Heights
    BY DEF HeadsServed, Heights
  <2>4. \A n \in HeadsServed :
           /\ HeadAnswer(n) \in IoResult /\ ~IsJob(HeadAnswer(n))
           /\ ~IsResultsJob(HeadAnswer(n))
           /\ HeadAnswer(n).kind # "FetchBlockResultsError"
    BY <2>3, ResultTypes DEF IsJob, IsResultsJob, HeadAnswer
  <2>5. ~IsJob(c) /\ ~IsResultsJob(c)
    BY <2>1 DEF IsJob, IsResultsJob
  <2>6. QED
    BY <1>1, <1>2, <2>2, <2>4, <2>5
<1>8. QED
  BY <1>3, <1>4, <1>5, <1>6, <1>7 DEF IoStep

(* The requests in a state are well placed: those of LagInv, DistinctInv   *)
(* and LateInv.                                                            *)
ResultsInv == LagInv /\ DistinctInv /\ LateInv

(* A step that moves requests without losing the place of the block        *)
(* request: each pending one was pending, with no more tries; it is behind *)
(* the block request only if it was; and one that fails costs a failure.   *)
Moved(z, x) ==
  /\ x \in Pending /\ z.height = x.height /\ Tries(z) >= Tries(x)
  /\ z \in Behind' => x \in Behind
  /\ z.kind = "FetchBlockResultsError"
       => x.kind = "FetchBlockResultsError" \/ faults' = faults + 1

(* Such a step keeps the bounds; at most one request may fail in it.       *)
LEMMA MovedKeeps ==
  ASSUME TypeOK, TypeOK', LagInv, LateInv, faults' >= faults,
         last_processed_height' = last_processed_height,
         NEW h, \A z \in Pending' :
                  \E x \in Pending : Moved(z, x) /\ (z = x \/ z.height = h)
  PROVE  LagInv' /\ LateInv'
<1>1. ASSUME NEW z \in Pending'
      PROVE  /\ z.height <= last_processed_height'
             /\ last_processed_height' <= z.height + Tries(z)
             /\ z \in Behind' => last_processed_height' < z.height + Tries(z)
  <2>1. PICK x \in Pending : Moved(z, x)
    OBVIOUS
  <2>2. /\ x.height \in Nat /\ Tries(x) \in Nat /\ last_processed_height \in Nat
        /\ x.height <= last_processed_height
        /\ last_processed_height <= x.height + Tries(x)
        /\ x \in Behind => last_processed_height < x.height + Tries(x)
    BY PendingTypes DEF LagInv, TypeOK
  <2>3. Tries(z) \in Nat
    BY PendingTypesNext
  <2>4. QED
    BY <2>1, <2>2, <2>3 DEF Moved
<1>2. LagInv'
  BY <1>1, BehindPending DEF LagInv
<1>3. ASSUME NEW k \in LateHeights'
      PROVE  k \in LateHeights \/ (k = h /\ faults' = faults + 1)
  <2>1. PICK z \in Late' : k = z.height
    BY LateMembers
  <2>2. /\ z \in Pending'
        /\ \/ z \in Behind' \/ z.kind = "FetchBlockResultsError"
           \/ z.height < last_processed_height'
    BY BehindPending DEF Late
  <2>3. PICK x \in Pending : Moved(z, x) /\ (z = x \/ z.height = h)
    BY <2>2
  <2>4. CASE x \in Late
    BY <2>1, <2>3, <2>4, LateMembers DEF Moved
  <2>5. CASE x \notin Late
    <3>1. /\ x \notin Behind /\ x.kind # "FetchBlockResultsError"
          /\ ~(x.height < last_processed_height)
      BY <2>3, <2>5, LateMembers
    <3>2. z.kind = "FetchBlockResultsError"
      BY <2>2, <2>3, <3>1 DEF Moved
    <3>3. faults' = faults + 1 /\ z # x
      BY <2>3, <3>1, <3>2 DEF Moved
    <3>4. QED
      BY <2>1, <2>3, <3>3
  <2>6. QED
    BY <2>4, <2>5
<1>4. faults' \in Nat
  BY DEF TypeOK
<1>5. QED
  BY <1>2, <1>3, <1>4, StepKeepsLateInv

(* What the IO thread does to the requests.                                *)
LEMMA IoStepKeepsResults ==
  ASSUME TypeOK, TypeOK', JobsInv, ResultsInv, IoStep
  PROVE  ResultsInv'
<1> DEFINE c == Head(cmdQ)
           a == JobsIn(msgQ) # {}
           b == JobsIn(msgQ) # {} \/ JobsIn(cmdQ) # {}
<1> USE DEF ResultsInv
<1>1. /\ cmdQ # <<>> /\ cmdQ \in Seq(IoCommand) /\ msgQ \in Seq(IoResult)
      /\ cmdQ' = Tail(cmdQ) /\ outbox' = outbox
      /\ last_processed_height' = last_processed_height
      /\ faults \in Nat /\ faults' \in {faults, faults + 1} /\ faults' >= faults
  BY IoStepJobs, IoStepResults DEF TypeOK, procVars
<1>2. /\ Requested(cmdQ') \subseteq Requested(cmdQ)
      /\ \A f \in BOOLEAN : BehindBlock(cmdQ', f) \subseteq BehindBlock(cmdQ, f)
      /\ OneEach(cmdQ')
      /\ IsJob(c) => Requested(cmdQ') \subseteq BehindBlock(cmdQ, FALSE)
      /\ IsResultsJob(c)
           => /\ c \in Requested(cmdQ) /\ c \in BehindBlock(cmdQ, TRUE)
              /\ \A y \in Requested(cmdQ') : y.height # c.height
  BY <1>1, TailResults DEF DistinctInv
<1>3. /\ JobsIn(cmdQ) # {} /\ ~IsJob(c) => JobsIn(cmdQ') # {}
      /\ JobsIn(cmdQ) = {} => JobsIn(cmdQ') = {} /\ ~IsJob(c)
      /\ a => JobsIn(cmdQ) = {}
      /\ IsJob(c) => ~a /\ b
  BY <1>1, TailJobs DEF JobsInv, SingleFetch
<1>4. CASE msgQ' = msgQ /\ ~IsResultsJob(c) /\ ~IsJob(c)
  <2>1. Pending' \subseteq Pending
    BY <1>1, <1>2, <1>4 DEF Pending
  <2>2. Behind' \subseteq Behind
    BY <1>1, <1>2, <1>3, <1>4 DEF Behind
  <2>3. DistinctInv'
    BY <1>1, <1>2, <1>4 DEF DistinctInv, Apart
  <2>4. ASSUME NEW z \in Pending'
        PROVE  z \in Pending /\ Moved(z, z)
    BY <2>1, <2>2, PendingTypes DEF Moved
  <2>5. LagInv' /\ LateInv'
    BY <1>1, <2>4, MovedKeeps
  <2>6. QED
    BY <2>3, <2>5
<1>5. ASSUME NEW x \in IoResult, msgQ' = Append(msgQ, x),
             IsJob(x) <=> IsJob(c), IsResultsJob(x) <=> IsResultsJob(c),
             IsResultsJob(x) => x.height = c.height /\ Tries(x) >= Tries(c),
             x.kind = "FetchBlockResultsError" => faults' = faults + 1
      PROVE  ResultsInv'
  <2>1. CASE ~IsResultsJob(x)
    <3>1. /\ Requested(msgQ') = Requested(msgQ)
          /\ BehindBlock(msgQ', FALSE) = BehindBlock(msgQ, FALSE)
          /\ OneEach(msgQ')
      <4>1. /\ Requested(Append(msgQ, x)) = Requested(msgQ)
            /\ \A f \in BOOLEAN : BehindBlock(Append(msgQ, x), f) = BehindBlock(msgQ, f)
            /\ OneEach(msgQ) => OneEach(Append(msgQ, x))
        BY <1>1, <2>1, AppendResults
      <4>2. QED
        BY <1>5, <4>1 DEF DistinctInv
    <3>2. /\ JobsIn(msgQ') = {} <=> JobsIn(msgQ) = {} /\ ~IsJob(x)
      BY <1>1, <1>5, AppendJobs
    <3>3. Pending' \subseteq Pending
      BY <1>1, <1>2, <3>1 DEF Pending
    <3>4. Behind' \subseteq Behind
      <4>1. CASE IsJob(x)
        <5>1. BehindBlock(cmdQ', TRUE) = Requested(cmdQ')
          BY BehindFacts
        <5>2. QED
          BY <1>1, <1>2, <1>3, <1>5, <3>1, <3>2, <4>1, <5>1 DEF Behind
      <4>2. CASE ~IsJob(x)
        BY <1>1, <1>2, <1>3, <1>5, <3>1, <3>2, <4>2 DEF Behind
      <4>3. QED
        BY <4>1, <4>2
    <3>5. DistinctInv'
      BY <1>1, <1>2, <3>1 DEF DistinctInv, Apart
    <3>6. ASSUME NEW z \in Pending'
          PROVE  z \in Pending /\ Moved(z, z)
      BY <3>3, <3>4, PendingTypes DEF Moved
    <3>7. LagInv' /\ LateInv'
      BY <1>1, <3>6, MovedKeeps
    <3>8. QED
      BY <3>5, <3>7
  <2>2. CASE IsResultsJob(x)
    <3>1. ~IsJob(x) /\ ~IsJob(c) /\ x.height = c.height
      BY <1>5, <2>2, ResultsJobTypes
    <3>2. /\ Requested(msgQ') = Requested(msgQ) \cup {x}
          /\ BehindBlock(msgQ', FALSE)
               = BehindBlock(msgQ, FALSE) \cup (IF a THEN {x} ELSE {})
          /\ \A y \in Requested(msgQ) : y.height # x.height
          /\ OneEach(msgQ')
      <4>1. \A y \in Requested(msgQ) : y.height # x.height
        BY <1>2, <1>5, <2>2, <3>1 DEF DistinctInv, Apart
      <4>2. /\ Requested(Append(msgQ, x)) = Requested(msgQ) \cup {x}
            /\ \A f \in BOOLEAN :
                 BehindBlock(Append(msgQ, x), f)
                   = BehindBlock(msgQ, f)
                       \cup (IF f \/ JobsIn(msgQ) # {} THEN {x} ELSE {})
            /\ OneEach(msgQ) /\ (\A y \in Requested(msgQ) : y.height # x.height)
                 => OneEach(Append(msgQ, x))
        BY <1>1, <2>2, <3>1, AppendResults
      <4>3. QED
        BY <1>5, <4>1, <4>2 DEF DistinctInv
    <3>3. JobsIn(msgQ') = {} <=> JobsIn(msgQ) = {}
      BY <1>1, <1>5, <3>1, AppendJobs
    <3>4. DistinctInv'
      <4>1. /\ \A y \in Requested(cmdQ') : y.height # x.height
            /\ \A y \in Requested(outbox) : y.height # x.height
        BY <1>2, <1>5, <2>2, <3>1 DEF DistinctInv, Apart
      <4>2. QED
        BY <1>1, <1>2, <3>2, <4>1 DEF DistinctInv, Apart
    <3>5. ASSUME NEW z \in Pending'
          PROVE  \E y \in Pending : Moved(z, y) /\ (z = y \/ z.height = c.height)
      <4>1. c \in Pending
        BY <1>2, <1>5, <2>2 DEF Pending
      <4>2. \/ z = x
            \/ z \in Pending
        BY <1>1, <1>2, <3>2 DEF Pending
      <4>3. \A y \in Behind' : y \in Behind \/ (y = x /\ a)
        BY <1>1, <1>2, <1>3, <3>1, <3>2, <3>3 DEF Behind
      <4>4. a => c \in Behind
        BY <1>2, <1>5, <2>2 DEF Behind
      <4>5. CASE z = x
        <5>1. z \in Behind' => c \in Behind
          <6>1. x \notin Behind
            <7>1. x \notin Requested(msgQ) /\ x \notin Requested(outbox)
              BY <1>2, <1>5, <2>2, <3>1, <3>2 DEF DistinctInv, Apart
            <7>2. x \notin Requested(cmdQ)
              BY <1>1, <1>5, <2>2, RequestedElements, ResultsJobTypes
            <7>3. QED
              BY <7>1, <7>2, BehindPending DEF Pending
          <6>2. QED
            BY <4>3, <4>4, <4>5, <6>1
        <5>2. Moved(z, c)
          BY <1>5, <2>2, <3>1, <4>1, <4>5, <5>1 DEF Moved
        <5>3. QED
          BY <3>1, <4>1, <4>5, <5>2
      <4>6. CASE z \in Pending /\ z # x
        BY <4>3, <4>6, PendingTypes DEF Moved
      <4>7. QED
        BY <4>2, <4>5, <4>6
    <3>6. LagInv' /\ LateInv'
      BY <1>1, <3>5, MovedKeeps
    <3>7. QED
      BY <3>4, <3>6
  <2>3. QED
    BY <2>1, <2>2
<1>6. QED
  BY <1>4, <1>5, IoStepResults

----------------------------------------------------------------------------
(* The processing thread and the feeder.                                   *)

(* Sending moves a request from the outbox to the end of the commands.     *)
LEMMA SendKeepsResults ==
  ASSUME TypeOK, TypeOK', JobsInv, ResultsInv, SendCommand
  PROVE  ResultsInv'
<1> DEFINE x == Head(outbox)
           b == JobsIn(msgQ) # {} \/ JobsIn(cmdQ) # {}
<1> USE DEF ResultsInv
<1>1. /\ outbox # <<>> /\ outbox \in Seq(IoCommand) /\ cmdQ \in Seq(IoCommand)
      /\ x \in IoCommand /\ cmdQ' = Append(cmdQ, x) /\ outbox' = Tail(outbox)
      /\ msgQ' = msgQ /\ last_processed_height' = last_processed_height
      /\ faults \in Nat /\ faults' = faults
  BY TailFacts DEF SendCommand, TypeOK, procVars, envVars
<1>2. /\ Requested(outbox') \subseteq Requested(outbox)
      /\ \A f \in BOOLEAN : BehindBlock(outbox', f) \subseteq BehindBlock(outbox, f)
      /\ OneEach(outbox')
      /\ IsJob(x) => Requested(outbox') \subseteq BehindBlock(outbox, FALSE)
      /\ IsResultsJob(x)
           => /\ x \in Requested(outbox) /\ x \in BehindBlock(outbox, TRUE)
              /\ \A y \in Requested(outbox') : y.height # x.height
  BY <1>1, TailResults DEF DistinctInv
<1>3. JobsIn(cmdQ') = {} <=> JobsIn(cmdQ) = {} /\ ~IsJob(x)
  BY <1>1, AppendJobs
<1>4. CASE ~IsResultsJob(x)
  <2>1. /\ Requested(Append(cmdQ, x)) = Requested(cmdQ)
        /\ \A f \in BOOLEAN : BehindBlock(Append(cmdQ, x), f) = BehindBlock(cmdQ, f)
        /\ OneEach(cmdQ) => OneEach(Append(cmdQ, x))
    BY <1>1, <1>4, AppendResults
  <2>2. Pending' \subseteq Pending
    BY <1>1, <1>2, <2>1 DEF Pending
  <2>3. BehindBlock(outbox', JobsIn(msgQ') # {} \/ JobsIn(cmdQ') # {})
          \subseteq BehindBlock(outbox, b)
    <3>1. CASE IsJob(x)
      <4>1. /\ BehindBlock(outbox', TRUE) = Requested(outbox')
            /\ BehindBlock(outbox, FALSE) \subseteq BehindBlock(outbox, b)
        BY BehindFacts
      <4>2. QED
        BY <1>2, <1>3, <3>1, <4>1
    <3>2. CASE ~IsJob(x)
      BY <1>1, <1>2, <1>3, <3>2
    <3>3. QED
      BY <3>1, <3>2
  <2>4. Behind' \subseteq Behind
    BY <1>1, <2>1, <2>3 DEF Behind
  <2>5. DistinctInv'
    BY <1>1, <1>2, <2>1 DEF DistinctInv, Apart
  <2>6. ASSUME NEW z \in Pending'
        PROVE  z \in Pending /\ Moved(z, z)
    BY <2>2, <2>4, PendingTypes DEF Moved
  <2>7. LagInv' /\ LateInv'
    BY <1>1, <2>6, MovedKeeps
  <2>8. QED
    BY <2>5, <2>7
<1>5. CASE IsResultsJob(x)
  <2>1. ~IsJob(x)
    BY <1>5, ResultsJobTypes
  <2>2. /\ Requested(Append(cmdQ, x)) = Requested(cmdQ) \cup {x}
        /\ \A f \in BOOLEAN :
             BehindBlock(Append(cmdQ, x), f)
               = BehindBlock(cmdQ, f)
                   \cup (IF f \/ JobsIn(cmdQ) # {} THEN {x} ELSE {})
        /\ OneEach(cmdQ) /\ (\A y \in Requested(cmdQ) : y.height # x.height)
             => OneEach(Append(cmdQ, x))
    BY <1>1, <1>5, <2>1, AppendResults
  <2>3. \A y \in Requested(cmdQ) \cup Requested(msgQ) : y.height # x.height
    BY <1>2, <1>5 DEF DistinctInv, Apart
  <2>4. DistinctInv'
    BY <1>1, <1>2, <1>5, <2>2, <2>3 DEF DistinctInv, Apart
  <2>5. Pending' \subseteq Pending
    BY <1>1, <1>2, <1>5, <2>2 DEF Pending
  <2>6. Behind' \subseteq Behind
    BY <1>1, <1>2, <1>3, <1>5, <2>1, <2>2 DEF Behind
  <2>7. ASSUME NEW z \in Pending'
        PROVE  z \in Pending /\ Moved(z, z)
    BY <2>5, <2>6, PendingTypes DEF Moved
  <2>8. LagInv' /\ LateInv'
    BY <1>1, <2>7, MovedKeeps
  <2>9. QED
    BY <2>4, <2>8
<1>6. QED
  BY <1>4, <1>5

(* A head request and a published snapshot move nothing.                   *)
LEMMA IdleKeepsResults ==
  ASSUME TypeOK, TypeOK', ResultsInv, FeederTick \/ PublishMetrics \/ UNCHANGED vars
  PROVE  ResultsInv'
<1> USE DEF ResultsInv
<1>1. /\ UNCHANGED <<msgQ, outbox, last_processed_height, faults>> /\ faults \in Nat
      /\ cmdQ \in Seq(IoCommand)
  BY DEF FeederTick, PublishMetrics, TypeOK, vars, procVars, envVars
<1>2. /\ Requested(cmdQ') = Requested(cmdQ)
      /\ \A f \in BOOLEAN : BehindBlock(cmdQ', f) = BehindBlock(cmdQ, f)
      /\ OneEach(cmdQ')
      /\ JobsIn(cmdQ') = {} <=> JobsIn(cmdQ) = {}
  <2>1. CASE FeederTick
    <3>1. /\ FetchHead \in IoCommand /\ ~IsJob(FetchHead) /\ ~IsResultsJob(FetchHead)
          /\ cmdQ' = Append(cmdQ, FetchHead)
      BY <2>1, CommandTypes DEF FeederTick, IsJob, IsResultsJob, FetchHead
    <3>2. /\ Requested(Append(cmdQ, FetchHead)) = Requested(cmdQ)
          /\ \A f \in BOOLEAN :
               BehindBlock(Append(cmdQ, FetchHead), f) = BehindBlock(cmdQ, f)
          /\ OneEach(cmdQ) => OneEach(Append(cmdQ, FetchHead))
          /\ JobsIn(Append(cmdQ, FetchHead)) = {} <=> JobsIn(cmdQ) = {}
      BY <1>1, <3>1, AppendResults, AppendJobs
    <3>3. QED
      BY <3>1, <3>2 DEF DistinctInv
  <2>2. CASE cmdQ' = cmdQ
    BY <2>2 DEF DistinctInv
  <2>3. QED
    BY <2>1, <2>2 DEF PublishMetrics, vars
<1>3. Pending' = Pending /\ Behind' = Behind
  BY <1>1, <1>2 DEF Pending, Behind
<1>4. DistinctInv'
  BY <1>1, <1>2 DEF DistinctInv, Apart
<1>5. ASSUME NEW z \in Pending'
      PROVE  z \in Pending /\ Moved(z, z)
  BY <1>3, PendingTypes DEF Moved
<1>6. LagInv' /\ LateInv'
  BY <1>1, <1>5, MovedKeeps
<1>7. QED
  BY <1>4, <1>6

(* What every handler does: it takes the first result, and what it returns *)
(* is last in the pipeline.                                                *)
LEMMA ReceivedResults ==
  ASSUME TypeOK, JobsInv, ResultsInv, NEW kind, Receives(kind)
  PROVE  /\ outbox = <<>> /\ cmdQ' = cmdQ /\ faults' = faults /\ faults \in Nat
         /\ Head(msgQ) \in IoResult /\ Head(msgQ).kind = kind
         /\ Pending' = Requested(msgQ') \cup Requested(cmdQ) \cup Requested(outbox')
         /\ Requested(msgQ') \cup Requested(cmdQ) \subseteq Pending
         /\ BehindBlock(msgQ', FALSE) \subseteq BehindBlock(msgQ, FALSE)
         /\ OneEach(msgQ') /\ OneEach(cmdQ) /\ Apart(msgQ', cmdQ)
         /\ IsJob(Head(msgQ))
              => Requested(msgQ') \cup Requested(cmdQ) \subseteq Behind
         /\ IsResultsJob(Head(msgQ))
              => /\ Head(msgQ) \in Pending
                 /\ \A y \in Requested(msgQ') \cup Requested(cmdQ) :
                      y.height # Head(msgQ).height
<1> USE DEF ResultsInv
<1>1. /\ msgQ # <<>> /\ msgQ' = Tail(msgQ) /\ msgQ \in Seq(IoResult)
      /\ outbox = <<>> /\ cmdQ' = cmdQ /\ faults' = faults /\ faults \in Nat
      /\ Head(msgQ).kind = kind /\ Head(msgQ) \in IoResult
  BY TailFacts DEF Receives, TypeOK, JobsInv, envVars
<1>2. /\ Requested(msgQ') \subseteq Requested(msgQ)
      /\ BehindBlock(msgQ', FALSE) \subseteq BehindBlock(msgQ, FALSE)
      /\ OneEach(msgQ')
      /\ IsJob(Head(msgQ)) => Requested(msgQ') \subseteq BehindBlock(msgQ, FALSE)
      /\ IsResultsJob(Head(msgQ))
           => /\ Head(msgQ) \in Requested(msgQ)
              /\ \A y \in Requested(msgQ') : y.height # Head(msgQ).height
  BY <1>1, TailResults DEF DistinctInv
<1>3. ASSUME IsJob(Head(msgQ))
      PROVE  Requested(cmdQ) \subseteq Behind
  <2>1. JobsIn(msgQ) # {}
    BY <1>1, <1>3, TailFacts DEF JobsIn
  <2>2. QED
    BY <2>1, BehindFacts DEF Behind
<1>4. Apart(msgQ', cmdQ)
  BY <1>2 DEF DistinctInv, Apart
<1>5. ASSUME IsResultsJob(Head(msgQ)), NEW y \in Requested(cmdQ)
      PROVE  y.height # Head(msgQ).height
  BY <1>2, <1>5 DEF DistinctInv, Apart
<1>6. QED
  BY <1>1, <1>2, <1>3, <1>4, <1>5 DEF Pending, Behind, DistinctInv

(* A block is done with or tried again: what is still requested was behind *)
(* it and may see it pass.                                                 *)
LEMMA AfterBlock ==
  ASSUME TypeOK, TypeOK', JobsInv, ResultsInv, NEW kind, Receives(kind),
         IsJob(Head(msgQ)),
         last_processed_height' \in {last_processed_height, last_processed_height + 1},
         OneEach(outbox'), BehindBlock(outbox', FALSE) = {},
         \A y \in Requested(outbox') :
           /\ y.height = last_processed_height + 1 /\ y.kind = "FetchBlockResults"
           /\ last_processed_height' = last_processed_height + 1
  PROVE  ResultsInv'
<1> DEFINE kept == Requested(msgQ') \cup Requested(cmdQ)
<1>1. /\ cmdQ' = cmdQ /\ faults' = faults /\ faults \in Nat
      /\ Pending' = kept \cup Requested(outbox')
      /\ kept \subseteq Behind /\ kept \subseteq Pending
      /\ OneEach(msgQ') /\ OneEach(cmdQ) /\ Apart(msgQ', cmdQ)
  BY ReceivedResults
<1>2. Behind' = {}
  <2>1. JobsIn(msgQ') = {} /\ JobsIn(cmdQ) = {}
    BY ReceivedJobs
  <2>2. BehindBlock(msgQ', FALSE) = {} /\ BehindBlock(cmdQ, FALSE) = {}
    BY <2>1, BehindFacts
  <2>3. QED
    BY <1>1, <2>1, <2>2 DEF Behind
<1>3. ASSUME NEW z \in kept
      PROVE  /\ z.height \in Nat /\ Tries(z) \in Nat
             /\ z.height <= last_processed_height
             /\ last_processed_height + 1 <= z.height + Tries(z)
  <2>1. z \in Pending /\ z \in Behind
    BY <1>1
  <2>2. last_processed_height \in Nat /\ z.height \in Nat /\ Tries(z) \in Nat
    BY <2>1, PendingTypes DEF TypeOK
  <2>3. /\ z.height <= last_processed_height
        /\ last_processed_height < z.height + Tries(z)
    BY <2>1 DEF ResultsInv, LagInv
  <2>4. QED
    BY <2>2, <2>3
<1>4. ASSUME NEW z \in Requested(outbox')
      PROVE  /\ z \in Pending' /\ Tries(z) \in Nat
             /\ z.height = last_processed_height'
             /\ z.height = last_processed_height + 1
             /\ z.kind = "FetchBlockResults"
  BY <1>1, PendingTypesNext
<1>5. last_processed_height \in Nat
  BY DEF TypeOK
<1>6. LagInv'
  BY <1>1, <1>2, <1>3, <1>4, <1>5 DEF LagInv
<1>7. DistinctInv'
  <2>1. ASSUME NEW z \in kept, NEW y \in Requested(outbox')
        PROVE  z.height # y.height
    BY <1>3, <1>4, <1>5
  <2>2. QED
    BY <1>1, <2>1 DEF DistinctInv, Apart
<1>8. LateInv'
  <2>1. ASSUME NEW k \in LateHeights'
        PROVE  k \in LateHeights
    <3>1. PICK z \in Late' : k = z.height
      BY LateMembers
    <3>2. /\ z \in Pending'
          /\ \/ z.kind = "FetchBlockResultsError"
             \/ z.height < last_processed_height'
      BY <1>2 DEF Late
    <3>3. z \notin Requested(outbox')
      BY <1>4, <1>5, <3>2
    <3>4. z \in Behind
      BY <1>1, <3>2, <3>3
    <3>5. QED
      BY <3>1, <3>4, LateMembers
  <2>2. QED
    BY <1>1, <2>1, StepKeepsLateInv DEF ResultsInv
<1>9. QED
  BY <1>6, <1>7, <1>8 DEF ResultsInv

(* An answer to a request for results is taken; the request may be made    *)
(* again, behind everything, with one more try.                            *)
LEMMA AfterResults ==
  ASSUME TypeOK, TypeOK', JobsInv, ResultsInv, NEW kind, Receives(kind),
         IsResultsJob(Head(msgQ)),
         last_processed_height' = last_processed_height,
         OneEach(outbox'),
         \A y \in Requested(outbox') :
           /\ y.height = Head(msgQ).height /\ y.kind = "FetchBlockResults"
           /\ Tries(y) = Tries(Head(msgQ)) + 1
           /\ Head(msgQ).kind = "FetchBlockResultsError"
  PROVE  ResultsInv'
<1> DEFINE m == Head(msgQ)
           kept == Requested(msgQ') \cup Requested(cmdQ)
<1>1. /\ cmdQ' = cmdQ /\ faults' = faults /\ faults \in Nat
      /\ Pending' = kept \cup Requested(outbox')
      /\ kept \subseteq Pending /\ m \in Pending
      /\ BehindBlock(msgQ', FALSE) \subseteq BehindBlock(msgQ, FALSE)
      /\ \A y \in kept : y.height # m.height
      /\ OneEach(msgQ') /\ OneEach(cmdQ) /\ Apart(msgQ', cmdQ)
  BY ReceivedResults
<1>2. ASSUME NEW z \in kept, z \in Behind'
      PROVE  z \in Behind
  <2>1. ~IsJob(m)
    BY ResultsJobTypes
  <2>2. JobsIn(msgQ') = {} <=> JobsIn(msgQ) = {}
    BY <2>1, ReceivedJobs
  <2>3. z \notin Requested(outbox')
    BY <1>1
  <2>4. z \notin BehindBlock(outbox', JobsIn(msgQ') # {} \/ JobsIn(cmdQ') # {})
    BY <2>3, BehindFacts
  <2>5. QED
    BY <1>1, <1>2, <2>2, <2>4 DEF Behind
<1>3. ASSUME NEW z \in Pending'
      PROVE  /\ z.height \in Nat /\ Tries(z) \in Nat
             /\ z.height <= last_processed_height
             /\ last_processed_height <= z.height + Tries(z)
             /\ z \in Behind' => last_processed_height < z.height + Tries(z)
  <2>1. last_processed_height \in Nat /\ z.height \in Nat /\ Tries(z) \in Nat
    BY PendingTypesNext DEF TypeOK
  <2>2. CASE z \in kept
    BY <1>1, <1>2, <2>1, <2>2 DEF ResultsInv, LagInv
  <2>3. CASE z \in Requested(outbox')
    <3>1. z.height = m.height /\ Tries(z) = Tries(m) + 1 /\ Tries(m) \in Nat
      BY <1>1, <2>3, PendingTypes
    <3>2. /\ m.height <= last_processed_height
          /\ last_processed_height <= m.height + Tries(m)
      BY <1>1 DEF ResultsInv, LagInv
    <3>3. QED
      BY <2>1, <3>1, <3>2
  <2>4. QED
    BY <1>1, <2>2, <2>3
<1>4. LagInv'
  BY <1>3, BehindPending DEF LagInv
<1>5. DistinctInv'
  BY <1>1 DEF DistinctInv, Apart
<1>6. LateInv'
  <2>1. ASSUME NEW k \in LateHeights'
        PROVE  k \in LateHeights
    <3>1. PICK z \in Late' : k = z.height
      BY LateMembers
    <3>2. /\ z \in Pending'
          /\ \/ z \in Behind' \/ z.kind = "FetchBlockResultsError"
             \/ z.height < last_processed_height
      BY BehindPending DEF Late
    <3>3. CASE z \in kept
      BY <1>1, <1>2, <3>1, <3>2, <3>3, LateMembers
    <3>4. CASE z \in Requested(outbox')
      <4>1. m \in Late /\ k = m.height
        BY <1>1, <3>1, <3>4, LateMembers
      <4>2. QED
        BY <4>1, LateMembers
    <3>5. QED
      BY <1>1, <3>2, <3>3, <3>4
  <2>2. QED
    BY <1>1, <2>1, StepKeepsLateInv DEF ResultsInv
<1>7. QED
  BY <1>4, <1>5, <1>6 DEF ResultsInv

(* Any other result changes nothing for them; only the first head moves    *)
(* last_processed_height, when nothing can have been requested.            *)
LEMMA AfterOther ==
  ASSUME TypeOK, TypeOK', JobsInv, ResultsInv, NEW kind, Receives(kind),
         ~IsJob(Head(msgQ)), ~IsResultsJob(Head(msgQ)),
         last_processed_height' = last_processed_height \/ Starting,
         OneEach(outbox'), Requested(outbox') = {}
  PROVE  ResultsInv'
<1>1. /\ cmdQ' = cmdQ /\ faults' = faults /\ faults \in Nat
      /\ Pending' = Requested(msgQ') \cup Requested(cmdQ)
      /\ Pending' \subseteq Pending
      /\ BehindBlock(msgQ', FALSE) \subseteq BehindBlock(msgQ, FALSE)
      /\ OneEach(msgQ') /\ OneEach(cmdQ) /\ Apart(msgQ', cmdQ)
  BY ReceivedResults
<1>2. Behind' \subseteq Behind
  <2>1. JobsIn(msgQ') = {} <=> JobsIn(msgQ) = {}
    BY ReceivedJobs
  <2>2. BehindBlock(outbox', JobsIn(msgQ') # {} \/ JobsIn(cmdQ') # {}) = {}
    BY BehindFacts
  <2>3. QED
    BY <1>1, <2>1, <2>2 DEF Behind
<1>3. DistinctInv'
  BY <1>1 DEF DistinctInv, Apart
<1>4. CASE last_processed_height' = last_processed_height
  <2>1. ASSUME NEW z \in Pending'
        PROVE  z \in Pending /\ Moved(z, z)
    BY <1>1, <1>2, PendingTypes DEF Moved
  <2>2. LagInv' /\ LateInv'
    BY <1>1, <1>4, <2>1, MovedKeeps DEF ResultsInv
  <2>3. QED
    BY <1>3, <2>2 DEF ResultsInv
<1>5. CASE Starting
  <2>1. Pending = {}
    <3>1. ASSUME NEW x \in Pending
          PROVE  FALSE
      BY <1>5, PendingTypes DEF ResultsInv, LagInv, Starting
    <3>2. QED
      BY <3>1
  <2>2. Pending' = {} /\ Behind' = {}
    BY <1>1, <2>1, BehindPending
  <2>3. LagInv'
    BY <2>2 DEF LagInv
  <2>4. LateInv'
    <3>1. \A k \in LateHeights' : k \in LateHeights
      BY <2>2, LateMembers, BehindPending DEF Late
    <3>2. QED
      BY <1>1, <3>1, StepKeepsLateInv DEF ResultsInv
  <2>5. QED
    BY <1>3, <2>3, <2>4 DEF ResultsInv
<1>6. QED
  BY <1>4, <1>5

(* A queue without requests for block results.                             *)
LEMMA NoResults ==
  ASSUME NEW q, \A i \in DOMAIN q : ~IsResultsJob(q[i])
  PROVE  Requested(q) = {} /\ OneEach(q) /\ BehindBlock(q, FALSE) = {}
<1>1. ResultsJobsIn(q) = {}
  BY DEF ResultsJobsIn
<1>2. Requested(q) = {}
  BY <1>1, RequestedMembers
<1>3. QED
  BY <1>1, <1>2, BehindFacts DEF OneEach

(* The four lists a block's handler may return.                            *)
LEMMA ResponseForms ==
  ASSUME NEW h, NEW p
  PROVE  LET results == FetchBlockResults(h, p, 0)
             block == FetchBlock(h + 1, 0)
         IN  /\ BlockResponses(h, p) \in {<<>>, <<results>>, <<block>>, <<results, block>>}
             /\ NextFetch(h) \in {<<>>, <<block>>}
<1> DEFINE x == FetchBlockResults(h, p, 0)
           y == FetchBlock(h + 1, 0)
<1>1. <<x>> \in Seq({x, y}) /\ <<y>> \in Seq({x, y}) /\ <<>> \in Seq({x, y})
  OBVIOUS
<1>2. /\ <<>> \o <<>> = <<>> /\ <<x>> \o <<>> = <<x>> /\ <<>> \o <<y>> = <<y>>
  BY <1>1, ConcatEmptySeq
<1>3. <<x>> \o <<y>> = <<x, y>>
  <2> DEFINE s == <<x>> \o <<y>>
             t == <<x, y>>
  <2>1. s \in Seq({x, y}) /\ Len(s) = 2 /\ \A i \in 1..2 : s[i] = t[i]
    BY <1>1, ConcatProperties
  <2>2. t \in Seq({x, y}) /\ Len(t) = 2
    OBVIOUS
  <2> HIDE DEF s, t
  <2>3. s = t
    BY <2>1, <2>2, SeqEqual
  <2>4. QED
    BY <2>3 DEF s, t
<1>4. ResultsFetch(h, p) \in {<<>>, <<x>>} /\ NextFetch(h) \in {<<>>, <<y>>}
  BY DEF ResultsFetch, NextFetch
<1> HIDE DEF x, y
<1>5. BlockResponses(h, p) \in {<<>>, <<x>>, <<y>>, <<x, y>>}
  BY <1>2, <1>3, <1>4 DEF BlockResponses
<1>6. QED
  BY <1>4, <1>5 DEF x, y

(* The processing thread, handler by handler.                              *)
LEMMA ProcessingStepKeepsResults ==
  ASSUME TypeOK, TypeOK', JobsInv, ResultsInv, ProcessingStep
  PROVE  ResultsInv'
<1> DEFINE m == Head(msgQ)
<1>1. \A h, r : /\ FetchBlock(h, r).kind = "FetchBlock"
                /\ ~IsResultsJob(FetchBlock(h, r))
  BY DEF FetchBlock, IsResultsJob
<1>2. \A h, r : /\ Requested(<<FetchBlock(h, r)>>) = {} /\ OneEach(<<FetchBlock(h, r)>>)
                /\ BehindBlock(<<FetchBlock(h, r)>>, FALSE) = {}
  BY <1>1, ShortResults
<1>3. Requested(<<>>) = {} /\ OneEach(<<>>) /\ BehindBlock(<<>>, FALSE) = {}
  BY ShortResults, BehindFacts
<1>4. CASE HandleFetchError
  <2>1. Receives("FetchError") /\ IsJob(m)
    BY <1>4 DEF HandleFetchError, Receives, IsJob
  <2>2. m.height = last_processed_height + 1
    BY <2>1, ReceivedJobs
  <2>3. last_processed_height' \in {last_processed_height, last_processed_height + 1}
    BY <1>4, <2>2 DEF HandleFetchError
  <2>4. Requested(outbox') = {} /\ OneEach(outbox') /\ BehindBlock(outbox', FALSE) = {}
    BY <1>2, <1>3, <1>4 DEF HandleFetchError, NextFetch
  <2>5. QED
    BY <2>1, <2>3, <2>4, AfterBlock
<1>5. ASSUME NEW creations \in PollLists, HandleBlock(creations)
      PROVE  ResultsInv'
  <2> DEFINE x == FetchBlockResults(m.height, creations, 0)
             y == FetchBlock(m.height + 1, 0)
  <2>1. Receives("Block") /\ IsJob(m)
    BY <1>5 DEF HandleBlock, Receives, IsJob
  <2>2. m.height = last_processed_height + 1
    BY <2>1, ReceivedJobs
  <2>3. last_processed_height' = last_processed_height + 1
    BY <1>5, <2>2 DEF HandleBlock
  <2>4. /\ x.kind = "FetchBlockResults" /\ x.height = m.height
        /\ IsResultsJob(x) /\ ~IsJob(x) /\ ~IsResultsJob(y)
    BY <1>1 DEF FetchBlockResults, IsResultsJob, IsJob
  <2>5. outbox' \in {<<>>, <<x>>, <<y>>, <<x, y>>}
    BY <1>5, ResponseForms DEF HandleBlock
  <2> HIDE DEF x, y
  <2>6. OneEach(outbox') /\ BehindBlock(outbox', FALSE) = {}
        /\ Requested(outbox') \subseteq {x}
    BY <1>3, <2>4, <2>5, ShortResults
  <2>7. QED
    BY <2>1, <2>2, <2>3, <2>4, <2>6, AfterBlock
<1>6. CASE HandleFetchBlockResultsError
  <2>1. /\ Receives("FetchBlockResultsError") /\ IsResultsJob(m)
        /\ m.kind = "FetchBlockResultsError" /\ Tries(m) = m.retries
    BY <1>6 DEF HandleFetchBlockResultsError, Receives, IsResultsJob, Tries
  <2>2. last_processed_height' = last_processed_height
    BY <1>6 DEF HandleFetchBlockResultsError
  <2> DEFINE x == FetchBlockResults(m.height, m.polls, m.retries + 1)
  <2>3. /\ x.kind = "FetchBlockResults" /\ x.height = m.height
        /\ Tries(x) = Tries(m) + 1 /\ IsResultsJob(x)
    BY <2>1 DEF FetchBlockResults, Tries, IsResultsJob
  <2>4. outbox' \in {<<>>, <<x>>}
    BY <1>6 DEF HandleFetchBlockResultsError
  <2> HIDE DEF x
  <2>5. OneEach(outbox') /\ Requested(outbox') \subseteq {x}
    BY <1>3, <2>3, <2>4, ShortResults
  <2>6. QED
    BY <2>1, <2>2, <2>3, <2>5, AfterResults
<1>7. CASE HandleBlockResults
  <2>1. /\ Receives("BlockResults") /\ IsResultsJob(m) /\ outbox' = <<>>
        /\ last_processed_height' = last_processed_height
    BY <1>7 DEF HandleBlockResults, Receives, IsResultsJob, procVars
  <2>2. OneEach(outbox') /\ Requested(outbox') = {}
    BY <1>3, <2>1
  <2>3. QED
    BY <2>1, <2>2, AfterResults
<1>8. CASE HandleFetchChainListError \/ HandleChainList \/ HandleChainParams
  <2>1. PICK kind \in {"FetchChainListError", "ChainList", "ChainParams"} : Receives(kind)
    BY <1>8 DEF HandleFetchChainListError, HandleChainList, HandleChainParams
  <2>2. ~IsJob(m) /\ ~IsResultsJob(m)
    BY <2>1 DEF Receives, IsJob, IsResultsJob
  <2>3. last_processed_height' = last_processed_height
    BY <1>8 DEF HandleFetchChainListError, HandleChainList, HandleChainParams, procVars
  <2>4. \A i \in DOMAIN outbox' : ~IsResultsJob(outbox'[i])
    BY <1>8 DEF HandleFetchChainListError, HandleChainList, HandleChainParams,
       IsResultsJob, FetchChainList, FetchChainParams
  <2>5. OneEach(outbox') /\ Requested(outbox') = {}
    BY <2>4, NoResults
  <2>6. QED
    BY <2>1, <2>2, <2>3, <2>5, AfterOther
<1>9. CASE HandleHead
  <2>1. Receives("Head") /\ ~IsJob(m) /\ ~IsResultsJob(m)
    BY <1>9 DEF HandleHead, Receives, IsJob, IsResultsJob
  <2>2. last_processed_height' = last_processed_height \/ Starting
    BY <1>9 DEF HandleHead
  <2>3. OneEach(outbox') /\ Requested(outbox') = {}
    BY <1>2, <1>3, <1>9 DEF HandleHead
  <2>4. QED
    BY <2>1, <2>2, <2>3, AfterOther
<1>10. QED
  BY <1>4, <1>5, <1>6, <1>7, <1>8, <1>9, SendKeepsResults, IdleKeepsResults
     DEF ProcessingStep

----------------------------------------------------------------------------
(* What skipping a block has cost.                                         *)

(* The block requests of a queue and what they have spent, under the three *)
(* ways a queue changes.                                                   *)
LEMMA PaidQueues ==
  ASSUME NEW S, NEW q \in Seq(S), NEW s, NEW f
  PROVE  /\ JobsIn(q) = {} => PaidFor(q, s, f)
         /\ \A x \in S : PaidFor(q, s, f) /\ (IsJob(x) => s + Spent(x) <= f)
                           => PaidFor(Append(q, x), s, f)
         /\ q # <<>> /\ PaidFor(q, s, f)
              => /\ PaidFor(Tail(q), s, f)
                 /\ IsJob(Head(q)) => s + Spent(Head(q)) <= f
<1>1. JobsIn(q) = {} => PaidFor(q, s, f)
  BY DEF PaidFor
<1>2. ASSUME NEW x \in S, PaidFor(q, s, f), IsJob(x) => s + Spent(x) <= f
      PROVE  PaidFor(Append(q, x), s, f)
  <2> DEFINE t == Append(q, x)
             n == Len(q) + 1
  <2>1. /\ \A i \in DOMAIN q : t[i] = q[i]
        /\ DOMAIN t = DOMAIN q \cup {n} /\ t[n] = x
    BY AppendFacts
  <2> HIDE DEF t, n
  <2>2. ASSUME NEW i \in JobsIn(t)
        PROVE  (i \in JobsIn(q) /\ t[i] = q[i]) \/ (t[i] = x /\ IsJob(x))
    <3>1. i \in DOMAIN t /\ IsJob(t[i])
      BY DEF JobsIn
    <3>2. QED
      BY <2>1, <3>1 DEF JobsIn
  <2>3. PaidFor(t, s, f)
    BY <1>2, <2>2 DEF PaidFor
  <2>4. QED
    BY <2>3 DEF t
<1>3. ASSUME q # <<>>, PaidFor(q, s, f)
      PROVE  /\ PaidFor(Tail(q), s, f)
             /\ IsJob(Head(q)) => s + Spent(Head(q)) <= f
  <2> DEFINE t == Tail(q)
  <2>1. /\ Head(q) = q[1] /\ 1 \in DOMAIN q
        /\ \A i \in DOMAIN t : i + 1 \in DOMAIN q /\ t[i] = q[i + 1]
    BY <1>3, TailFacts
  <2> HIDE DEF t
  <2>2. \A i \in JobsIn(t) : i + 1 \in JobsIn(q) /\ t[i] = q[i + 1]
    BY <2>1 DEF JobsIn
  <2>3. PaidFor(t, s, f)
    BY <1>3, <2>2 DEF PaidFor
  <2>4. IsJob(Head(q)) => 1 \in JobsIn(q)
    BY <2>1 DEF JobsIn
  <2>5. QED
    BY <1>3, <2>1, <2>3, <2>4 DEF PaidFor, t
<1>4. QED
  BY <1>1, <1>2, <1>3

(* The queues the handlers return.                                         *)
LEMMA ShortPaid ==
  ASSUME NEW x, NEW y, NEW s, NEW f
  PROVE  /\ PaidFor(<<>>, s, f)
         /\ (IsJob(x) => s + Spent(x) <= f) => PaidFor(<<x>>, s, f)
         /\ ~IsJob(x) /\ (IsJob(y) => s + Spent(y) <= f) => PaidFor(<<x, y>>, s, f)
<1> DEFINE p == <<x>>
           t == <<x, y>>
<1>1. /\ JobsIn(<<>>) = {}
      /\ \A i : i \in JobsIn(p) <=> i = 1 /\ IsJob(x)
      /\ \A i : i \in JobsIn(t) <=> (i = 1 /\ IsJob(x)) \/ (i = 2 /\ IsJob(y))
  BY DEF JobsIn
<1>2. p[1] = x /\ t[1] = x /\ t[2] = y
  OBVIOUS
<1> HIDE DEF p, t
<1>3. QED
  BY <1>1, <1>2 DEF PaidFor, p, t

(* More failures pay for as much.                                          *)
LEMMA MorePaid ==
  ASSUME NEW q, q \in Seq(IoCommand) \/ q \in Seq(IoResult),
         NEW s \in Nat, NEW f \in Nat, NEW g \in Nat, f <= g, PaidFor(q, s, f)
  PROVE  PaidFor(q, s, g)
<1>1. ASSUME NEW i \in JobsIn(q)
      PROVE  Spent(q[i]) \in Nat
  <2>1. q[i] \in IoCommand \/ q[i] \in IoResult
    BY <1>1 DEF JobsIn
  <2>2. IsJob(q[i])
    BY <1>1 DEF JobsIn
  <2>3. CASE q[i] \in IoCommand
    <3>1. q[i].kind = "FetchBlock"
      BY <2>2, <2>3 DEF IoCommand, IsJob
    <3>2. QED
      BY <2>3, <3>1, CommandFields DEF Spent, Retries
  <2>4. CASE q[i] \in IoResult
    <3>1. q[i].kind \in {"Block", "FetchError"}
      BY <2>2, <2>4 DEF IoResult, IsJob
    <3>2. QED
      BY <2>4, <3>1, ResultFields DEF Spent, Retries
  <2>5. QED
    BY <2>1, <2>3, <2>4
<1>2. QED
  BY <1>1 DEF PaidFor

(* One more skipped block costs one more round of attempts.                *)
LEMMA Rounds ==
  ASSUME NEW a \in Nat
  PROVE  /\ a * (MAX_FETCH_RETRIES + 1) \in Nat
         /\ (a + 1) * (MAX_FETCH_RETRIES + 1)
              = a * (MAX_FETCH_RETRIES + 1) + MAX_FETCH_RETRIES + 1
         /\ 0 * (MAX_FETCH_RETRIES + 1) = 0
  OBVIOUS

(* The skipped blocks are counted in the natural numbers.                  *)
LEMMA SkippedType ==
  ASSUME TypeOK, CountersInv
  PROVE  Skipped \in Nat
<1>1. last_processed_height - chain_height \in Nat
  BY DEF TypeOK, CountersInv
<1>2. QED
  BY <1>1, Rounds DEF Skipped

(* A failed request is paid for by its failure.                            *)
LEMMA IoStepKeepsSkipInv ==
  ASSUME TypeOK, CountersInv, SkipInv, IoStep
  PROVE  SkipInv'
<1>1. /\ cmdQ # <<>> /\ cmdQ \in Seq(IoCommand) /\ msgQ \in Seq(IoResult)
      /\ outbox \in Seq(IoCommand) /\ cmdQ' = Tail(cmdQ) /\ outbox' = outbox
      /\ cmdQ' \in Seq(IoCommand)
      /\ chain_height' = chain_height /\ Skipped' = Skipped
      /\ faults \in Nat /\ faults' \in Nat /\ faults' >= faults
  <2>1. /\ cmdQ # <<>> /\ cmdQ' = Tail(cmdQ)
        /\ UNCHANGED <<outbox, chain_height, last_processed_height>>
    BY IoStepJobs DEF procVars
  <2>2. faults \in Nat /\ faults' \in {faults, faults + 1}
    BY IoStepResults DEF TypeOK
  <2>3. Tail(cmdQ) \in Seq(IoCommand)
    BY <2>1, TailFacts DEF TypeOK
  <2>4. Skipped' = Skipped
    BY <2>1 DEF Skipped
  <2>5. QED
    BY <2>1, <2>2, <2>3, <2>4 DEF TypeOK
<1>2. SUFFICES ASSUME chain_height # 0
               PROVE  /\ Skipped <= faults'
                      /\ PaidFor(msgQ', Skipped, faults')
                      /\ PaidFor(cmdQ', Skipped, faults')
                      /\ PaidFor(outbox, Skipped, faults')
  BY <1>1 DEF SkipInv
<1>3. /\ Skipped \in Nat /\ Skipped <= faults
      /\ PaidFor(msgQ, Skipped, faults) /\ PaidFor(cmdQ, Skipped, faults)
      /\ PaidFor(outbox, Skipped, faults)
  BY <1>2, SkippedType DEF SkipInv
<1>4. /\ PaidFor(cmdQ', Skipped, faults)
      /\ IsJob(Head(cmdQ)) => Skipped + Spent(Head(cmdQ)) <= faults
  BY <1>1, <1>3, PaidQueues
<1>5. /\ PaidFor(msgQ, Skipped, faults') /\ PaidFor(cmdQ', Skipped, faults')
      /\ PaidFor(outbox, Skipped, faults')
  BY <1>1, <1>3, <1>4, MorePaid
<1>6. PaidFor(msgQ', Skipped, faults')
  <2>1. CASE msgQ' = msgQ
    BY <1>5, <2>1
  <2>2. ASSUME NEW x \in IoResult, msgQ' = Append(msgQ, x),
               IsJob(x) <=> IsJob(Head(cmdQ)),
               IsJob(x) => /\ Spent(x) \in Nat /\ Spent(Head(cmdQ)) \in Nat
                           /\ Spent(x) <= Spent(Head(cmdQ)) + faults' - faults
        PROVE  PaidFor(msgQ', Skipped, faults')
    <3>1. IsJob(x) => Skipped + Spent(x) <= faults'
      BY <1>1, <1>3, <1>4, <2>2
    <3>2. PaidFor(Append(msgQ, x), Skipped, faults')
      BY <1>1, <1>5, <3>1, PaidQueues
    <3>3. QED
      BY <2>2, <3>2
  <2>3. QED
    BY <2>1, <2>2, IoStepResults
<1>7. QED
  BY <1>1, <1>3, <1>5, <1>6

(* A block request is handled: only what follows it is still to be paid.   *)
LEMMA JobKeepsSkipInv ==
  ASSUME TypeOK, JobsInv, NEW kind, Receives(kind), IsJob(Head(msgQ)),
         chain_height' # 0 => Skipped' <= faults /\ PaidFor(outbox', Skipped', faults)
  PROVE  SkipInv'
<1>1. cmdQ' = cmdQ /\ faults' = faults
  BY DEF Receives, envVars
<1>2. JobsIn(msgQ') = {} /\ JobsIn(cmdQ) = {}
  BY ReceivedJobs
<1>3. PaidFor(msgQ', Skipped', faults) /\ PaidFor(cmdQ, Skipped', faults)
  BY <1>2 DEF PaidFor
<1>4. QED
  BY <1>1, <1>3 DEF SkipInv

(* Another result is handled: nothing is skipped or spent.                 *)
LEMMA OtherKeepsSkipInv ==
  ASSUME TypeOK, SkipInv, NEW kind, Receives(kind),
         UNCHANGED <<last_processed_height, chain_height>>,
         chain_height # 0 /\ Skipped <= faults => PaidFor(outbox', Skipped, faults)
  PROVE  SkipInv'
<1>1. /\ msgQ # <<>> /\ msgQ \in Seq(IoResult) /\ msgQ' = Tail(msgQ)
      /\ cmdQ' = cmdQ /\ faults' = faults
  BY DEF Receives, envVars, TypeOK
<1>2. Skipped' = Skipped
  BY DEF Skipped
<1>3. SUFFICES ASSUME chain_height # 0
               PROVE  /\ Skipped <= faults
                      /\ PaidFor(Tail(msgQ), Skipped, faults)
                      /\ PaidFor(cmdQ, Skipped, faults)
                      /\ PaidFor(outbox', Skipped, faults)
  BY <1>1, <1>2 DEF SkipInv
<1>4. /\ Skipped <= faults
      /\ PaidFor(msgQ, Skipped, faults) /\ PaidFor(cmdQ, Skipped, faults)
  BY <1>3 DEF SkipInv
<1>5. QED
  BY <1>1, <1>3, <1>4, PaidQueues

(* A block is given up only when its attempts are used up; a block that is *)
(* processed leaves nothing skipped.                                       *)
LEMMA ProcessingStepKeepsSkipInv ==
  ASSUME TypeOK, JobsInv, CountersInv, SkipInv, ProcessingStep
  PROVE  SkipInv'
<1> DEFINE m == Head(msgQ)
<1>1. /\ Skipped \in Nat /\ faults \in Nat /\ last_processed_height \in Nat
      /\ chain_height \in Nat /\ chain_height <= last_processed_height
      /\ cmdQ \in Seq(IoCommand) /\ outbox \in Seq(IoCommand)
  BY SkippedType DEF TypeOK, CountersInv
<1>2. ASSUME NEW h, NEW r, NEW s \in Nat, NEW f \in Nat, s + r <= f
      PROVE  PaidFor(<<FetchBlock(h, r)>>, s, f)
  <2>1. Spent(FetchBlock(h, r)) = r
    BY DEF Spent, FetchBlock
  <2>2. QED
    BY <1>2, <2>1, ShortPaid
<1>3. \A s, f : PaidFor(<<>>, s, f)
  BY ShortPaid
<1>4. CASE HandleFetchError
  <2>1. /\ Receives("FetchError") /\ IsJob(m) /\ m.kind = "FetchError"
        /\ UNCHANGED <<chain_tip, chain_height>>
    BY <1>4 DEF HandleFetchError, Receives, IsJob
  <2>2. m.height = last_processed_height + 1
    BY <2>1, ReceivedJobs
  <2>3. m.retries \in Nat /\ m.retries <= MAX_FETCH_RETRIES
    BY <2>1, ReceivedTypes, ResultFields DEF Retries
  <2>4. ASSUME chain_height # 0
        PROVE  Skipped + m.retries + 1 <= faults
    <3>1. PaidFor(msgQ, Skipped, faults) /\ msgQ # <<>> /\ msgQ \in Seq(IoResult)
      BY <2>1, <2>4 DEF SkipInv, Receives, TypeOK
    <3>2. Skipped + Spent(m) <= faults
      BY <2>1, <3>1, PaidQueues
    <3>3. Spent(m) = m.retries + 1
      BY <2>1 DEF Spent
    <3>4. QED
      BY <1>1, <2>3, <3>2, <3>3
  <2>5. CASE /\ MayRetry(m.retries) /\ outbox' = <<FetchBlock(m.height, m.retries + 1)>>
             /\ UNCHANGED last_processed_height
    <3>1. Skipped' = Skipped
      BY <2>1, <2>5 DEF Skipped
    <3>2. ASSUME chain_height' # 0
          PROVE  Skipped <= faults /\ PaidFor(outbox', Skipped, faults)
      <4>1. Skipped + (m.retries + 1) <= faults /\ Skipped <= faults
        BY <1>1, <2>1, <2>3, <2>4, <3>2
      <4>2. QED
        BY <1>1, <1>2, <2>5, <4>1
    <3>3. QED
      BY <2>1, <3>1, <3>2, JobKeepsSkipInv
  <2>6. CASE /\ ~MayRetry(m.retries) /\ last_processed_height' = m.height
             /\ outbox' = NextFetch(m.height)
    <3>1. m.retries = MAX_FETCH_RETRIES
      BY <2>3, <2>6 DEF MayRetry
    <3>2. Skipped' = Skipped + MAX_FETCH_RETRIES + 1
      <4> DEFINE a == last_processed_height - chain_height
      <4>1. a \in Nat /\ last_processed_height' - chain_height' = a + 1
        BY <1>1, <2>1, <2>2, <2>6
      <4> HIDE DEF a
      <4>2. (a + 1) * (MAX_FETCH_RETRIES + 1)
              = a * (MAX_FETCH_RETRIES + 1) + MAX_FETCH_RETRIES + 1
        BY <4>1, Rounds
      <4>3. QED
        BY <4>1, <4>2 DEF Skipped, a
    <3>3. ASSUME chain_height' # 0
          PROVE  Skipped' <= faults /\ PaidFor(outbox', Skipped', faults)
      <4>1. Skipped' <= faults /\ Skipped' + 0 <= faults /\ Skipped' \in Nat
        BY <1>1, <2>1, <2>3, <2>4, <3>1, <3>2, <3>3
      <4>2. outbox' \in {<<>>, <<FetchBlock(m.height + 1, 0)>>}
        BY <2>6 DEF NextFetch
      <4>3. PaidFor(<<FetchBlock(m.height + 1, 0)>>, Skipped', faults)
        BY <1>1, <1>2, <4>1
      <4>4. QED
        BY <1>3, <4>1, <4>2, <4>3
    <3>4. QED
      BY <2>1, <3>3, JobKeepsSkipInv
  <2>7. QED
    BY <1>4, <2>5, <2>6 DEF HandleFetchError
<1>5. ASSUME NEW creations \in PollLists, HandleBlock(creations)
      PROVE  SkipInv'
  <2> DEFINE x == FetchBlockResults(m.height, creations, 0)
             y == FetchBlock(m.height + 1, 0)
  <2>1. Receives("Block") /\ IsJob(m)
    BY <1>5 DEF HandleBlock, Receives, IsJob
  <2>2. m.height = last_processed_height + 1
    BY <2>1, ReceivedJobs
  <2>3. Skipped' = 0
    <3>1. last_processed_height' = m.height /\ chain_height' = m.height
      BY <1>1, <1>5, <2>2 DEF HandleBlock
    <3>2. last_processed_height' - chain_height' = 0
      BY <1>1, <2>2, <3>1
    <3>3. QED
      BY <3>2, Rounds DEF Skipped
  <2>4. /\ ~IsJob(x) /\ Spent(y) = 0
    BY DEF FetchBlockResults, FetchBlock, IsJob, Spent
  <2>5. outbox' \in {<<>>, <<x>>, <<y>>, <<x, y>>}
    BY <1>5, ResponseForms DEF HandleBlock
  <2> HIDE DEF x, y
  <2>6. 0 + Spent(y) <= faults
    BY <1>1, <2>4
  <2>7. PaidFor(outbox', 0, faults)
    BY <2>4, <2>5, <2>6, ShortPaid
  <2>8. QED
    BY <1>1, <2>1, <2>3, <2>7, JobKeepsSkipInv
<1>6. CASE HandleHead
  <2>1. Receives("Head") /\ UNCHANGED chain_height
    BY <1>6 DEF HandleHead
  <2>2. CASE Starting
    BY <1>1, <2>1, <2>2 DEF Starting, SkipInv
  <2>3. CASE ~Starting
    <3>1. /\ UNCHANGED last_processed_height
          /\ outbox' \in {<<>>, <<FetchBlock(last_processed_height + 1, 0)>>}
      BY <1>6, <2>3 DEF HandleHead
    <3>2. ASSUME Skipped <= faults
          PROVE  PaidFor(outbox', Skipped, faults)
      <4>1. Skipped + 0 <= faults
        BY <1>1, <3>2
      <4>2. PaidFor(<<FetchBlock(last_processed_height + 1, 0)>>, Skipped, faults)
        BY <1>1, <1>2, <4>1
      <4>3. QED
        BY <1>3, <3>1, <4>2
    <3>3. QED
      BY <2>1, <3>1, <3>2, OtherKeepsSkipInv
  <2>4. QED
    BY <2>2, <2>3
<1>7. CASE HandleFetchBlockResultsError \/ HandleBlockResults
           \/ HandleFetchChainListError \/ HandleChainList \/ HandleChainParams
  <2>1. PICK kind \in {"FetchBlockResultsError", "BlockResults",
                       "FetchChainListError", "ChainList", "ChainParams"} : Receives(kind)
    BY <1>7 DEF HandleFetchBlockResultsError, HandleBlockResults,
       HandleFetchChainListError, HandleChainList, HandleChainParams
  <2>2. UNCHANGED <<last_processed_height, chain_height>>
    BY <1>7 DEF HandleFetchBlockResultsError, HandleBlockResults,
       HandleFetchChainListError, HandleChainList, HandleChainParams, procVars
  <2>3. \A i \in DOMAIN outbox' : ~IsJob(outbox'[i])
    BY <1>7 DEF HandleFetchBlockResultsError, HandleBlockResults,
       HandleFetchChainListError, HandleChainList, HandleChainParams, IsJob,
       FetchBlockResults, FetchChainList, FetchChainParams
  <2>4. PaidFor(outbox', Skipped, faults)
    BY <2>3 DEF PaidFor, JobsIn
  <2>5. QED
    BY <2>1, <2>2, <2>4, OtherKeepsSkipInv
<1>8. CASE SendCommand
  <2>1. /\ outbox # <<>> /\ cmdQ' = Append(cmdQ, Head(outbox))
        /\ outbox' = Tail(outbox)
        /\ UNCHANGED <<msgQ, last_processed_height, chain_height, faults>>
    BY <1>8 DEF SendCommand, procVars, envVars
  <2>2. Skipped' = Skipped
    BY <2>1 DEF Skipped
  <2>3. ASSUME PaidFor(outbox, Skipped, faults), PaidFor(cmdQ, Skipped, faults)
        PROVE  /\ PaidFor(Tail(outbox), Skipped, faults)
               /\ PaidFor(Append(cmdQ, Head(outbox)), Skipped, faults)
    <3>1. Head(outbox) \in IoCommand
      BY <1>1, <2>1, TailFacts
    <3>2. /\ PaidFor(Tail(outbox), Skipped, faults)
          /\ IsJob(Head(outbox)) => Skipped + Spent(Head(outbox)) <= faults
      BY <1>1, <2>1, <2>3, PaidQueues
    <3>3. QED
      BY <1>1, <2>3, <3>1, <3>2, PaidQueues
  <2>4. QED
    BY <2>1, <2>2, <2>3 DEF SkipInv
<1>9. CASE PublishMetrics
  BY <1>9 DEF PublishMetrics, procVars, envVars, SkipInv, Skipped
<1>10. QED
  BY <1>4, <1>5, <1>6, <1>7, <1>8, <1>9 DEF ProcessingStep

----------------------------------------------------------------------------
(* The invariants hold.                                                    *)

(* With a node whose head answers never fall, every reachable state has    *)
(* its requests well placed and its skipped blocks paid for.               *)
LEMMA LagHolds ==
  ASSUME SteadyNode
  PROVE  Spec => [](PipelineInv /\ ResultsInv /\ SkipInv)
<1>1. Init => ResultsInv /\ SkipInv
  <2> SUFFICES ASSUME Init PROVE ResultsInv /\ SkipInv
    OBVIOUS
  <2>1. ~IsResultsJob(FetchChainList) /\ ~IsJob(FetchChainList)
    BY DEF IsResultsJob, IsJob, FetchChainList
  <2>2. /\ Requested(msgQ) = {} /\ Requested(cmdQ) = {} /\ Requested(outbox) = {}
        /\ OneEach(msgQ) /\ OneEach(cmdQ) /\ OneEach(outbox)
    BY <2>1, ShortResults DEF Init
  <2>3. Pending = {} /\ Behind = {}
    BY <2>2, BehindPending DEF Pending
  <2>4. LateHeights = {}
    BY <2>3, LateMembers
  <2>5. ResultsInv
    BY <2>2, <2>3, <2>4, FS_EmptySet
       DEF Init, ResultsInv, LagInv, DistinctInv, Apart, LateInv
  <2>6. QED
    BY <2>5 DEF SkipInv, Init
<1>2. PipelineInv /\ PipelineInv' /\ ResultsInv /\ SkipInv /\ [Next]_vars
        => ResultsInv' /\ SkipInv'
  <2> SUFFICES ASSUME PipelineInv, PipelineInv', ResultsInv, SkipInv, [Next]_vars
               PROVE  ResultsInv' /\ SkipInv'
    OBVIOUS
  <2>1. TypeOK /\ TypeOK' /\ JobsInv /\ CountersInv
    BY DEF PipelineInv
  <2>2. CASE IoStep
    BY <2>1, <2>2, IoStepKeepsResults, IoStepKeepsSkipInv
  <2>3. CASE ProcessingStep
    BY <2>1, <2>3, ProcessingStepKeepsResults, ProcessingStepKeepsSkipInv
  <2>4. CASE FeederTick \/ UNCHANGED vars
    <3>1. ResultsInv'
      BY <2>1, <2>4, IdleKeepsResults
    <3>2. UNCHANGED <<msgQ, outbox, last_processed_height, chain_height, faults>>
      BY <2>4 DEF FeederTick, vars, procVars, envVars
    <3>3. cmdQ' = cmdQ \/ cmdQ' = Append(cmdQ, FetchHead)
      BY <2>4 DEF FeederTick, vars
    <3>4. FetchHead \in IoCommand /\ ~IsJob(FetchHead) /\ cmdQ \in Seq(IoCommand)
      BY <2>1, CommandTypes DEF IsJob, FetchHead, TypeOK
    <3>5. PaidFor(cmdQ, Skipped, faults)
            => PaidFor(Append(cmdQ, FetchHead), Skipped, faults)
      BY <3>4, PaidQueues
    <3>6. SkipInv'
      BY <3>2, <3>3, <3>5 DEF SkipInv, Skipped
    <3>7. QED
      BY <3>1, <3>6
  <2>5. QED
    BY <2>2, <2>3, <2>4 DEF Next
<1>3. QED
  BY <1>1, <1>2, InvariantHolds, PTL DEF Spec

----------------------------------------------------------------------------
(* Counting the requests.                                                  *)

HeightsIn(q) == {q[i].height : i \in ResultsJobsIn(q)}

(* A queue that asks once for each block has as many requests as blocks.   *)
LEMMA OneRequestPerBlock ==
  ASSUME NEW S, NEW q \in Seq(S), OneEach(q)
  PROVE  /\ IsFiniteSet(HeightsIn(q)) /\ Cardinality(HeightsIn(q)) \in Nat
         /\ Cardinality(ResultsJobsIn(q)) = Cardinality(HeightsIn(q))
<1> DEFINE R == ResultsJobsIn(q)
           H == HeightsIn(q)
           f == [i \in R |-> q[i].height]
<1>1. R \subseteq 1..Len(q) /\ Len(q) \in Nat
  BY DEF ResultsJobsIn
<1>2. IsFiniteSet(R)
  <2>1. IsFiniteSet(1..Len(q))
    BY <1>1, FS_Interval
  <2>2. QED
    BY <1>1, <2>1, FS_Subset
<1>3. \A h : h \in H <=> \E i \in R : h = q[i].height
  BY Zenon DEF HeightsIn
<1>4. \A i, j \in R : q[i].height = q[j].height => i = j
  BY DEF OneEach
<1> HIDE DEF R, H
<1>5. f \in [R -> H]
  BY <1>3
<1>6. f \in Surjection(R, H)
  BY <1>3, <1>5 DEF Surjection
<1>7. f \in Injection(R, H)
  <2>1. \A i \in R : f[i] = q[i].height
    OBVIOUS
  <2>2. QED
    BY <1>4, <1>5, <2>1 DEF Injection, IsInjective
<1> HIDE DEF f
<1>8. IsFiniteSet(H) /\ Cardinality(H) = Cardinality(R)
  BY <1>2, <1>6, <1>7, FS_Surjection
<1>9. Cardinality(H) \in Nat
  BY <1>8, FS_CardinalityType
<1>10. QED
  BY <1>8, <1>9 DEF R, H

(* Two disjoint sets have the sum of their sizes.                          *)
LEMMA DisjointSizes ==
  ASSUME NEW A, NEW B, IsFiniteSet(A), IsFiniteSet(B), A \cap B = {}
  PROVE  /\ IsFiniteSet(A \cup B)
         /\ Cardinality(A \cup B) = Cardinality(A) + Cardinality(B)
<1>1. Cardinality(A) \in Nat /\ Cardinality(B) \in Nat /\ Cardinality(A \cap B) = 0
  BY FS_CardinalityType, FS_EmptySet
<1>2. /\ IsFiniteSet(A \cup B)
      /\ Cardinality(A \cup B)
           = Cardinality(A) + Cardinality(B) - Cardinality(A \cap B)
  BY FS_Union, Zenon
<1>3. QED
  BY <1>1, <1>2

(* The pending requests are for different blocks, all of them within a few *)
(* blocks of the last one processed, and all but one of them late.         *)
LEMMA BacklogBounded ==
  ASSUME TypeOK, ResultsInv
  PROVE  ResultsBacklog
<1> DEFINE A == HeightsIn(cmdQ)
           B == HeightsIn(msgQ)
           C == HeightsIn(outbox)
           n == Cardinality(ResultsJobsIn(cmdQ)) + Cardinality(ResultsJobsIn(msgQ))
                  + Cardinality(ResultsJobsIn(outbox))
<1>1. /\ last_processed_height \in Nat /\ faults \in Nat /\ cmdQ \in Seq(IoCommand)
      /\ msgQ \in Seq(IoResult) /\ outbox \in Seq(IoCommand)
      /\ OneEach(msgQ) /\ OneEach(cmdQ) /\ OneEach(outbox)
  BY DEF TypeOK, ResultsInv, DistinctInv
<1>2. \A q, h : h \in HeightsIn(q) <=> \E x \in Requested(q) : h = x.height
  <2> TAKE q, h
  <2>1. h \in HeightsIn(q) <=> \E i \in ResultsJobsIn(q) : h = q[i].height
    BY Zenon DEF HeightsIn
  <2>2. QED
    BY <2>1, RequestedMembers
<1>3. A \cap B = {} /\ A \cap C = {} /\ B \cap C = {}
  BY <1>2 DEF ResultsInv, DistinctInv, Apart
<1>4. /\ IsFiniteSet(A) /\ Cardinality(ResultsJobsIn(cmdQ)) = Cardinality(A)
      /\ IsFiniteSet(B) /\ Cardinality(ResultsJobsIn(msgQ)) = Cardinality(B)
      /\ IsFiniteSet(C) /\ Cardinality(ResultsJobsIn(outbox)) = Cardinality(C)
  BY <1>1, OneRequestPerBlock
<1>5. \A h \in A \cup B \cup C : \E x \in Pending : h = x.height
  BY <1>2 DEF Pending
<1> HIDE DEF A, B, C
<1>6. IsFiniteSet(A \cup B) /\ Cardinality(A \cup B) = Cardinality(A) + Cardinality(B)
  BY <1>3, <1>4, DisjointSizes
<1>7. /\ IsFiniteSet(A \cup B \cup C)
      /\ Cardinality(A \cup B \cup C) = Cardinality(A \cup B) + Cardinality(C)
  <2>1. (A \cup B) \cap C = {}
    BY <1>3
  <2>2. QED
    BY <1>4, <1>6, <2>1, DisjointSizes
<1>8. n = Cardinality(A \cup B \cup C) /\ n \in Nat
  BY <1>4, <1>6, <1>7, FS_CardinalityType
<1> HIDE DEF n
<1>9. n <= 1 + MAX_FETCH_RETRIES
  <2> DEFINE lo == last_processed_height - MAX_FETCH_RETRIES
  <2>1. ASSUME NEW h \in A \cup B \cup C
        PROVE  h \in lo..last_processed_height
    <3>1. PICK x \in Pending : h = x.height
      BY <1>5
    <3>2. /\ x.height \in Nat /\ Tries(x) \in Nat /\ Tries(x) <= MAX_FETCH_RETRIES
          /\ x.height <= last_processed_height
          /\ last_processed_height <= x.height + Tries(x)
      BY PendingTypes DEF ResultsInv, LagInv
    <3>3. QED
      BY <1>1, <3>1, <3>2
  <2>2. lo \in Int /\ last_processed_height \in Int /\ ~(lo > last_processed_height)
        /\ last_processed_height - lo + 1 = 1 + MAX_FETCH_RETRIES
    BY <1>1
  <2> HIDE DEF lo
  <2>3. /\ IsFiniteSet(lo..last_processed_height)
        /\ Cardinality(lo..last_processed_height) = 1 + MAX_FETCH_RETRIES
    BY <2>2, FS_Interval
  <2>4. Cardinality(A \cup B \cup C) <= Cardinality(lo..last_processed_height)
    BY <2>1, <2>3, FS_Subset
  <2>5. QED
    BY <1>8, <2>3, <2>4
<1>10. n <= 1 + faults
  <2> DEFINE K == LateHeights \cup {last_processed_height}
  <2>1. ASSUME NEW h \in A \cup B \cup C
        PROVE  h \in K
    <3>1. PICK x \in Pending : h = x.height
      BY <1>5
    <3>2. CASE x \in Late
      BY <3>1, <3>2, LateMembers
    <3>3. CASE x \notin Late
      <4>1. ~(x.height < last_processed_height)
        BY <3>3, LateMembers
      <4>2. x.height \in Nat /\ x.height <= last_processed_height
        BY PendingTypes DEF ResultsInv, LagInv
      <4>3. QED
        BY <1>1, <3>1, <4>1, <4>2
    <3>4. QED
      BY <3>2, <3>3
  <2>2. IsFiniteSet(LateHeights) /\ Cardinality(LateHeights) \in Nat
    BY LateFinite DEF ResultsInv
  <2>3. /\ IsFiniteSet(K)
        /\ \/ Cardinality(K) = Cardinality(LateHeights)
           \/ Cardinality(K) = Cardinality(LateHeights) + 1
    BY <2>2, FS_AddElement, Zenon
  <2> HIDE DEF K
  <2>4. Cardinality(A \cup B \cup C) <= Cardinality(K)
    BY <2>1, <2>3, FS_Subset
  <2>5. Cardinality(LateHeights) <= faults
    BY DEF ResultsInv, LateInv
  <2>6. QED
    BY <1>1, <1>8, <2>2, <2>3, <2>4, <2>5
<1>11. QED
  BY <1>9, <1>10 DEF ResultsBacklog, n

----------------------------------------------------------------------------
(* The theorems.                                                           *)

(* Block results are handled at most MAX_FETCH_RETRIES blocks after their  *)
(* own block: while one is asked for again, only one block can pass.       *)
THEOREM ResultsHandledInTime ==
  ASSUME SteadyNode
  PROVE  Spec => []ResultsInTime
<1>1. PipelineInv /\ ResultsInv /\ SkipInv => ResultsInTime
  <2> SUFFICES ASSUME PipelineInv, ResultsInv, msgQ # <<>>,
                      Head(msgQ).kind = "BlockResults"
               PROVE  last_processed_height <= Head(msgQ).height + MAX_FETCH_RETRIES
    BY DEF ResultsInTime
  <2>1. IsResultsJob(Head(msgQ)) /\ Tries(Head(msgQ)) = MAX_FETCH_RETRIES
    BY DEF IsResultsJob, Tries
  <2>2. Head(msgQ) \in Requested(msgQ)
    BY <2>1, TailResults DEF PipelineInv, TypeOK
  <2>3. Head(msgQ) \in Pending
    BY <2>2 DEF Pending
  <2>4. QED
    BY <2>1, <2>3 DEF ResultsInv, LagInv
<1>2. QED
  BY <1>1, LagHolds, PTL

(* Every block that is skipped has failed its first attempt and all its    *)
(* retries.                                                                *)
THEOREM SkippedBlocksWereTried ==
  ASSUME SteadyNode
  PROVE  Spec => []SkipsExhaustRetries
<1>1. PipelineInv /\ ResultsInv /\ SkipInv => SkipsExhaustRetries
  BY DEF SkipInv, SkipsExhaustRetries, Skipped
<1>2. QED
  BY <1>1, LagHolds, PTL

(* Requests for block results stay few: one, and one more for each failure *)
(* but never more than a block can be retried over.                        *)
THEOREM ResultsDoNotPileUp ==
  ASSUME SteadyNode
  PROVE  Spec => []ResultsBacklog
<1>1. PipelineInv /\ ResultsInv /\ SkipInv => ResultsBacklog
  BY BacklogBounded DEF PipelineInv
<1>2. QED
  BY <1>1, LagHolds, PTL
=============================================================================
