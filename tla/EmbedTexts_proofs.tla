------------------------- MODULE EmbedTexts_proofs --------------------------
(***************************************************************************)
(* Proofs about EmbedTexts.tla, for any number of calls and processes, any *)
(* texts and any limits of a batch.                                        *)
(*                                                                         *)
(* Why a key is asked for once: the keys a call has promised and not yet   *)
(* released (Mine) are exactly those the map of its process holds for it.  *)
(* A call adds a key when the map has none, in the same synchronous        *)
(* stretch, and releases those of a batch only, which are no other than    *)
(* the ones it has taken: fresh names no key twice, because a text whose   *)
(* key is pending already joins that request.  None is left when the call  *)
(* ends, because the batches are a partition of fresh, and that is a       *)
(* property of the loop of SplitEmbeddingBatches.                          *)
(***************************************************************************)
EXTENDS EmbedTexts, Lists_proofs

-----------------------------------------------------------------------------
(* The inductive invariant *)

Looking == {"new", "lookup", "read", "decide"}
Holding == {"provider", "settle"} \cup Writing
Stages  == Looking \cup Holding \cup {"batch", "await"} \cup Ended
Pending == [key : Keys, indices : SUBSET Nat, owner : Calls]

\* The state has its type.
ControlType == stage \in [Calls -> Stages] /\ turn \in [Procs -> Calls \cup {None}]
LookupType ==
    /\ at \in [Calls -> Nat \ {0}]
    /\ pending \in [Calls -> Seq(Pending)] /\ fresh \in [Calls -> Seq(Keys)]
ResultType ==
    /\ DOMAIN results = Calls
    /\ \A c \in Calls : results[c] \in [DOMAIN Texts(c) -> Keys \cup {None}]
SharedType ==
    /\ inflight \in [Procs -> [Keys -> Calls \cup {None}]]
    /\ promise \in [Calls -> [Keys -> Keys \cup {None, "pending", "error"}]]
BatchType ==
    /\ batch \in [Calls -> Nat] /\ offset \in [Calls -> Nat]
    /\ current \in [Calls -> Seq(Keys)] /\ vectors \in [Calls -> Seq(Keys)]
    /\ item \in [Calls -> Nat \ {0}]
TypeOK ==
    /\ request \in [Calls -> Request]
    /\ ControlType /\ LookupType /\ ResultType /\ SharedType /\ BatchType

\* The text that is looked up, and the request that is written.
AtText(c) == stage[c] \in {"read", "decide"} => at[c] \in DOMAIN Texts(c) /\ Repeats(c) = {}
AtItem(c) == stage[c] \in Writing => item[c] \in DOMAIN current[c]

\* A call that may not reach the provider asks for nothing.
Denies(c) ==
    /\ request[c].deny => pending[c] = <<>> /\ fresh[c] = <<>>
    /\ c \in denied => request[c].deny
    /\ stage[c] = "done" => \A i \in DOMAIN Texts(c) : results[c][i] # None

\* Whatever stands for a text is the vector of that text.
Found(c) == \A i \in DOMAIN Texts(c) : results[c][i] \in {None, Texts(c)[i]}
Asked(c) == \A j \in DOMAIN pending[c] : \A i \in pending[c][j].indices :
    i \in DOMAIN Texts(c) => pending[c][j].key = Texts(c)[i]
Resolved(c) == \A k \in Keys : promise[c][k] \in {None, "pending", "error", k}
Answered(c) == stage[c] \in {"settle"} \cup Writing => vectors[c] = current[c]

\* The ends of the batches are the offsets the loop of embedTexts gets to.
Ends(end, batches, total) ==
    /\ end[0] = 0 /\ end[Len(batches)] = total
    /\ \A n \in 1..Len(batches) : end[n] = end[n - 1] + Len(batches[n])
Batched(c) ==
    \E end \in [0..Len(Batches(c)) -> 0..Len(fresh[c])] :
        Ends(end, Batches(c), Len(fresh[c])) /\ offset[c] = end[batch[c]]
Progress(c) ==
    /\ batch[c] <= Len(Batches(c)) /\ Batched(c)
    /\ stage[c] \in Looking => batch[c] = 0
    /\ stage[c] = "await" => offset[c] = Len(fresh[c])

\* No key is fresh twice; the batch being worked on has been taken from fresh.
EachOnce(c) ==
    /\ \A i, j \in DOMAIN fresh[c] : fresh[c][i] = fresh[c][j] => i = j
    /\ \A i \in DOMAIN fresh[c] : \E j \in DOMAIN pending[c] : pending[c][j].key = fresh[c][i]
Taken(c) == stage[c] \in Holding =>
    \A i \in DOMAIN current[c] : \E j \in DOMAIN fresh[c] :
        j <= offset[c] /\ current[c][i] = fresh[c][j]

Local(c) == AtText(c) /\ AtItem(c) /\ Denies(c) /\ Found(c) /\ Asked(c) /\ Resolved(c)
            /\ Answered(c) /\ Progress(c) /\ EachOnce(c) /\ Taken(c)

\* What a call has promised and not released, and the map.
Left(c) == {fresh[c][j] : j \in {j \in DOMAIN fresh[c] : j > offset[c]}}
Mine(c) == Left(c) \cup (IF stage[c] \in Holding THEN ToSet(current[c]) ELSE {})
Claimed(c) == stage[c] \notin Ended => \A k \in Mine(c) :
    inflight[Process(c)][k] = c /\ promise[c][k] \in {"pending", k}
Owned(p) == \A k \in Keys : \A c \in Calls :
    inflight[p][k] = c => Alive(c) /\ Process(c) = p /\ k \in Mine(c)

MapInv ==
    /\ TypeOK
    /\ \A c \in Calls : Local(c) /\ Claimed(c)
    /\ \A p \in Procs : Owned(p)

\* The cache: what a writer has read of the count leaves room for its entry.
Room(c) ==
    /\ stage[c] \in Writing \ {"ensure", "count"} => counted[c] <= Cardinality(Present)
    /\ stage[c] = "open" /\ ~ existed[c] => counted[c] <= Cardinality(Present \ {Item(c)})
    /\ stage[c] \in {"write", "recreate", "refill"} => entry[Item(c)] # "missing"
    /\ stage[c] \in {"write", "recreate", "refill"} /\ ~ existed[c] =>
          counted[c] + 1 <= Cardinality(Present)
    /\ stage[c] \in {"recreate", "refill"} => ~ existed[c]
Paid(c, k) ==
    faults = 0 /\ request[c].mode = "readwrite" /\ promise[c][k] \in Keys =>
        \/ entry[k] # "missing"
        \/ stage[c] \in {"ensure", "count", "create", "fill", "check", "open"} /\ k = Item(c)
EntryType ==
    /\ entry \in [Keys -> {"missing", "torn", "whole"}] /\ IsFiniteSet(Present)
    /\ counted \in [Calls -> Nat] /\ DOMAIN existed = Calls
CacheInv ==
    /\ EntryType /\ faults \in Nat
    /\ manifest \in Nat \cup {None} /\ CountIsLowerBound
    /\ \A c \in Calls : Room(c) /\ \A k \in Keys : Paid(c, k)

-----------------------------------------------------------------------------
(* The batches: a partition of the requests *)

Batch == {keys \in Seq(Keys) : Len(keys) \in 1..MaxItems}
Split == [closed : Seq(Batch), open : {<<>>} \cup Batch, bytes : Nat]

\* What is in it is keys.
LEMMA SplitType ==
  ASSUME NEW split \in Split
  PROVE  split.closed \in Seq(Seq(Keys)) /\ split.open \in Seq(Keys)
<1>1. Batch \subseteq Seq(Keys)
  BY DEF Batch
<1>2. split.closed \in Seq(Batch) /\ split.open \in {<<>>} \cup Batch
  BY DEF Split
<1>3. split.closed \in Seq(Seq(Keys))
  BY <1>1, <1>2, SeqMonotonic
<1>4. QED
  BY <1>1, <1>2, <1>3, EmptySeq

\* The batches of split, with the open one, are the first n texts.
Covers(split, n) ==
    \E end \in [0..Len(split.closed) -> 0..n] :
        Ends(end, split.closed, n - Len(split.open)) /\ Len(split.open) <= n

\* Closing an open batch gives a state of the split.
LEMMA CloseType == \A split \in Split : split.open # <<>> => Close(split) \in Split
<1> SUFFICES ASSUME NEW split \in Split, split.open # <<>> PROVE Close(split) \in Split
  OBVIOUS
<1>1. Append(split.closed, split.open) \in Seq(Batch)
  BY AppendProperties DEF Split
<1>2. QED
  BY <1>1 DEF Close, Split

\* It moves the keys of the open batch and loses none.
LEMMA CloseCovers ==
  ASSUME NEW split, split.closed \in Seq(Seq(Keys)), split.open \in Seq(Keys),
         NEW n \in Nat, Covers(split, n)
  PROVE  Covers(Close(split), n)
<1> DEFINE closed == split.closed
           open == split.open
           batches == Append(closed, open)
<1>1. closed \in Seq(Seq(Keys)) /\ open \in Seq(Keys) /\ Len(closed) \in Nat /\ Len(open) \in Nat
  BY LenProperties
<1>2. /\ batches \in Seq(Seq(Keys)) /\ Len(batches) = Len(closed) + 1
      /\ batches[Len(closed) + 1] = open
      /\ \A i \in 1..Len(closed) : batches[i] = closed[i]
  BY <1>1, AppendProperties
<1>3. PICK end \in [0..Len(closed) -> 0..n] :
        Ends(end, closed, n - Len(open)) /\ Len(open) <= n
  BY DEF Covers
<1> DEFINE ends == [i \in 0..Len(batches) |-> IF i = Len(batches) THEN n ELSE end[i]]
<1>4. ends \in [0..Len(batches) -> 0..n]
  BY <1>1, <1>2, <1>3
<1>5. Ends(ends, batches, n)
  <2>1. ends[0] = 0 /\ ends[Len(batches)] = n
    BY <1>1, <1>2, <1>3 DEF Ends
  <2>2. ASSUME NEW i \in 1..Len(batches) PROVE ends[i] = ends[i - 1] + Len(batches[i])
    <3>1. CASE i = Len(closed) + 1
      <4>1. ends[i] = n /\ ends[i - 1] = end[Len(closed)] /\ end[Len(closed)] = n - Len(open)
        BY <1>1, <1>2, <1>3, <3>1 DEF Ends
      <4>2. QED
        BY <1>1, <1>2, <3>1, <4>1
    <3>2. CASE i \in 1..Len(closed)
      <4>1. ends[i] = end[i] /\ ends[i - 1] = end[i - 1] /\ batches[i] = closed[i]
        BY <1>1, <1>2, <3>2
      <4>2. QED
        BY <1>3, <3>2, <4>1 DEF Ends
    <3>3. QED
      BY <1>1, <1>2, <3>1, <3>2
  <2>3. QED
    BY <2>1, <2>2 DEF Ends
<1>6. /\ Close(split).closed = batches /\ Close(split).open = <<>> /\ Close(split).bytes = 0
  BY DEF Close
<1>7. Len(<<>>) = 0 /\ n - 0 = n /\ 0 <= n
  BY EmptySeq
<1> HIDE DEF ends, batches
<1>9. QED
  BY <1>4, <1>5, <1>6, <1>7 DEF Covers

\* So does a text more.
LEMMA AddType == \A split \in Split, k \in Keys : AddToBatch(split, k) \in Split
<1> SUFFICES ASSUME NEW split \in Split, NEW k \in Keys PROVE AddToBatch(split, k) \in Split
  OBVIOUS
<1> DEFINE full == \/ Len(split.open) >= MaxItems
                   \/ split.bytes + Size[k] > MaxBytes
           before == IF split.open # <<>> /\ full THEN Close(split) ELSE split
           after == [closed |-> before.closed, open |-> Append(before.open, k),
                     bytes |-> before.bytes + Size[k]]
<1>1. before \in Split /\ Len(before.open) < MaxItems
  <2>1. split.open \in Seq(Keys) /\ Len(split.open) \in Nat /\ Len(<<>>) = 0 /\ MaxItems \in Nat \ {0}
    BY SplitType, LenProperties, EmptySeq, EmbedAssumption
  <2>2. CASE split.open # <<>> /\ full
    <3>1. before = Close(split) /\ before.open = <<>>
      BY <2>2 DEF Close
    <3>2. QED
      BY <2>1, <2>2, <3>1, CloseType
  <2>3. CASE ~ (split.open # <<>> /\ full)
    BY <2>1, <2>3
  <2>4. QED
    BY <2>2, <2>3
<1> HIDE DEF before
<1>2. before.closed \in Seq(Batch) /\ before.open \in Seq(Keys) /\ before.bytes + Size[k] \in Nat
  BY <1>1, SplitType, EmbedAssumption DEF Split
<1>3. after \in Split /\ after.open # <<>>
  <2>1. /\ Append(before.open, k) \in Seq(Keys) /\ Append(before.open, k) # <<>>
        /\ Len(Append(before.open, k)) = Len(before.open) + 1 /\ Len(before.open) \in Nat
    BY <1>2, AppendProperties, LenProperties
  <2>2. Append(before.open, k) \in Batch
    BY <1>1, <2>1, EmbedAssumption DEF Batch
  <2>3. QED
    BY <1>2, <2>1, <2>2 DEF Split
<1> HIDE DEF after
<1>4. AddToBatch(split, k) = IF Size[k] > MaxBytes THEN Close(after) ELSE after
  BY DEF AddToBatch, before, after
<1>5. QED
  BY <1>3, <1>4, CloseType

\* A text more is covered by the batches, which keep their order.
LEMMA AddCovers ==
  ASSUME NEW split \in Split, NEW n \in Nat, Covers(split, n), NEW k \in Keys
  PROVE  Covers(AddToBatch(split, k), n + 1)
<1> DEFINE full == \/ Len(split.open) >= MaxItems
                   \/ split.bytes + Size[k] > MaxBytes
           before == IF split.open # <<>> /\ full THEN Close(split) ELSE split
           after == [closed |-> before.closed, open |-> Append(before.open, k),
                     bytes |-> before.bytes + Size[k]]
<1>1. before \in Split /\ Covers(before, n)
  BY SplitType, CloseType, CloseCovers
<1>2. before.closed \in Seq(Seq(Keys)) /\ before.open \in Seq(Keys) /\ Len(before.open) \in Nat
  BY <1>1, SplitType, LenProperties
<1>3. Append(before.open, k) \in Seq(Keys) /\ Len(Append(before.open, k)) = Len(before.open) + 1
      /\ Len(before.open) \in Nat
  BY <1>2, AppendProperties, LenProperties
<1>4. PICK end \in [0..Len(before.closed) -> 0..n] :
        Ends(end, before.closed, n - Len(before.open)) /\ Len(before.open) <= n
  BY <1>1 DEF Covers
<1> HIDE DEF before
<1>5. after.open \in Seq(Keys) /\ after.closed \in Seq(Seq(Keys))
  BY <1>2, <1>3
<1>6. /\ end \in [0..Len(before.closed) -> 0..(n + 1)]
      /\ (n + 1) - (Len(before.open) + 1) = n - Len(before.open)
      /\ Len(before.open) + 1 <= n + 1
  BY <1>3, <1>4
<1>7. after.closed = before.closed /\ Len(after.open) = Len(before.open) + 1
  BY <1>3
<1> HIDE DEF after
<1>8. Covers(after, n + 1)
  BY <1>4, <1>6, <1>7 DEF Covers
<1>9. AddToBatch(split, k) = IF Size[k] > MaxBytes THEN Close(after) ELSE after
  BY DEF AddToBatch, before, after
<1>10. QED
  BY <1>5, <1>8, <1>9, CloseCovers

\* The batches are a partition of the texts, in their order: the slices that
\* embedTexts takes by their lengths are all of freshRequests.  None is empty or
\* has more texts than policy.batch.maxItems.
THEOREM BatchesPartition ==
  ASSUME NEW keys \in Seq(Keys)
  PROVE  LET batches == SplitEmbeddingBatches(keys)
         IN  /\ batches \in Seq(Seq(Keys))
             /\ \A n \in 1..Len(batches) : Len(batches[n]) \in 1..MaxItems
             /\ \E end \in [0..Len(batches) -> 0..Len(keys)] : Ends(end, batches, Len(keys))
<1> DEFINE N == Len(keys)
           split[n \in 0..Len(keys)] ==
             IF n = 0 THEN NoBatch ELSE AddToBatch(split[n - 1], keys[n])
<1>1. N \in Nat /\ \A n \in 1..N : keys[n] \in Keys
  BY LenProperties, ElementOfSeq
<1>2. NoBatch \in Split /\ Covers(NoBatch, 0)
  <2>1. <<>> \in Seq(Seq(Keys)) /\ <<>> \in Seq(Keys) /\ Len(<<>>) = 0
    BY EmptySeq
  <2>2. NoBatch \in Split /\ NoBatch.closed = <<>> /\ NoBatch.open = <<>>
    BY <2>1 DEF NoBatch, Split
  <2>3. [i \in 0..0 |-> 0] \in [0..0 -> 0..0] /\ Ends([i \in 0..0 |-> 0], <<>>, 0)
    BY <2>1 DEF Ends
  <2>4. QED
    BY <2>1, <2>2, <2>3 DEF Covers
<1> DEFINE Loop(f) == f = [n \in 0..Len(keys) |->
                            IF n = 0 THEN NoBatch ELSE AddToBatch(f[n - 1], keys[n])]
           step == [n \in 1..N |-> [s \in Split |-> AddToBatch(s, keys[n])]]
<1>3. step \in [1..N -> [Split -> Split]]
  BY <1>1, AddType
<1>4. PICK f \in [0..N -> Split] : Computes(f, N, NoBatch, step)
  <2> HIDE DEF N, step
  <2>1. N \in Nat /\ NoBatch \in Split
    BY <1>1, <1>2
  <2>2. QED
    BY <1>3, <2>1, Iteration, Zenon
<1>5. Loop(f)
  <2>1. ASSUME NEW n \in 1..N PROVE f[n] = AddToBatch(f[n - 1], keys[n])
    BY <1>1, <1>4 DEF Computes
  <2>2. QED
    BY <1>1, <1>4, <2>1 DEF Computes
<1>6. split = CHOOSE g : Loop(g)
  OBVIOUS
<1> HIDE DEF split, step
<1>7. Loop(split)
  <2> HIDE DEF Loop
  <2>1. QED
    BY <1>5, <1>6, Zenon
<1> DEFINE Right(n) == split[n] \in Split /\ Covers(split[n], n)
           Wrong == {n \in Nat : n <= N /\ ~ Right(n)}
<1>8. ASSUME Wrong # {} PROVE FALSE
  <2>1. PICK m \in Wrong : \A l \in Wrong : m <= l
    BY <1>8, Least
  <2>2. m # 0
    <3>1. split[0] = NoBatch
      BY <1>1, <1>7
    <3>2. QED
      BY <1>2, <2>1, <3>1
  <2>3. m \in 1..N /\ m - 1 \in Nat /\ (m - 1) + 1 = m
    BY <1>1, <2>1, <2>2
  <2>4. Right(m - 1)
    <3> HIDE DEF Right, N
    <3>1. QED
      BY <1>1, <2>1, <2>3
  <2>5. split[m] = AddToBatch(split[m - 1], keys[m])
    BY <1>7, <2>3
  <2>6. Right(m)
    BY <1>1, <2>3, <2>4, <2>5, AddType, AddCovers
  <2>7. QED
    BY <2>1, <2>6
<1> DEFINE last == split[N]
           whole == IF last.open = <<>> THEN last ELSE Close(last)
<1>9. last \in Split /\ Covers(last, N)
  <2>1. Right(N)
    <3> HIDE DEF Right, N
    <3>1. QED
      BY <1>1, <1>8
  <2>2. QED
    BY <2>1
<1>10. SplitEmbeddingBatches(keys) = whole.closed
  BY DEF SplitEmbeddingBatches, split
<1> HIDE DEF last
<1>11. whole \in Split /\ Covers(whole, N) /\ Len(whole.open) = 0
  BY <1>1, <1>9, SplitType, CloseType, CloseCovers, EmptySeq DEF Close
<1> HIDE DEF whole, N
<1>12. PICK end \in [0..Len(whole.closed) -> 0..N] : Ends(end, whole.closed, N - 0)
  BY <1>11 DEF Covers
<1>13. N - 0 = N /\ whole.closed \in Seq(Seq(Keys))
  BY <1>1, <1>11, SplitType
<1>14. \A n \in 1..Len(whole.closed) : Len(whole.closed[n]) \in 1..MaxItems
  <2>1. whole.closed \in Seq(Batch)
    BY <1>11 DEF Split
  <2>2. \A n \in 1..Len(whole.closed) : whole.closed[n] \in Batch
    BY <2>1, ElementOfSeq
  <2>3. QED
    BY <2>2 DEF Batch
<1>15. QED
  BY <1>10, <1>12, <1>13, <1>14 DEF N

-----------------------------------------------------------------------------
(* What the operations compute *)

\* A stretch of a sequence.
LEMMA Slice ==
  ASSUME NEW S, NEW s \in Seq(S), NEW m \in Nat, NEW n \in Nat, m + n <= Len(s)
  PROVE  /\ SubSeq(s, m + 1, m + n) \in Seq(S) /\ DOMAIN SubSeq(s, m + 1, m + n) = 1..n
         /\ \A i \in 1..n : SubSeq(s, m + 1, m + n)[i] = s[m + i]
<1>1. \A i \in m + 1..m + n : s[i] \in S
  BY ElementOfSeq, LenProperties
<1>2. SubSeq(s, m + 1, m + n) \in Seq(S)
  BY <1>1, SubSeqProperties
<1>3. SubSeq(s, m + 1, m + n) = [i \in 1..(m + n) - (m + 1) + 1 |-> s[(m + 1) + i - 1]]
  OBVIOUS
<1>4. (m + n) - (m + 1) + 1 = n /\ \A i \in 1..n : (m + 1) + i - 1 = m + i
  OBVIOUS
<1>5. QED
  BY <1>2, <1>3, <1>4

\* The next batch lies within the requests, behind those taken before.
LEMMA NextBatch ==
  ASSUME TypeOK, NEW c \in Calls, Batched(c), batch[c] < Len(Batches(c))
  PROVE  LET n == Len(Batches(c)[batch[c] + 1])
             keys == SubSeq(fresh[c], offset[c] + 1, offset[c] + n)
         IN  /\ n \in Nat /\ offset[c] + n <= Len(fresh[c])
             /\ keys \in Seq(Keys) /\ DOMAIN keys = 1..n
             /\ \A i \in 1..n : keys[i] = fresh[c][offset[c] + i]
             /\ \E end \in [0..Len(Batches(c)) -> 0..Len(fresh[c])] :
                   Ends(end, Batches(c), Len(fresh[c])) /\ offset[c] + n = end[batch[c] + 1]
<1> DEFINE n == Len(Batches(c)[batch[c] + 1])
           keys == SubSeq(fresh[c], offset[c] + 1, offset[c] + n)
<1>1. fresh[c] \in Seq(Keys) /\ batch[c] \in Nat /\ offset[c] \in Nat /\ Len(fresh[c]) \in Nat
  BY DEF TypeOK, LookupType, BatchType
<1>2. Batches(c) \in Seq(Seq(Keys)) /\ Len(Batches(c)) \in Nat
  BY <1>1, BatchesPartition DEF Batches
<1>3. batch[c] + 1 \in 1..Len(Batches(c)) /\ batch[c] + 1 \in 0..Len(Batches(c))
  BY <1>1, <1>2
<1>4. Batches(c)[batch[c] + 1] \in Seq(Keys)
  BY <1>2, <1>3, ElementOfSeq
<1>5. n \in Nat
  BY <1>4, LenProperties
<1>6. PICK end \in [0..Len(Batches(c)) -> 0..Len(fresh[c])] :
        Ends(end, Batches(c), Len(fresh[c])) /\ offset[c] = end[batch[c]]
  BY DEF Batched
<1>7. end[batch[c] + 1] = offset[c] + n /\ end[batch[c] + 1] \in 0..Len(fresh[c])
  <2>1. end[batch[c] + 1] = end[(batch[c] + 1) - 1] + n
    BY <1>3, <1>6 DEF Ends
  <2>2. (batch[c] + 1) - 1 = batch[c]
    BY <1>1
  <2>3. QED
    BY <1>3, <1>6, <2>1, <2>2
<1> HIDE DEF n
<1>8. offset[c] + n <= Len(fresh[c])
  BY <1>1, <1>5, <1>7
<1>9. /\ keys \in Seq(Keys) /\ DOMAIN keys = 1..n
      /\ \A i \in 1..n : keys[i] = fresh[c][offset[c] + i]
  <2> DEFINE s == fresh[c]
             m == offset[c]
  <2>1. s \in Seq(Keys) /\ m \in Nat /\ m + n <= Len(s)
    BY <1>1, <1>8
  <2> HIDE DEF s, m
  <2>2. /\ SubSeq(s, m + 1, m + n) \in Seq(Keys) /\ DOMAIN SubSeq(s, m + 1, m + n) = 1..n
        /\ \A i \in 1..n : SubSeq(s, m + 1, m + n)[i] = s[m + i]
    BY <1>5, <2>1, Slice
  <2>3. QED
    BY <2>2 DEF s, m
<1> HIDE DEF keys
<1>10. \E e \in [0..Len(Batches(c)) -> 0..Len(fresh[c])] :
          Ends(e, Batches(c), Len(fresh[c])) /\ offset[c] + n = e[batch[c] + 1]
  BY <1>6, <1>7
<1>11. QED
  BY <1>5, <1>8, <1>9, <1>10 DEF n, keys

\* An answer that has an entry for each input puts the vectors in their order.
LEMMA AnswerInOrder ==
  ASSUME TypeOK, NEW c \in Calls, NEW answer \in [DOMAIN current[c] -> DOMAIN current[c]],
         Complete(answer)
  PROVE  ByIndex(c, answer) = current[c]
<1> DEFINE S == DOMAIN current[c]
<1>0. current[c] \in Seq(Keys)
  BY DEF TypeOK, LookupType, BatchType
<1>1. S = 1..Len(current[c]) /\ Len(current[c]) \in Nat /\ current[c] \in [S -> Keys]
  BY <1>0, LenProperties
<1>2. IsFiniteSet(S)
  BY <1>1, FS_Interval
<1>3. answer \in Injection(S, S)
  BY DEF Complete, Injection, IsInjective
<1>4. answer \in Surjection(S, S)
  BY <1>2, <1>3, FS_Injection
<1>5. \A i \in S : \E j \in S : answer[j] = i
  BY <1>4 DEF Surjection
<1>6. DOMAIN answer = S
  OBVIOUS
<1>7. ASSUME NEW i \in S PROVE answer[CHOOSE j \in DOMAIN answer : answer[j] = i] = i
  BY <1>5, <1>6
<1>8. QED
  BY <1>1, <1>6, <1>7 DEF ByIndex

\* The steps of a call, and a failed write of its own.
Acts(c) == Step(c) \/ Start(c) \/ CacheWriteFails(c)

\* A step of one call leaves what is the other calls' own alone.
Same(d) ==
    /\ request' = request
    /\ stage'[d] = stage[d] /\ at'[d] = at[d]
    /\ (d \in denied') = (d \in denied)
    /\ pending'[d] = pending[d] /\ fresh'[d] = fresh[d] /\ results'[d] = results[d]
    /\ batch'[d] = batch[d] /\ offset'[d] = offset[d] /\ current'[d] = current[d]
    /\ vectors'[d] = vectors[d] /\ item'[d] = item[d] /\ promise'[d] = promise[d]

\* It does: what another call has looked up, taken and promised is as before.
LEMMA OthersSame ==
  ASSUME TypeOK, NEW c \in Calls, NEW d \in Calls, d # c, Acts(c)
  PROVE  Same(d)
<1> USE DEF Same, TypeOK, ControlType, LookupType, ResultType, SharedType, BatchType
<1> USE DEF Set, On, Continue, Await, Io, NextItem, NextText, Push, lookup, batching, shared
<1>1. CASE Start(c)
  BY <1>1 DEF Start
<1>2. CASE CacheWriteFails(c)
  BY <1>2 DEF CacheWriteFails
<1>3. CASE Find(c)
  <2>1. CASE JoinOwnRequest(c)
    BY <2>1 DEF JoinOwnRequest
  <2>2. CASE LookUp(c) \/ LoadCacheEntry(c)
    BY <2>2 DEF LookUp, LoadCacheEntry
  <2>3. CASE TakeHit(c) \/ Deny(c)
    BY <2>3, SMTT(30) DEF TakeHit, Deny
  <2>4. CASE JoinInflight(c)
    BY <2>4 DEF JoinInflight
  <2>5. CASE Promise(c)
    BY <2>5 DEF Promise
  <2>6. CASE EndLookup(c)
    BY <2>6 DEF EndLookup
  <2>7. QED
    BY <1>3, <2>1, <2>2, <2>3, <2>4, <2>5, <2>6 DEF Find
<1>4. CASE TakeBatch(c) \/ Answer(c) \/ Refuse(c) \/ Unreachable(c)
  BY <1>4 DEF TakeBatch, Answer, Refuse, Unreachable, RejectBatch
<1>5. CASE Settle(c) \/ ReleaseBatch(c) \/ EndBatches(c)
  BY <1>5, SMTT(30) DEF Settle, ReleaseBatch, EndBatches
<1>6. CASE LoadNamespaceManifest(c) \/ CountExistingEntries(c) \/ TruncateManifest(c) \/ WriteNewManifest(c)
  BY <1>6 DEF LoadNamespaceManifest, CountExistingEntries, TruncateManifest, WriteNewManifest
<1>7. CASE CheckEntry(c) \/ TruncateEntry(c) \/ WriteEntry(c) \/ BumpManifest(c)
  BY <1>7 DEF CheckEntry, TruncateEntry, WriteEntry, BumpManifest
<1>8. CASE AwaitRequest(c) \/ Return(c)
  BY <1>8 DEF AwaitRequest, Return
<1>9. QED
  BY <1>1, <1>2, <1>3, <1>4, <1>5, <1>6, <1>7, <1>8 DEF Acts, Step, Embed, Write

\* A call whose own state is as before keeps what is said of it.
LEMMA SameLocal ==
  ASSUME NEW d \in Calls, Same(d), Local(d)
  PROVE  Local(d)'
BY DEF Same, Local, AtText, AtItem, Denies, Found, Asked, Resolved, Answered, Progress, Batched,
       Batches, EachOnce, Taken, Texts, Repeats, Here, Process

-----------------------------------------------------------------------------
(* The types *)

\* A text is one of the keys, and the value of a promise too.
LEMMA Typing ==
  ASSUME TypeOK, NEW c \in Calls, Local(c)
  PROVE  /\ Process(c) \in Procs /\ Texts(c) \in Seq(Keys)
         /\ stage[c] = "decide" => at[c] \in DOMAIN Texts(c) /\ Here(c) \in Keys
         /\ stage[c] = "settle" /\ item[c] \in DOMAIN current[c] =>
              current[c][item[c]] \in Keys /\ vectors[c][item[c]] = current[c][item[c]]
         /\ item[c] \in DOMAIN pending[c] =>
              /\ Awaited(c) \in Pending
              /\ Outcome(c) \in {None, "pending", "error"} \cup Keys
<1>1. Process(c) \in Procs /\ Texts(c) \in Seq(Keys)
  BY DEF TypeOK, Process, Texts, Request
<1>2. stage[c] = "decide" => at[c] \in DOMAIN Texts(c) /\ Here(c) \in Keys
  BY <1>1, ElementOfSeq, LenProperties DEF Local, AtText, Here
<1>3. current[c] \in Seq(Keys) /\ pending[c] \in Seq(Pending)
  BY DEF TypeOK, LookupType, BatchType
<1>4. stage[c] = "settle" /\ item[c] \in DOMAIN current[c] =>
        current[c][item[c]] \in Keys /\ vectors[c][item[c]] = current[c][item[c]]
  BY <1>3, ElementOfSeq, LenProperties DEF Local, Answered
<1>5. item[c] \in DOMAIN pending[c] => Awaited(c) \in Pending
  BY <1>3, ElementOfSeq, LenProperties DEF Awaited
<1>6. item[c] \in DOMAIN pending[c] => Outcome(c) \in {None, "pending", "error"} \cup Keys
  BY <1>5 DEF Outcome, Pending, TypeOK, SharedType
<1>7. QED
  BY <1>1, <1>2, <1>4, <1>5, <1>6

\* The initial state has its type.
LEMMA TypeInit == Init => TypeOK
<1> SUFFICES ASSUME Init PROVE TypeOK
  OBVIOUS
<1>1. request \in [Calls -> Request]
  BY EmbedAssumption DEF Init
<1>2. <<>> \in Seq(Keys) /\ <<>> \in Seq(Pending)
  BY EmptySeq
<1>3. ControlType /\ LookupType /\ SharedType /\ BatchType
  BY <1>2 DEF Init, ControlType, LookupType, SharedType, BatchType, Stages, Looking
<1>4. ResultType
  BY DEF Init, ResultType
<1>5. QED
  BY <1>1, <1>3, <1>4 DEF TypeOK

\* Every step of a call leads it to a stage, and the turn to it or to none.
Moves(c) ==
    /\ request' = request
    /\ \E to \in Stages : stage' = [stage EXCEPT ![c] = to]
    /\ \E next \in {c, None} : turn' \in {turn, [turn EXCEPT ![Process(c)] = next]}

\* It does, whatever the operation.
LEMMA StepMoves ==
  ASSUME TypeOK, NEW c \in Calls, Acts(c)
  PROVE  Moves(c)
<1> USE DEF Moves, Set, On, Continue, Await, Io, NextItem, NextText, Stages, Looking, Holding, Writing, Ended
<1>1. CASE Start(c)
  BY <1>1 DEF Start
<1>2. CASE CacheWriteFails(c)
  BY <1>2 DEF CacheWriteFails
<1>3. CASE JoinOwnRequest(c) \/ LookUp(c) \/ LoadCacheEntry(c) \/ TakeHit(c)
  BY <1>3 DEF JoinOwnRequest, LookUp, LoadCacheEntry, TakeHit
<1>4. CASE Deny(c) \/ JoinInflight(c) \/ Promise(c) \/ EndLookup(c)
  BY <1>4 DEF Deny, JoinInflight, Promise, EndLookup
<1>5. CASE TakeBatch(c) \/ Answer(c) \/ Refuse(c) \/ Unreachable(c)
  BY <1>5 DEF TakeBatch, Answer, Refuse, Unreachable, RejectBatch
<1>6. CASE Settle(c) \/ ReleaseBatch(c) \/ EndBatches(c)
  BY <1>6 DEF Settle, ReleaseBatch, EndBatches
<1>7. CASE LoadNamespaceManifest(c) \/ CountExistingEntries(c) \/ TruncateManifest(c) \/ WriteNewManifest(c)
  BY <1>7 DEF LoadNamespaceManifest, CountExistingEntries, TruncateManifest, WriteNewManifest
<1>8. CASE CheckEntry(c) \/ TruncateEntry(c) \/ WriteEntry(c) \/ BumpManifest(c)
  BY <1>8 DEF CheckEntry, TruncateEntry, WriteEntry, BumpManifest
<1>9. CASE AwaitRequest(c) \/ Return(c)
  BY <1>9 DEF AwaitRequest, Return
<1>10. QED
  BY <1>1, <1>2, <1>3, <1>4, <1>5, <1>6, <1>7, <1>8, <1>9 DEF Acts, Step, Find, Embed, Write

\* A step of a call keeps the type.
LEMMA TypeStep ==
  ASSUME TypeOK, NEW c \in Calls, Local(c), Acts(c)
  PROVE  TypeOK'
<1>1. Moves(c) /\ request' = request /\ request \in [Calls -> Request] /\ Process(c) \in Procs
  BY StepMoves, Typing DEF Moves, TypeOK
<1>2. ControlType'
  BY <1>1 DEF Moves, TypeOK, ControlType
<1> SUFFICES LookupType' /\ ResultType' /\ SharedType' /\ BatchType'
  BY <1>1, <1>2 DEF TypeOK
<1>3. LookupType /\ ResultType /\ SharedType /\ BatchType
  BY DEF TypeOK
<1>4. CASE UNCHANGED <<lookup, shared, batching, item>>
  BY <1>1, <1>3, <1>4 DEF LookupType, ResultType, SharedType, BatchType, lookup, shared,
     batching, Texts
<1>5. CASE UNCHANGED <<lookup, shared, batching>> /\ item' = [item EXCEPT ![c] = @ + 1]
  BY <1>1, <1>3, <1>5 DEF LookupType, ResultType, SharedType, BatchType, lookup, shared,
     batching, Texts
<1>6. CASE Find(c)
  <2>1. UNCHANGED <<batching, item>>
    BY <1>6 DEF Find, JoinOwnRequest, LookUp, LoadCacheEntry, TakeHit, Deny, JoinInflight,
       Promise, EndLookup
  <2>2. BatchType'
    BY <1>3, <2>1 DEF BatchType, batching
  <2>3. CASE JoinOwnRequest(c)
    <3>1. PICK j \in DOMAIN pending[c] : pending' = [pending EXCEPT ![c][j].indices = @ \cup {at[c]}]
      BY <2>3 DEF JoinOwnRequest, Repeats
    <3>2. pending[c] \in Seq(Pending) /\ pending[c][j] \in Pending /\ at[c] \in Nat
      BY <1>3, ElementOfSeq, LenProperties DEF LookupType
    <3>3. [pending[c][j] EXCEPT !.indices = @ \cup {at[c]}] \in Pending
      BY <3>2 DEF Pending
    <3>4. pending'[c] \in Seq(Pending)
      <4>1. pending'[c] = [pending[c] EXCEPT ![j] = [pending[c][j] EXCEPT !.indices = @ \cup {at[c]}]]
        BY <1>3, <3>1 DEF LookupType
      <4>2. j \in 1..Len(pending[c])
        BY <3>2, LenProperties
      <4>3. QED
        BY <3>2, <3>3, <4>1, <4>2, ExceptSeq
    <3>5. pending' \in [Calls -> Seq(Pending)]
      BY <1>3, <3>1, <3>4 DEF LookupType
    <3>6. QED
      BY <1>1, <1>3, <2>2, <2>3, <3>5 DEF JoinOwnRequest, LookupType, ResultType, SharedType,
         shared, Texts
  <2>4. CASE LookUp(c) \/ LoadCacheEntry(c) \/ Deny(c) \/ EndLookup(c)
    <3>1. UNCHANGED <<pending, fresh, results, inflight, promise>>
      BY <2>4 DEF LookUp, LoadCacheEntry, Deny, EndLookup, NextText, shared, lookup
    <3>2. at' = at \/ at' = [at EXCEPT ![c] = @ + 1]
      BY <2>4 DEF LookUp, LoadCacheEntry, Deny, EndLookup, NextText, shared, lookup
    <3>3. LookupType'
      BY <1>3, <3>1, <3>2 DEF LookupType
    <3>4. LookupType' /\ ResultType' /\ SharedType'
      BY <1>1, <1>3, <3>1, <3>3 DEF ResultType, SharedType, Texts
    <3>5. QED
      BY <2>2, <3>4
  <2>5. CASE TakeHit(c)
    <3>1. at[c] \in DOMAIN Texts(c) /\ Here(c) \in Keys
      BY <2>5, Typing DEF TakeHit, On
    <3>2. QED
      BY <1>1, <1>3, <2>2, <2>5, <3>1 DEF TakeHit, NextText, LookupType, ResultType, SharedType,
         shared, Texts
  <2>6. ASSUME NEW owner \in Calls, stage[c] = "decide", Push(c, owner)
        PROVE  pending' \in [Calls -> Seq(Pending)] /\ fresh' \in [Calls -> Seq(Keys)]
    <3>1. Here(c) \in Keys /\ [key |-> Here(c), indices |-> {at[c]}, owner |-> owner] \in Pending
      BY <1>3, <2>6, Typing DEF Pending, LookupType
    <3>2. QED
      BY <1>3, <2>6, <3>1, AppendProperties DEF Push, LookupType
  <2>7. CASE JoinInflight(c) \/ Promise(c)
    <3>1. stage[c] = "decide" /\ (Promised(c) # None => Promised(c) \in Calls) /\ Here(c) \in Keys
      BY <1>1, <1>3, <2>7, Typing DEF JoinInflight, Promise, On, Promised, SharedType
    <3>2. pending' \in [Calls -> Seq(Pending)] /\ fresh' \in [Calls -> Seq(Keys)]
      BY <2>6, <2>7, <3>1 DEF JoinInflight, Promise
    <3>3. UNCHANGED results /\ at' = [at EXCEPT ![c] = @ + 1]
      BY <2>7 DEF JoinInflight, Promise, NextText
    <3>4. LookupType' /\ ResultType'
      BY <1>1, <1>3, <3>2, <3>3 DEF LookupType, ResultType, Texts
    <3>5. SharedType'
      <4>1. \/ UNCHANGED <<inflight, promise>>
            \/ /\ inflight' = [inflight EXCEPT ![Process(c)][Here(c)] = c]
               /\ promise' = [promise EXCEPT ![c][Here(c)] = "pending"]
        BY <2>7 DEF JoinInflight, Promise, shared
      <4>2. [inflight[Process(c)] EXCEPT ![Here(c)] = c] \in [Keys -> Calls \cup {None}]
        BY <1>1, <1>3, <3>1 DEF SharedType
      <4>3. [promise[c] EXCEPT ![Here(c)] = "pending"] \in [Keys -> Keys \cup {None, "pending", "error"}]
        BY <1>1, <1>3, <3>1 DEF SharedType
      <4>4. QED
        BY <1>1, <1>3, <4>1, <4>2, <4>3 DEF SharedType
    <3>6. QED
      BY <2>2, <3>4, <3>5
  <2>8. QED
    BY <1>6, <2>3, <2>4, <2>5, <2>7 DEF Find
<1>7. CASE TakeBatch(c) \/ Answer(c) \/ Refuse(c) \/ Unreachable(c) \/ Settle(c) \/ ReleaseBatch(c)
  <2>1. UNCHANGED lookup
    BY <1>7 DEF TakeBatch, Answer, Refuse, Unreachable, Settle, ReleaseBatch
  <2>2. LookupType' /\ ResultType'
    BY <1>1, <1>3, <2>1 DEF LookupType, ResultType, lookup, Texts
  <2>3. CASE TakeBatch(c)
    <3>1. Batched(c)
      BY DEF Local, Progress
    <3> DEFINE n == Len(Batches(c)[batch[c] + 1])
               keys == SubSeq(fresh[c], offset[c] + 1, offset[c] + n)
    <3>2. n \in Nat /\ keys \in Seq(Keys)
      BY <2>3, <3>1, NextBatch DEF TakeBatch
    <3>3. /\ current' = [current EXCEPT ![c] = keys] /\ offset' = [offset EXCEPT ![c] = @ + n]
          /\ batch' = [batch EXCEPT ![c] = @ + 1] /\ UNCHANGED <<vectors, item>>
          /\ UNCHANGED <<inflight, promise>>
      BY <2>3 DEF TakeBatch, Set, shared
    <3> HIDE DEF n, keys
    <3>4. BatchType' /\ SharedType'
      BY <1>3, <3>2, <3>3 DEF BatchType, SharedType
    <3>5. QED
      BY <2>2, <3>4
  <2>4. ASSUME RejectBatch(c) \/ (Release(c) /\ UNCHANGED promise) PROVE SharedType'
    <3>1. inflight' \in [Procs -> [Keys -> Calls \cup {None}]]
      BY <1>1, <1>3, <2>4 DEF RejectBatch, Release, SharedType
    <3>2. promise' \in [Calls -> [Keys -> Keys \cup {None, "pending", "error"}]]
      BY <1>1, <1>3, <2>4 DEF RejectBatch, SharedType
    <3>3. QED
      BY <3>1, <3>2 DEF SharedType
  <2>5. CASE Refuse(c) \/ Unreachable(c) \/ ReleaseBatch(c)
    <3>1. BatchType'
      BY <1>3, <2>5 DEF Refuse, Unreachable, ReleaseBatch, batching, BatchType
    <3>2. SharedType'
      BY <1>3, <2>4, <2>5 DEF Refuse, Unreachable, ReleaseBatch, shared, SharedType
    <3>3. QED
      BY <2>2, <3>1, <3>2
  <2>6. CASE Answer(c)
    <3>1. PICK answer \in [DOMAIN current[c] -> DOMAIN current[c]] :
            \/ /\ Complete(answer)
               /\ vectors' = Set(vectors, c, ByIndex(c, answer)) /\ item' = Set(item, c, 1)
               /\ UNCHANGED shared
            \/ RejectBatch(c) /\ UNCHANGED <<vectors, item>>
      BY <2>6 DEF Answer
    <3>2. UNCHANGED <<batch, offset, current>>
      BY <2>6 DEF Answer
    <3>3. BatchType'
      <4>1. /\ vectors' = vectors \/ vectors' = [vectors EXCEPT ![c] = current[c]]
            /\ item' = item \/ item' = [item EXCEPT ![c] = 1]
        BY <3>1, AnswerInOrder DEF Set
      <4>2. item' \in [Calls -> Nat \ {0}]
        BY <1>3, <4>1 DEF BatchType
      <4>3. vectors' \in [Calls -> Seq(Keys)]
        <5>1. current[c] \in Seq(Keys) /\ vectors \in [Calls -> Seq(Keys)]
          BY <1>3 DEF BatchType
        <5>2. QED
          BY <4>1, <5>1
      <4>4. QED
        BY <1>3, <3>2, <4>2, <4>3 DEF BatchType
    <3>4. SharedType'
      BY <1>3, <2>4, <3>1 DEF shared, SharedType
    <3>5. QED
      BY <2>2, <3>3, <3>4
  <2>7. CASE Settle(c)
    <3>1. vectors[c][item[c]] \in Keys
      BY <2>7, Typing DEF Settle, On
    <3>2. SharedType'
      BY <1>3, <2>7, <3>1 DEF Settle, SharedType
    <3>3. BatchType'
      BY <1>3, <2>7, SMTT(30) DEF Settle, BatchType, batching
    <3>4. QED
      BY <2>2, <3>2, <3>3
  <2>8. QED
    BY <1>7, <2>3, <2>5, <2>6, <2>7
<1>8. CASE AwaitRequest(c)
  <2>1. LookupType' /\ SharedType' /\ BatchType'
    <3>1. /\ UNCHANGED <<inflight, promise, at, pending, fresh, batch, offset, current, vectors>>
          /\ item' = item \/ item' = [item EXCEPT ![c] = @ + 1]
      BY <1>8 DEF AwaitRequest, shared, batching
    <3>2. LookupType' /\ SharedType'
      BY <1>3, <3>1 DEF LookupType, SharedType
    <3>3. BatchType'
      BY <1>3, <3>1 DEF BatchType
    <3>4. QED
      BY <3>2, <3>3
  <2>2. Outcome(c) # "pending" /\ Outcome(c) # "error" => Outcome(c) \in Keys \cup {None}
    BY <1>8, Typing DEF AwaitRequest
  <2>3. ResultType'
    <3>1. CASE UNCHANGED results
      BY <1>1, <1>3, <3>1 DEF ResultType, Texts
    <3>2. CASE ~ UNCHANGED results
      <4>1. /\ results' = [results EXCEPT ![c] =
                  [i \in DOMAIN @ |-> IF i \in Awaited(c).indices THEN Outcome(c) ELSE @[i]]]
            /\ Outcome(c) \in Keys \cup {None}
        BY <1>8, <2>2, <3>2 DEF AwaitRequest
      <4>2. results'[c] \in [DOMAIN Texts(c) -> Keys \cup {None}]
        BY <1>3, <4>1 DEF ResultType
      <4>3. QED
        BY <1>1, <1>3, <4>1, <4>2 DEF ResultType, Texts
    <3>3. QED
      BY <3>1, <3>2
  <2>4. QED
    BY <2>1, <2>3
<1>9. CASE EndBatches(c)
  BY <1>1, <1>3, <1>9 DEF EndBatches, Set, LookupType, ResultType, SharedType, BatchType, lookup,
     shared, batching, Texts
<1>10. CASE Start(c) \/ Return(c) \/ Write(c) \/ CacheWriteFails(c)
  <2>1. \/ UNCHANGED <<lookup, shared, batching, item>>
        \/ UNCHANGED <<lookup, shared, batching>> /\ item' = [item EXCEPT ![c] = @ + 1]
    BY <1>10 DEF Start, Return, Write, CacheWriteFails, NextItem, LoadNamespaceManifest,
       CountExistingEntries,
         TruncateManifest, WriteNewManifest, CheckEntry, TruncateEntry, WriteEntry, BumpManifest
  <2>2. QED
    BY <1>4, <1>5, <2>1
<1>11. QED
  BY <1>6, <1>7, <1>8, <1>9, <1>10 DEF Acts, Step, Embed

-----------------------------------------------------------------------------
(* Which operation changes what *)

\* Which operation of a call changes what.
LEMMA Operations ==
  ASSUME TypeOK, NEW c \in Calls, Acts(c)
  PROVE  /\ stage'[c] \in {"read", "decide"} => LookUp(c) \/ LoadCacheEntry(c)
         /\ stage'[c] \in Writing =>
              Settle(c) \/ (stage[c] \in Writing /\ UNCHANGED <<item, current, vectors>>)
         /\ stage'[c] = "settle" =>
              Answer(c) \/ (stage[c] \in {"settle"} \cup Writing /\ UNCHANGED <<current, vectors>>)
         /\ stage'[c] = "done" => Start(c) \/ Return(c)
         /\ stage'[c] \in Looking => stage[c] \in Looking
         /\ stage'[c] = "await" => EndBatches(c) \/ stage[c] = "await"
         /\ stage'[c] = "provider" => TakeBatch(c) \/ stage[c] = "provider"
         /\ UNCHANGED <<pending, fresh>> \/ JoinOwnRequest(c) \/ JoinInflight(c) \/ Promise(c)
         /\ UNCHANGED results \/ TakeHit(c) \/ AwaitRequest(c)
         /\ UNCHANGED denied \/ Deny(c)
         /\ UNCHANGED <<batch, offset, current>> \/ TakeBatch(c)
<1> USE DEF Set, On, Continue, Await, Io, NextItem, NextText, lookup, batching, shared
<1> USE DEF TypeOK, ControlType, Looking, Writing
<1>1. CASE Start(c)
  BY <1>1 DEF Start
<1>2. CASE CacheWriteFails(c)
  BY <1>2 DEF CacheWriteFails
<1>3. CASE JoinOwnRequest(c) \/ LookUp(c) \/ LoadCacheEntry(c) \/ TakeHit(c)
  BY <1>3 DEF JoinOwnRequest, LookUp, LoadCacheEntry, TakeHit
<1>4. CASE Deny(c) \/ JoinInflight(c) \/ Promise(c) \/ EndLookup(c)
  BY <1>4 DEF Deny, JoinInflight, Promise, EndLookup
<1>5. CASE TakeBatch(c)
  BY <1>5 DEF TakeBatch
<1>6. CASE Answer(c)
  BY <1>6 DEF Answer, RejectBatch
<1>7. CASE Refuse(c) \/ Unreachable(c)
  BY <1>7 DEF Refuse, Unreachable, RejectBatch
<1>8. CASE Settle(c) \/ ReleaseBatch(c) \/ EndBatches(c)
  BY <1>8 DEF Settle, ReleaseBatch, EndBatches
<1>9. CASE LoadNamespaceManifest(c) \/ CountExistingEntries(c) \/ TruncateManifest(c) \/ WriteNewManifest(c)
  BY <1>9 DEF LoadNamespaceManifest, CountExistingEntries, TruncateManifest, WriteNewManifest
<1>10. CASE CheckEntry(c) \/ TruncateEntry(c) \/ WriteEntry(c) \/ BumpManifest(c)
  BY <1>10 DEF CheckEntry, TruncateEntry, WriteEntry, BumpManifest
<1>11. CASE AwaitRequest(c) \/ Return(c)
  BY <1>11 DEF AwaitRequest, Return
<1>12. QED
  BY <1>1, <1>2, <1>3, <1>4, <1>5, <1>6, <1>7, <1>8, <1>9, <1>10, <1>11 DEF Acts, Step, Find,
     Embed, Write

\* ... and of the state that calls share.
LEMMA SharedOperations ==
  ASSUME TypeOK, NEW c \in Calls, Acts(c)
  PROVE  \/ Promise(c)
         \/ stage[c] = "provider" /\ RejectBatch(c) /\ UNCHANGED <<current, offset, fresh>>
         \/ Settle(c)
         \/ ReleaseBatch(c)
         \/ UNCHANGED <<inflight, promise>>
<1> USE DEF lookup, batching, shared
<1>1. CASE Start(c) \/ CacheWriteFails(c)
  BY <1>1 DEF Start, CacheWriteFails
<1>2. CASE Find(c)
  BY <1>2 DEF Find, JoinOwnRequest, LookUp, LoadCacheEntry, TakeHit, Deny, JoinInflight, EndLookup
<1>3. CASE Embed(c)
  BY <1>3 DEF Embed, TakeBatch, Answer, Refuse, Unreachable, EndBatches, On
<1>4. CASE Write(c)
  BY <1>4 DEF Write, LoadNamespaceManifest, CountExistingEntries, TruncateManifest,
     WriteNewManifest,
              CheckEntry, TruncateEntry, WriteEntry, BumpManifest
<1>5. CASE AwaitRequest(c) \/ Return(c)
  BY <1>5 DEF AwaitRequest, Return
<1>6. QED
  BY <1>1, <1>2, <1>3, <1>4, <1>5 DEF Acts, Step

-----------------------------------------------------------------------------
(* What is a call's own *)

\* The text looked up, the request written and the answer stay what the call is at.
LEMMA TextStep ==
  ASSUME TypeOK, TypeOK', NEW c \in Calls, Local(c), Acts(c)
  PROVE  AtText(c)' /\ AtItem(c)' /\ Answered(c)'
<1> USE DEF Acts
<1>0. request' = request
  BY StepMoves DEF Moves
<1>1. AtText(c)'
  <2> SUFFICES ASSUME stage'[c] \in {"read", "decide"}
               PROVE  (at[c] \in DOMAIN Texts(c) /\ Repeats(c) = {})'
    BY DEF AtText
  <2>1. CASE LookUp(c)
    BY <1>0, <2>1 DEF LookUp, Texts, Repeats, Here
  <2>2. CASE LoadCacheEntry(c)
    BY <1>0, <2>2 DEF LoadCacheEntry, Io, Local, AtText, Texts, Repeats, Here
  <2>3. QED
    BY <2>1, <2>2, Operations
<1>2. AtItem(c)'
  <2>1. CASE Settle(c)
    <3>1. item[c] \in DOMAIN current[c] /\ UNCHANGED current
      BY <2>1 DEF Settle, batching
    <3>2. stage'[c] = "settle" \/ UNCHANGED item
      BY <2>1 DEF Settle, Await, Continue, Set, TypeOK, ControlType
    <3>3. QED
      BY <3>1, <3>2 DEF AtItem, Writing
  <2>2. QED
    BY <2>1, Operations DEF AtItem, Local
<1>3. Answered(c)'
  <2>1. CASE Answer(c)
    <3>1. vectors' = [vectors EXCEPT ![c] = current[c]] \/ stage'[c] = "batch"
      BY <2>1, AnswerInOrder DEF Answer, RejectBatch, Continue, Set, TypeOK, ControlType
    <3>2. UNCHANGED current
      BY <2>1 DEF Answer
    <3>3. QED
      BY <3>1, <3>2 DEF Answered, Writing, TypeOK, BatchType
  <2>2. CASE Settle(c)
    BY <2>2 DEF Settle, On, batching, Local, Answered
  <2>3. QED
    BY <2>1, <2>2, Operations DEF Answered, Local
<1>4. QED
  BY <1>1, <1>2, <1>3

\* A call that may not reach the provider goes on asking for nothing.
LEMMA DenyStep ==
  ASSUME TypeOK, TypeOK', NEW c \in Calls, Local(c), Acts(c)
  PROVE  Denies(c)'
<1> USE DEF Acts
<1>0. request' = request /\ Denies(c)
  BY StepMoves DEF Moves, Local
<1>1. request[c].deny => pending'[c] = <<>> /\ fresh'[c] = <<>>
  <2>1. CASE JoinOwnRequest(c)
    BY <1>0, <2>1 DEF JoinOwnRequest, Repeats, Denies
  <2>2. CASE JoinInflight(c) \/ Promise(c)
    BY <2>2 DEF JoinInflight, Promise
  <2>3. QED
    BY <1>0, <2>1, <2>2, Operations DEF Denies
<1>2. c \in denied' => request[c].deny
  BY <1>0, Operations DEF Deny, Denies
<1>3. ASSUME stage'[c] = "done", NEW i \in DOMAIN Texts(c) PROVE results'[c][i] # None
  <2>1. CASE Start(c)
    BY <1>3, <2>1 DEF Start, Await, Set, TypeOK, ControlType
  <2>2. CASE Return(c)
    <3>1. UNCHANGED results /\ None \notin {results[c][j] : j \in DOMAIN results[c]}
      BY <1>3, <2>2 DEF Return, Await, Set, TypeOK, ControlType, lookup
    <3>2. DOMAIN results[c] = DOMAIN Texts(c)
      BY DEF TypeOK, ResultType
    <3>3. QED
      BY <3>1, <3>2
  <2>3. QED
    BY <1>3, <2>1, <2>2, Operations
<1>4. QED
  BY <1>0, <1>1, <1>2, <1>3 DEF Denies, Texts

\* No vector gets to a text that is not its own: not from the cache, and not from
\* a request of this or another call.
LEMMA VectorStep ==
  ASSUME TypeOK, TypeOK', NEW c \in Calls, \A d \in Calls : Local(d), Acts(c)
  PROVE  Found(c)' /\ Asked(c)' /\ Resolved(c)'
<1> USE DEF Acts
<1>0. request' = request /\ Local(c)
  BY StepMoves DEF Moves
<1>1. Found(c)'
  <2>1. CASE TakeHit(c)
    BY <1>0, <2>1 DEF TakeHit, Found, Local, Texts, Here, TypeOK, ResultType
  <2>2. CASE AwaitRequest(c) /\ ~ UNCHANGED results
    <3>1. /\ results' = [results EXCEPT ![c] =
                [i \in DOMAIN @ |-> IF i \in Awaited(c).indices THEN Outcome(c) ELSE @[i]]]
          /\ Outcome(c) # "pending" /\ Outcome(c) # "error" /\ item[c] \in DOMAIN pending[c]
      BY <2>2 DEF AwaitRequest
    <3>2. Awaited(c).owner \in Calls /\ Awaited(c).key \in Keys
      BY <1>0, <3>1, Typing DEF Pending
    <3>3. Outcome(c) \in {None, Awaited(c).key}
      BY <3>1, <3>2 DEF Outcome, Local, Resolved
    <3>4. \A i \in DOMAIN Texts(c) : i \in Awaited(c).indices => Awaited(c).key = Texts(c)[i]
      BY <1>0, <3>1 DEF Awaited, Local, Asked
    <3>5. \A i \in DOMAIN Texts(c) :
            results'[c][i] = IF i \in Awaited(c).indices THEN Outcome(c) ELSE results[c][i]
      BY <3>1 DEF TypeOK, ResultType
    <3>6. QED
      BY <1>0, <3>3, <3>4, <3>5 DEF Found, Local, Texts
  <2>3. QED
    BY <1>0, <2>1, <2>2, Operations DEF Found, Local, Texts
<1>2. Asked(c)'
  <2>1. CASE JoinOwnRequest(c)
    <3>1. PICK j \in Repeats(c) : pending' = [pending EXCEPT ![c][j].indices = @ \cup {at[c]}]
      BY <2>1 DEF JoinOwnRequest
    <3>2. j \in DOMAIN pending[c] /\ pending[c][j].key = Texts(c)[at[c]]
      BY <3>1 DEF Repeats, Here
    <3>3. pending[c] \in Seq(Pending) /\ \A k \in DOMAIN pending[c] : pending[c][k] \in Pending
      BY ElementOfSeq, LenProperties DEF TypeOK, LookupType
    <3>4. pending'[c] = [pending[c] EXCEPT ![j] = [pending[c][j] EXCEPT !.indices = @ \cup {at[c]}]]
      BY <3>1 DEF TypeOK, LookupType
    <3> DEFINE joined == [pending[c][j] EXCEPT !.indices = @ \cup {at[c]}]
    <3>5. joined.key = pending[c][j].key /\ joined.indices = pending[c][j].indices \cup {at[c]}
      BY <3>2, <3>3 DEF Pending
    <3>6. pending'[c] = [pending[c] EXCEPT ![j] = joined]
      BY <3>4
    <3> HIDE DEF joined
    <3>7. /\ DOMAIN pending'[c] = DOMAIN pending[c]
          /\ \A k \in DOMAIN pending[c] : pending'[c][k] = IF k = j THEN joined ELSE pending[c][k]
      BY <3>2, <3>6
    <3>8. \A k \in DOMAIN pending'[c] :
             /\ pending'[c][k].key = pending[c][k].key
             /\ pending'[c][k].indices = IF k = j THEN pending[c][k].indices \cup {at[c]}
                                         ELSE pending[c][k].indices
      BY <3>5, <3>7
    <3>9. Asked(c)
      BY <1>0 DEF Local
    <3>10. DOMAIN pending'[c] = DOMAIN pending[c]
      BY <3>7
    <3>11. ASSUME NEW k \in DOMAIN pending[c], NEW i \in pending'[c][k].indices, i \in DOMAIN Texts(c)
           PROVE  pending'[c][k].key = Texts(c)[i]
      <4>1. CASE i \in pending[c][k].indices
        BY <3>8, <3>9, <3>10, <3>11, <4>1 DEF Asked
      <4>2. CASE i \notin pending[c][k].indices
        BY <3>2, <3>8, <3>10, <3>11, <4>2
      <4>3. QED
        BY <4>1, <4>2
    <3>12. QED
      BY <1>0, <3>10, <3>11 DEF Asked, Texts
  <2>2. CASE JoinInflight(c) \/ Promise(c)
    <3>1. PICK owner : pending'[c] = Append(pending[c], [key |-> Here(c), indices |-> {at[c]}, owner |-> owner])
      BY <2>2 DEF JoinInflight, Promise, Push, TypeOK, LookupType
    <3>2. pending[c] \in Seq(Pending) /\ pending'[c] \in Seq(Pending)
      BY DEF TypeOK, LookupType
    <3>3. /\ DOMAIN pending'[c] = 1..Len(pending[c]) + 1 /\ DOMAIN pending[c] = 1..Len(pending[c])
          /\ Len(pending[c]) \in Nat
          /\ \A k \in DOMAIN pending[c] : pending'[c][k] = pending[c][k]
          /\ pending'[c][Len(pending[c]) + 1] = [key |-> Here(c), indices |-> {at[c]}, owner |-> owner]
      BY <3>1, <3>2
    <3>4. QED
      BY <1>0, <3>3 DEF Asked, Local, Texts, Here
  <2>3. QED
    BY <1>0, <2>1, <2>2, Operations DEF Asked, Local, Texts
<1>3. Resolved(c)'
  <2>1. CASE Promise(c)
    BY <1>0, <2>1 DEF Promise, Resolved, Local, TypeOK, SharedType
  <2>2. CASE RejectBatch(c)
    BY <1>0, <2>2 DEF RejectBatch, Resolved, Local, TypeOK, SharedType
  <2>3. CASE Settle(c)
    <3>1. vectors[c][item[c]] = current[c][item[c]]
      BY <1>0, <2>3, Typing DEF Settle, On
    <3>2. QED
      BY <1>0, <2>3, <3>1 DEF Settle, Resolved, Local, TypeOK, SharedType
  <2>4. CASE UNCHANGED promise
    BY <1>0, <2>4 DEF Resolved, Local
  <2>5. QED
    BY <2>1, <2>2, <2>3, <2>4, SharedOperations DEF ReleaseBatch
<1>4. QED
  BY <1>1, <1>2, <1>3

\* The offset is the end of the last batch taken.
LEMMA ProgressStep ==
  ASSUME TypeOK, TypeOK', NEW c \in Calls, Local(c), Acts(c)
  PROVE  Progress(c)'
<1> USE DEF Acts
<1>0. Progress(c) /\ fresh[c] \in Seq(Keys) /\ Len(fresh[c]) \in Nat /\ batch[c] \in Nat
  BY DEF Local, TypeOK, LookupType, BatchType
<1>1. Batches(c) \in Seq(Seq(Keys)) /\ Len(Batches(c)) \in Nat
  BY <1>0, BatchesPartition DEF Batches
<1>2. CASE TakeBatch(c)
  <2> DEFINE n == Len(Batches(c)[batch[c] + 1])
  <2>1. /\ UNCHANGED fresh /\ batch[c] < Len(Batches(c))
        /\ batch'[c] = batch[c] + 1 /\ offset'[c] = offset[c] + n /\ stage'[c] = "provider"
    BY <1>2 DEF TakeBatch, Await, Set, TypeOK, ControlType, BatchType, lookup
  <2>2. Batched(c)
    BY <1>0 DEF Progress
  <2>3. PICK end \in [0..Len(Batches(c)) -> 0..Len(fresh[c])] :
          Ends(end, Batches(c), Len(fresh[c])) /\ offset[c] + n = end[batch[c] + 1]
    BY <2>1, <2>2, NextBatch
  <2>4. Batches(c)' = Batches(c)
    BY <2>1 DEF Batches
  <2> HIDE DEF n
  <2>5. Batched(c)'
    BY <2>1, <2>3, <2>4 DEF Batched
  <2>6. QED
    BY <1>0, <1>1, <2>1, <2>4, <2>5 DEF Progress, Looking
<1>3. CASE UNCHANGED <<fresh, batch, offset>>
  <2>1. Batches(c)' = Batches(c)
    BY <1>3 DEF Batches
  <2>2. Batched(c)' /\ batch'[c] <= Len(Batches(c)')
    BY <1>0, <1>3, <2>1 DEF Progress, Batched
  <2>3. stage'[c] \in Looking => batch'[c] = 0
    BY <1>0, <1>3, Operations DEF Progress
  <2>4. CASE EndBatches(c)
    <3>1. batch[c] = Len(Batches(c))
      BY <2>4 DEF EndBatches
    <3>2. offset[c] = Len(fresh[c])
      BY <1>0, <3>1 DEF Progress, Batched, Ends
    <3>3. QED
      BY <1>3, <2>2, <2>3, <3>2 DEF Progress
  <2>5. CASE ~ EndBatches(c)
    <3>1. stage'[c] = "await" => offset'[c] = Len(fresh'[c])
      BY <1>0, <1>3, <2>5, Operations DEF Progress
    <3>2. QED
      BY <2>2, <2>3, <3>1 DEF Progress
  <2>6. QED
    BY <2>4, <2>5
<1>4. CASE JoinOwnRequest(c) \/ JoinInflight(c) \/ Promise(c)
  <2>1. /\ UNCHANGED <<batch, offset>> /\ stage[c] \in Looking /\ stage'[c] = "lookup"
    BY <1>4 DEF JoinOwnRequest, JoinInflight, Promise, batching, On, NextText, Continue, Set,
       Looking,
                TypeOK, ControlType
  <2>2. batch[c] = 0 /\ offset[c] = 0
    BY <1>0, <2>1 DEF Progress, Batched, Ends
  <2>3. fresh'[c] \in Seq(Keys)
    BY DEF TypeOK, LookupType
  <2>4. /\ Batches(c)' \in Seq(Seq(Keys))
        /\ \E end \in [0..Len(Batches(c)') -> 0..Len(fresh'[c])] : Ends(end, Batches(c)', Len(fresh'[c]))
    <3> DEFINE keys == fresh'[c]
    <3>1. Batches(c)' = SplitEmbeddingBatches(keys)
      BY DEF Batches
    <3> HIDE DEF keys
    <3>2. keys \in Seq(Keys)
      BY <2>3 DEF keys
    <3>3. /\ SplitEmbeddingBatches(keys) \in Seq(Seq(Keys))
          /\ \E end \in [0..Len(SplitEmbeddingBatches(keys)) -> 0..Len(keys)] :
                Ends(end, SplitEmbeddingBatches(keys), Len(keys))
      BY <3>2, BatchesPartition
    <3>4. QED
      BY <3>1, <3>3 DEF keys
  <2>5. Batched(c)' /\ batch'[c] <= Len(Batches(c)')
    <3>1. PICK end \in [0..Len(Batches(c)') -> 0..Len(fresh'[c])] : Ends(end, Batches(c)', Len(fresh'[c]))
      BY <2>4
    <3>2. end[0] = 0 /\ batch'[c] = 0 /\ offset'[c] = 0
      BY <2>1, <2>2, <3>1 DEF Ends
    <3>3. Batched(c)'
      BY <3>1, <3>2 DEF Batched
    <3>4. Len(Batches(c)') \in Nat
      BY <2>4
    <3>5. QED
      BY <3>2, <3>3, <3>4
  <2>6. QED
    BY <2>1, <2>2, <2>5 DEF Progress
<1>5. QED
  BY <1>2, <1>3, <1>4, Operations

\* A text is a request of its own only if no pending one has its key.
LEMMA FreshStep ==
  ASSUME TypeOK, TypeOK', NEW c \in Calls, Local(c), Claimed(c), \A p \in Procs : Owned(p), Acts(c)
  PROVE  EachOnce(c)' /\ Taken(c)'
<1> USE DEF Acts
<1>0. /\ EachOnce(c) /\ Taken(c) /\ Progress(c)
      /\ fresh[c] \in Seq(Keys) /\ pending[c] \in Seq(Pending) /\ current[c] \in Seq(Keys)
      /\ offset[c] \in Nat /\ Process(c) \in Procs
  BY Typing DEF Local, TypeOK, LookupType, BatchType
<1>1. CASE JoinOwnRequest(c)
  <2>1. UNCHANGED fresh /\ stage'[c] = "lookup"
    BY <1>1 DEF JoinOwnRequest, Continue, Set, TypeOK, ControlType
  <2>2. PICK j \in DOMAIN pending[c] : pending' = [pending EXCEPT ![c][j].indices = @ \cup {at[c]}]
    BY <1>1 DEF JoinOwnRequest, Repeats
  <2>3. pending[c] \in Seq(Pending) /\ \A k \in DOMAIN pending[c] : pending[c][k] \in Pending
    BY <1>0, ElementOfSeq, LenProperties
  <2>4. pending'[c] = [pending[c] EXCEPT ![j] = [pending[c][j] EXCEPT !.indices = @ \cup {at[c]}]]
    BY <2>2 DEF TypeOK, LookupType
  <2>5. DOMAIN pending'[c] = DOMAIN pending[c] /\ \A k \in DOMAIN pending[c] : pending'[c][k].key = pending[c][k].key
    BY <2>2, <2>3, <2>4 DEF Pending
  <2>6. EachOnce(c)'
    BY <1>0, <2>1, <2>5 DEF EachOnce
  <2>7. Taken(c)'
    BY <2>1 DEF Taken, Holding, Writing
  <2>8. QED
    BY <2>6, <2>7
<1>2. CASE JoinInflight(c) \/ Promise(c)
  <2>1. /\ stage[c] = "decide" /\ stage'[c] = "lookup" /\ Here(c) \in Keys /\ Repeats(c) = {}
    BY <1>2, Typing DEF JoinInflight, Promise, On, NextText, Continue, Set, TypeOK, ControlType,
       Local, AtText
  <2>2. PICK owner : Push(c, owner) /\ (owner = c \/ owner = Promised(c))
    BY <1>2 DEF JoinInflight, Promise
  <2>3. /\ pending'[c] = Append(pending[c], [key |-> Here(c), indices |-> {at[c]}, owner |-> owner])
        /\ fresh'[c] = fresh[c] \/ fresh'[c] = Append(fresh[c], Here(c))
    BY <2>2 DEF Push, TypeOK, LookupType
  <2>4. /\ DOMAIN pending'[c] = 1..Len(pending[c]) + 1 /\ DOMAIN pending[c] = 1..Len(pending[c])
        /\ Len(pending[c]) \in Nat
        /\ \A k \in DOMAIN pending[c] : pending'[c][k] = pending[c][k]
        /\ pending'[c][Len(pending[c]) + 1].key = Here(c)
    BY <1>0, <2>3
  <2>5. \A i \in DOMAIN fresh[c] : fresh[c][i] # Here(c)
    BY <1>0, <2>1 DEF EachOnce, Repeats
  <2>6. EachOnce(c)'
    <3>1. CASE fresh'[c] = fresh[c]
      BY <1>0, <2>4, <3>1, SMTT(30) DEF EachOnce
    <3>2. CASE fresh'[c] = Append(fresh[c], Here(c))
      <4>1. /\ DOMAIN fresh'[c] = 1..Len(fresh[c]) + 1 /\ DOMAIN fresh[c] = 1..Len(fresh[c])
            /\ Len(fresh[c]) \in Nat
            /\ \A k \in DOMAIN fresh[c] : fresh'[c][k] = fresh[c][k]
            /\ fresh'[c][Len(fresh[c]) + 1] = Here(c)
        BY <1>0, <2>1, <3>2
      <4>2. ASSUME NEW i \in DOMAIN fresh'[c], NEW j \in DOMAIN fresh'[c], fresh'[c][i] = fresh'[c][j] PROVE i = j
        <5>1. \A k \in DOMAIN fresh'[c] : k = Len(fresh[c]) + 1 \/ k \in DOMAIN fresh[c]
          BY <4>1
        <5>2. CASE i \in DOMAIN fresh[c] /\ j \in DOMAIN fresh[c]
          BY <1>0, <4>1, <4>2, <5>2 DEF EachOnce
        <5>3. CASE i = Len(fresh[c]) + 1 /\ j \in DOMAIN fresh[c]
          BY <2>5, <4>1, <4>2, <5>3
        <5>4. CASE j = Len(fresh[c]) + 1 /\ i \in DOMAIN fresh[c]
          BY <2>5, <4>1, <4>2, <5>4
        <5>5. QED
          BY <5>1, <5>2, <5>3, <5>4
      <4>3. ASSUME NEW i \in DOMAIN fresh'[c]
            PROVE  \E j \in DOMAIN pending'[c] : pending'[c][j].key = fresh'[c][i]
        <5>1. CASE i = Len(fresh[c]) + 1
          BY <2>4, <4>1, <5>1
        <5>2. CASE i \in DOMAIN fresh[c]
          <6>1. PICK j \in DOMAIN pending[c] : pending[c][j].key = fresh[c][i]
            BY <1>0, <5>2 DEF EachOnce
          <6>2. j \in DOMAIN pending'[c] /\ pending'[c][j].key = fresh'[c][i]
            BY <2>4, <4>1, <5>2, <6>1
          <6>3. QED
            BY <6>2
        <5>3. QED
          BY <4>1, <5>1, <5>2
      <4>4. QED
        BY <4>2, <4>3 DEF EachOnce
    <3>3. QED
      BY <2>3, <3>1, <3>2
  <2>7. Taken(c)'
    BY <2>1 DEF Taken, Holding, Writing
  <2>8. QED
    BY <2>6, <2>7
<1>3. CASE TakeBatch(c)
  <2> DEFINE n == Len(Batches(c)[batch[c] + 1])
             keys == SubSeq(fresh[c], offset[c] + 1, offset[c] + n)
  <2>1. UNCHANGED <<fresh, pending>> /\ current'[c] = keys /\ offset'[c] = offset[c] + n
    BY <1>3 DEF TakeBatch, Set, TypeOK, BatchType, lookup
  <2>2. /\ n \in Nat /\ offset[c] + n <= Len(fresh[c]) /\ DOMAIN keys = 1..n
        /\ \A i \in 1..n : keys[i] = fresh[c][offset[c] + i]
    BY <1>0, <1>3, NextBatch DEF TakeBatch, Progress
  <2>3. DOMAIN fresh[c] = 1..Len(fresh[c]) /\ Len(fresh[c]) \in Nat
    BY <1>0, LenProperties
  <2> HIDE DEF n, keys
  <2>4. EachOnce(c)'
    BY <1>0, <2>1 DEF EachOnce
  <2>5. ASSUME NEW i \in 1..n
        PROVE  \E j \in DOMAIN fresh[c] : j <= offset[c] + n /\ keys[i] = fresh[c][j]
    <3>1. offset[c] + i \in 1..Len(fresh[c]) /\ offset[c] + i <= offset[c] + n
      BY <1>0, <2>2, <2>3
    <3>2. QED
      BY <2>2, <2>3, <3>1
  <2>6. Taken(c)'
    BY <2>1, <2>2, <2>5 DEF Taken
  <2>7. QED
    BY <2>4, <2>6
<1>4. CASE UNCHANGED <<pending, fresh, batch, offset, current>>
  <2>1. EachOnce(c)'
    BY <1>0, <1>4 DEF EachOnce
  <2>2. stage'[c] \in Holding => stage[c] \in Holding \/ TakeBatch(c)
    BY Operations DEF Holding, Answer, Settle, On
  <2>3. Taken(c)'
    BY <1>0, <1>3, <1>4, <2>2 DEF Taken
  <2>4. QED
    BY <2>1, <2>3
<1>5. QED
  BY <1>1, <1>2, <1>3, <1>4, Operations

\* Together: a step of one call keeps what is said of every call.
LEMMA LocalStep ==
  ASSUME MapInv, TypeOK', NEW c \in Calls, Acts(c)
  PROVE  \A d \in Calls : Local(d)'
<1>1. TypeOK /\ Local(c) /\ Claimed(c) /\ (\A d \in Calls : Local(d)) /\ (\A p \in Procs : Owned(p))
  BY DEF MapInv
<1>2. Local(c)'
  <2>1. AtText(c)' /\ AtItem(c)' /\ Answered(c)'
    BY <1>1, TextStep
  <2>2. Denies(c)' /\ Progress(c)'
    BY <1>1, DenyStep, ProgressStep
  <2>3. Found(c)' /\ Asked(c)' /\ Resolved(c)'
    BY <1>1, VectorStep
  <2>4. EachOnce(c)' /\ Taken(c)'
    BY <1>1, FreshStep
  <2>5. QED
    BY <2>1, <2>2, <2>3, <2>4 DEF Local
<1>3. ASSUME NEW d \in Calls, d # c PROVE Local(d)'
  BY <1>1, <1>3, OthersSame, SameLocal DEF Acts
<1>4. QED
  BY <1>2, <1>3

-----------------------------------------------------------------------------
(* The map of the requests in flight *)

\* The keys behind the batches that were taken are not those of the batch being
\* worked on, and its next batch is what they lose.
LEMMA LeftApart ==
  ASSUME TypeOK, NEW c \in Calls, Local(c), stage[c] \in Holding, NEW k \in Left(c)
  PROVE  k \notin ToSet(current[c])
<1> SUFFICES ASSUME k \in ToSet(current[c]) PROVE FALSE
  OBVIOUS
<1>1. PICK i \in DOMAIN current[c] : current[c][i] = k
  BY DEF ToSet
<1>2. PICK j \in DOMAIN fresh[c] : j <= offset[c] /\ k = fresh[c][j]
  BY <1>1 DEF Local, Taken
<1>3. PICK l \in DOMAIN fresh[c] : l > offset[c] /\ k = fresh[c][l]
  BY DEF Left
<1>4. j = l
  BY <1>2, <1>3 DEF Local, EachOnce
<1>5. j \in Nat /\ l \in Nat /\ offset[c] \in Nat
  BY <1>2, <1>3, LenProperties DEF TypeOK, LookupType, BatchType
<1>6. QED
  BY <1>2, <1>3, <1>4, <1>5

\* Taking a batch moves what the call has promised and loses none.
LEMMA MineOfBatch ==
  ASSUME TypeOK, TypeOK', NEW c \in Calls, Local(c), TakeBatch(c)
  PROVE  Mine(c)' = Mine(c)
<1> DEFINE n == Len(Batches(c)[batch[c] + 1])
           keys == SubSeq(fresh[c], offset[c] + 1, offset[c] + n)
<1>1. /\ UNCHANGED fresh /\ current'[c] = keys /\ offset'[c] = offset[c] + n
      /\ stage[c] = "batch" /\ stage'[c] = "provider"
  BY DEF TakeBatch, On, Await, Set, TypeOK, ControlType, BatchType, lookup
<1>2. /\ n \in Nat /\ offset[c] + n <= Len(fresh[c]) /\ DOMAIN keys = 1..n
      /\ \A i \in 1..n : keys[i] = fresh[c][offset[c] + i]
  BY NextBatch DEF TakeBatch, Local, Progress
<1>3. /\ DOMAIN fresh[c] = 1..Len(fresh[c]) /\ Len(fresh[c]) \in Nat /\ offset[c] \in Nat
  BY LenProperties DEF TypeOK, LookupType, BatchType
<1> HIDE DEF n, keys
<1>4. Mine(c) = {fresh[c][j] : j \in {j \in DOMAIN fresh[c] : j > offset[c]}}
  BY <1>1 DEF Mine, Left, Holding, Writing
<1>5. Mine(c)' = {fresh[c][j] : j \in {j \in DOMAIN fresh[c] : j > offset[c] + n}} \cup {keys[i] : i \in 1..n}
  BY <1>1, <1>2 DEF Mine, Left, Holding, ToSet
<1>6. ASSUME NEW k \in Mine(c) PROVE k \in Mine(c)'
  <2>1. PICK j \in DOMAIN fresh[c] : j > offset[c] /\ k = fresh[c][j]
    BY <1>4, <1>6
  <2>2. CASE j > offset[c] + n
    BY <1>5, <2>1, <2>2
  <2>3. CASE j <= offset[c] + n
    <3>1. j - offset[c] \in 1..n /\ offset[c] + (j - offset[c]) = j
      BY <1>2, <1>3, <2>1, <2>3
    <3>2. keys[j - offset[c]] = k
      BY <1>2, <2>1, <3>1
    <3>3. QED
      BY <1>5, <3>1, <3>2
  <2>4. QED
    BY <1>2, <1>3, <2>1, <2>2, <2>3
<1>7. ASSUME NEW k \in Mine(c)' PROVE k \in Mine(c)
  <2>1. CASE k \in {keys[i] : i \in 1..n}
    <3>1. PICK i \in 1..n : k = keys[i]
      BY <2>1
    <3>2. offset[c] + i \in DOMAIN fresh[c] /\ offset[c] + i > offset[c] /\ k = fresh[c][offset[c] + i]
      BY <1>2, <1>3, <3>1
    <3>3. QED
      BY <1>4, <3>2
  <2>2. CASE k \in {fresh[c][j] : j \in {j \in DOMAIN fresh[c] : j > offset[c] + n}}
    <3>1. PICK j \in DOMAIN fresh[c] : j > offset[c] + n /\ k = fresh[c][j]
      BY <2>2
    <3>2. j > offset[c]
      BY <1>2, <1>3, <3>1
    <3>3. QED
      BY <1>4, <3>1, <3>2
  <2>3. QED
    BY <1>5, <1>7, <2>1, <2>2
<1>8. QED
  BY <1>6, <1>7

\* A call joins the request of another one, never its own.
LEMMA JoinsOthers ==
  ASSUME TypeOK, NEW c \in Calls, Local(c), \A p \in Procs : Owned(p), JoinInflight(c)
  PROVE  Promised(c) # c
<1> SUFFICES ASSUME Promised(c) = c PROVE FALSE
  OBVIOUS
<1>1. stage[c] = "decide" /\ Here(c) \in Keys /\ Process(c) \in Procs
  BY Typing DEF JoinInflight, On
<1>2. Here(c) \in Left(c)
  BY <1>1 DEF Owned, Promised, Mine, Holding, Writing
<1>3. PICK i \in DOMAIN fresh[c] : fresh[c][i] = Here(c)
  BY <1>2 DEF Left
<1>4. PICK j \in DOMAIN pending[c] : pending[c][j].key = Here(c)
  BY <1>3 DEF Local, EachOnce
<1>5. QED
  BY <1>1, <1>4 DEF Local, AtText, Repeats

\* No call ends with a promise that is not released.
LEMMA EndsEmpty ==
  ASSUME TypeOK, NEW c \in Calls, Local(c), Acts(c), stage'[c] \in Ended
  PROVE  stage[c] = "new" \/ Mine(c) = {}
<1> USE DEF Acts
<1>1. fresh[c] \in Seq(Keys) /\ DOMAIN fresh[c] = 1..Len(fresh[c]) /\ Len(fresh[c]) \in Nat
  BY LenProperties DEF TypeOK, LookupType
<1>2. CASE EndLookup(c)
  <2>1. stage[c] = "lookup" /\ c \in denied
    BY <1>2 DEF EndLookup, On, Await, Continue, Set, Ended, TypeOK, ControlType
  <2>2. fresh[c] = <<>>
    BY <2>1 DEF Local, Denies
  <2>3. QED
    BY <1>1, <2>1, <2>2 DEF Mine, Left, Holding, Writing
<1>3. CASE stage[c] = "await"
  BY <1>1, <1>3 DEF Mine, Left, Holding, Writing, Local, Progress
<1>4. EndLookup(c) \/ stage[c] = "await" \/ stage[c] = "new"
  <2> USE DEF On, Continue, Await, Io, NextItem, NextText, Set, TypeOK, ControlType, Ended
  <2>1. CASE Start(c) \/ CacheWriteFails(c) \/ AwaitRequest(c) \/ Return(c)
    BY <2>1 DEF Start, CacheWriteFails, AwaitRequest, Return
  <2>2. CASE Find(c)
    BY <2>2 DEF Find, JoinOwnRequest, LookUp, LoadCacheEntry, TakeHit, Deny, JoinInflight, Promise
  <2>3. CASE Embed(c)
    BY <2>3 DEF Embed, TakeBatch, Answer, Refuse, Unreachable, Settle, ReleaseBatch, EndBatches,
       RejectBatch
  <2>4. CASE Write(c)
    BY <2>4 DEF Write, LoadNamespaceManifest, CountExistingEntries, TruncateManifest,
       WriteNewManifest,
              CheckEntry, TruncateEntry, WriteEntry, BumpManifest
  <2>5. QED
    BY <2>1, <2>2, <2>3, <2>4 DEF Step
<1>5. QED
  BY <1>2, <1>3, <1>4

\* The map after a step of call c, if what c has promised becomes what it was
\* without the keys it releases.
LEMMA MineKept ==
  ASSUME TypeOK, TypeOK', NEW c \in Calls, Local(c), \A p \in Procs : Owned(p), Acts(c),
         ~ Promise(c), ~ ReleaseBatch(c), ~ (stage[c] = "provider" /\ RejectBatch(c))
  PROVE  Mine(c)' = Mine(c)
<1> USE DEF Acts
<1>1. CASE TakeBatch(c)
  BY <1>1, MineOfBatch
<1>2. CASE ~ TakeBatch(c)
  <2>1. UNCHANGED <<offset, current>>
    BY <1>2, Operations
  <2>2. fresh'[c] = fresh[c]
    <3>1. CASE JoinOwnRequest(c)
      BY <3>1 DEF JoinOwnRequest
    <3>2. CASE JoinInflight(c)
      BY <3>2, JoinsOthers DEF JoinInflight, Push
    <3>3. QED
      BY <3>1, <3>2, Operations
  <2>3. stage'[c] \in Holding <=> stage[c] \in Holding
    <3> USE DEF On, Continue, Await, Io, NextItem, NextText, Set, TypeOK, ControlType, Holding, Writing
    <3>1. CASE Start(c) \/ CacheWriteFails(c) \/ AwaitRequest(c) \/ Return(c)
      BY <3>1 DEF Start, CacheWriteFails, AwaitRequest, Return
    <3>2. CASE Find(c)
      BY <3>2 DEF Find, JoinOwnRequest, LookUp, LoadCacheEntry, TakeHit, Deny, JoinInflight,
         EndLookup
    <3>3. CASE Answer(c) \/ Refuse(c) \/ Unreachable(c)
      BY <3>3 DEF Answer, Refuse, Unreachable
    <3>4. CASE Settle(c) \/ EndBatches(c)
      BY <3>4 DEF Settle, EndBatches
    <3>5. CASE Write(c)
      BY <3>5 DEF Write, LoadNamespaceManifest, CountExistingEntries, TruncateManifest,
         WriteNewManifest,
                CheckEntry, TruncateEntry, WriteEntry, BumpManifest
    <3>6. QED
      BY <1>2, <3>1, <3>2, <3>3, <3>4, <3>5 DEF Acts, Step, Embed
  <2>4. QED
    BY <2>1, <2>2, <2>3 DEF Mine, Left
<1>3. QED
  BY <1>1, <1>2

\* The releases: the rest of the requests are still to be sent.
LEMMA Released ==
  ASSUME TypeOK, TypeOK', NEW c \in Calls, Local(c),
         ReleaseBatch(c) \/ (stage[c] = "provider" /\ RejectBatch(c) /\ UNCHANGED <<current, offset, fresh>>)
  PROVE  /\ stage'[c] = "batch" /\ Mine(c)' = Left(c)
         /\ Mine(c) = Left(c) \cup ToSet(current[c]) /\ Left(c) \cap ToSet(current[c]) = {}
         /\ Release(c)
<1>1. UNCHANGED <<current, offset, fresh>> /\ stage'[c] = "batch" /\ stage[c] \in Holding /\ Release(c)
  BY DEF ReleaseBatch, RejectBatch, On, Continue, Set, TypeOK, ControlType, lookup, batching,
     Holding
<1>2. Mine(c)' = Left(c) /\ Mine(c) = Left(c) \cup ToSet(current[c])
  BY <1>1 DEF Mine, Left, Holding, Writing
<1>3. Left(c) \cap ToSet(current[c]) = {}
  BY <1>1, LeftApart
<1>4. QED
  BY <1>1, <1>2, <1>3

\* What another call has promised is as before.
LEMMA OthersMine ==
  ASSUME TypeOK, NEW c \in Calls, NEW d \in Calls, d # c, Acts(c)
  PROVE  Mine(d)' = Mine(d) /\ stage'[d] = stage[d] /\ promise'[d] = promise[d] /\ Process(d)' = Process(d)
<1>1. Same(d)
  BY OthersSame DEF Acts
<1>2. QED
  BY <1>1 DEF Same, Mine, Left, Process

\* What a call has promised is keys.
LEMMA MineKeys ==
  ASSUME TypeOK, NEW d \in Calls
  PROVE  \A k \in Mine(d) : k \in Keys
<1> SUFFICES ASSUME NEW k \in Mine(d) PROVE k \in Keys
  OBVIOUS
<1>1. fresh[d] \in Seq(Keys) /\ current[d] \in Seq(Keys)
  BY DEF TypeOK, LookupType, BatchType
<1>2. CASE k \in Left(d)
  <2>1. PICK j \in DOMAIN fresh[d] : k = fresh[d][j]
    BY <1>2 DEF Left
  <2>2. QED
    BY <1>1, <2>1, ElementOfSeq, LenProperties
<1>3. CASE k \in ToSet(current[d])
  <2>1. PICK j \in DOMAIN current[d] : k = current[d][j]
    BY <1>3 DEF ToSet
  <2>2. QED
    BY <1>1, <2>1, ElementOfSeq, LenProperties
<1>4. QED
  BY <1>2, <1>3 DEF Mine

\* A step of a call keeps the map and the promises in agreement.
LEMMA MapStep ==
  ASSUME MapInv, TypeOK', NEW c \in Calls, Acts(c)
  PROVE  (\A d \in Calls : Claimed(d)') /\ (\A q \in Procs : Owned(q)')
<1> DEFINE p == Process(c)
<1>0. /\ TypeOK /\ Local(c) /\ (\A d \in Calls : Claimed(d)) /\ (\A q \in Procs : Owned(q))
      /\ request' = request /\ p \in Procs /\ None \notin Calls
  BY StepMoves, Typing, EmbedAssumption DEF MapInv, Acts, Moves
<1>1. /\ stage'[c] # "new"
      /\ stage[c] = "new" => Mine(c) = {}
      /\ stage[c] \notin Ended
  <2>1. stage'[c] # "new" /\ stage[c] \notin Ended
    <3> USE DEF On, Continue, Await, Io, NextItem, NextText, Set, TypeOK, ControlType, Ended, Writing
    <3>1. CASE Start(c) \/ CacheWriteFails(c) \/ AwaitRequest(c) \/ Return(c)
      BY <1>0, <3>1 DEF Start, CacheWriteFails, AwaitRequest, Return
    <3>2. CASE Find(c)
      BY <1>0, <3>2 DEF Find, JoinOwnRequest, LookUp, LoadCacheEntry, TakeHit, Deny,
         JoinInflight, Promise, EndLookup
    <3>3. CASE Embed(c)
      BY <1>0, <3>3 DEF Embed, TakeBatch, Answer, Refuse, Unreachable, Settle, ReleaseBatch,
         EndBatches, RejectBatch
    <3>4. CASE Write(c)
      BY <1>0, <3>4 DEF Write, LoadNamespaceManifest, CountExistingEntries, TruncateManifest,
         WriteNewManifest,
                CheckEntry, TruncateEntry, WriteEntry, BumpManifest
    <3>5. QED
      BY <3>1, <3>2, <3>3, <3>4 DEF Step, Acts
  <2>2. ASSUME stage[c] = "new", NEW k \in Mine(c) PROVE FALSE
    <3>1. k \in Keys
      BY <1>0, <2>2, MineKeys
    <3>2. inflight[p][k] = c
      BY <1>0, <2>2 DEF Claimed, Ended
    <3>3. Alive(c)
      BY <1>0, <3>1, <3>2 DEF Owned
    <3>4. QED
      BY <2>2, <3>3 DEF Alive
  <2>3. QED
    BY <2>1, <2>2
<1>2. \A d \in Calls : d # c =>
        Mine(d)' = Mine(d) /\ stage'[d] = stage[d] /\ promise'[d] = promise[d] /\ Process(d)' = Process(d)
  BY <1>0, OthersMine
<1>3. \A d \in Calls : Process(d)' = Process(d) /\ (d # c => Alive(d)' = Alive(d))
  BY <1>0, <1>2 DEF Process, Alive
<1>4. \A d \in Calls : \A k \in Mine(d) : k \in Keys
  BY <1>0, MineKeys
<1>5. CASE Promise(c)
  <2> DEFINE key == Here(c)
  <2>1. /\ key \in Keys /\ inflight[p][key] = None
        /\ stage[c] = "decide" /\ stage'[c] = "lookup"
        /\ inflight' = [inflight EXCEPT ![p][key] = c]
        /\ promise'[c] = [promise[c] EXCEPT ![key] = "pending"]
        /\ fresh'[c] = Append(fresh[c], key) /\ UNCHANGED offset
    BY <1>0, <1>5, Typing DEF Promise, Promised, On, NextText, Continue, Set, Push, TypeOK,
       ControlType,
         LookupType, SharedType, batching
  <2> HIDE DEF key
  <2>2. Mine(c)' = Mine(c) \cup {key}
    <3>1. fresh[c] \in Seq(Keys) /\ fresh'[c] \in Seq(Keys) /\ offset[c] = 0
      BY <1>0, <2>1 DEF TypeOK, LookupType, Local, Progress, Batched, Ends, Looking
    <3>2. /\ DOMAIN fresh'[c] = 1..Len(fresh[c]) + 1 /\ DOMAIN fresh[c] = 1..Len(fresh[c])
          /\ Len(fresh[c]) \in Nat
          /\ \A k \in DOMAIN fresh[c] : fresh'[c][k] = fresh[c][k]
          /\ fresh'[c][Len(fresh[c]) + 1] = key
      BY <2>1, <3>1
    <3>3. Left(c) = {fresh[c][j] : j \in DOMAIN fresh[c]}
      BY <3>1, <3>2 DEF Left
    <3>4. Left(c)' = {fresh'[c][j] : j \in DOMAIN fresh'[c]}
      BY <2>1, <3>1, <3>2 DEF Left
    <3>5. DOMAIN fresh'[c] = DOMAIN fresh[c] \cup {Len(fresh[c]) + 1}
      BY <3>2
    <3>6. Left(c)' = Left(c) \cup {key}
      BY <3>2, <3>3, <3>4, <3>5
    <3>7. QED
      BY <2>1, <3>6 DEF Mine, Holding, Writing
  <2>3. \A q \in Procs, k \in Keys : inflight'[q][k] = IF q = p /\ k = key THEN c ELSE inflight[q][k]
    BY <1>0, <2>1 DEF TypeOK, SharedType
  <2>4. ASSUME NEW d \in Calls PROVE Claimed(d)'
    <3>1. CASE d = c
      <4>1. \A k \in Keys : promise'[c][k] = IF k = key THEN "pending" ELSE promise[c][k]
        BY <1>0, <2>1 DEF TypeOK, SharedType
      <4>2. \A k \in Mine(c)' : k \in Keys
        BY <1>4, <2>1, <2>2
      <4>3. QED
        BY <1>0, <1>1, <1>3, <2>2, <2>3, <3>1, <4>1, <4>2 DEF Claimed
    <3>2. CASE d # c
      <4>1. Process(d) \in Procs
        BY <1>0 DEF Process, TypeOK, Request
      <4>2. QED
        BY <1>0, <1>2, <1>3, <1>4, <2>1, <2>3, <3>2, <4>1 DEF Claimed
    <3>3. QED
      BY <3>1, <3>2
  <2>5. ASSUME NEW q \in Procs PROVE Owned(q)'
    <3>1. Alive(c)'
      BY <2>1 DEF Alive, Ended
    <3>2. QED
      BY <1>0, <1>2, <1>3, <2>2, <2>3, <3>1 DEF Owned
  <2>6. QED
    BY <2>4, <2>5
<1>6. CASE ReleaseBatch(c) \/ (stage[c] = "provider" /\ RejectBatch(c) /\ UNCHANGED <<current, offset, fresh>>)
  <2>1. /\ stage'[c] = "batch" /\ Mine(c)' = Left(c)
        /\ Mine(c) = Left(c) \cup ToSet(current[c]) /\ Left(c) \cap ToSet(current[c]) = {}
        /\ Release(c)
    BY <1>0, <1>6, Released
  <2>2. \A q \in Procs, k \in Keys :
          inflight'[q][k] = IF q = p /\ k \in ToSet(current[c]) THEN None ELSE inflight[q][k]
    BY <1>0, <2>1 DEF Release, TypeOK, SharedType
  <2>3. \A k \in Keys : k \notin ToSet(current[c]) => promise'[c][k] = promise[c][k]
    BY <1>0, <1>6 DEF ReleaseBatch, RejectBatch, TypeOK, SharedType
  <2>4. ASSUME NEW d \in Calls PROVE Claimed(d)'
    <3>1. CASE d = c
      BY <1>0, <1>1, <1>3, <1>4, <2>1, <2>2, <2>3, <3>1 DEF Claimed
    <3>2. CASE d # c
      <4>1. Process(d) \in Procs
        BY <1>0 DEF Process, TypeOK, Request
      <4>2. \A k \in ToSet(current[c]) : inflight[p][k] = c
        BY <1>0, <1>1, <2>1 DEF Claimed
      <4>3. QED
        BY <1>0, <1>2, <1>3, <1>4, <2>2, <3>2, <4>1, <4>2 DEF Claimed
    <3>3. QED
      BY <3>1, <3>2
  <2>5. ASSUME NEW q \in Procs PROVE Owned(q)'
    <3>1. Alive(c)'
      BY <2>1 DEF Alive, Ended
    <3>2. QED
      BY <1>0, <1>2, <1>3, <2>1, <2>2, <3>1 DEF Owned
  <2>6. QED
    BY <2>4, <2>5
<1>7. CASE ~ Promise(c) /\ ~ ReleaseBatch(c) /\ ~ (stage[c] = "provider" /\ RejectBatch(c)) /\ UNCHANGED inflight
            /\ (UNCHANGED promise \/ Settle(c))
  <2>1. Mine(c)' = Mine(c)
    BY <1>0, <1>7, MineKept
  <2>2. \A k \in Mine(c) : promise'[c][k] \in {promise[c][k], k}
    <3>1. CASE Settle(c)
      <4>1. vectors[c][item[c]] = current[c][item[c]]
        BY <1>0, <3>1, Typing DEF Settle, On
      <4>2. QED
        BY <1>0, <1>4, <3>1, <4>1 DEF Settle, TypeOK, SharedType
    <3>2. QED
      BY <1>7, <3>1
  <2>3. Alive(c)' \/ Mine(c) = {}
    <3>1. stage'[c] \in Ended => Mine(c) = {}
      BY <1>0, <1>1, EndsEmpty
    <3>2. QED
      BY <1>1, <3>1 DEF Alive
  <2>4. ASSUME NEW d \in Calls PROVE Claimed(d)'
    BY <1>0, <1>1, <1>2, <1>3, <1>7, <2>1, <2>2 DEF Claimed
  <2>5. ASSUME NEW q \in Procs PROVE Owned(q)'
    BY <1>0, <1>2, <1>3, <1>7, <2>1, <2>3 DEF Owned
  <2>6. QED
    BY <2>4, <2>5
<1>8. QED
  <2>1. UNCHANGED <<inflight, promise>> => ~ Promise(c)
    BY <1>0, Typing DEF Promise, Promised, On, TypeOK, SharedType
  <2>2. stage[c] = "provider" => UNCHANGED <<current, offset, fresh>>
    BY <1>0, Operations DEF Acts, On, TakeBatch, JoinOwnRequest, JoinInflight, Promise
  <2>3. Settle(c) => /\ ~ Promise(c) /\ ~ ReleaseBatch(c) /\ stage[c] # "provider" /\ UNCHANGED inflight
    BY DEF Settle, ReleaseBatch, Promise, On
  <2>4. QED
    BY <1>0, <1>5, <1>6, <1>7, <2>1, <2>2, <2>3, SharedOperations DEF Acts

\* At first nobody has promised anything.
LEMMA MapInit == Init => MapInv
<1> SUFFICES ASSUME Init PROVE MapInv
  OBVIOUS
<1>1. TypeOK
  BY TypeInit
<1>2. /\ stage = [c \in Calls |-> "new"] /\ fresh = [c \in Calls |-> <<>>]
      /\ pending = [c \in Calls |-> <<>>] /\ batch = [c \in Calls |-> 0]
      /\ offset = [c \in Calls |-> 0] /\ denied = {}
      /\ promise = [c \in Calls |-> [k \in Keys |-> None]]
      /\ inflight = [p \in Procs |-> [k \in Keys |-> None]]
      /\ results = [c \in Calls |-> [i \in DOMAIN Texts(c) |-> None]]
  BY DEF Init
<1>3. ASSUME NEW c \in Calls PROVE Local(c) /\ Mine(c) = {}
  <2>1. fresh[c] = <<>> /\ fresh[c] \in Seq(Keys) /\ Len(fresh[c]) = 0 /\ DOMAIN fresh[c] = {} /\ DOMAIN pending[c] = {}
    BY <1>1, <1>2 DEF TypeOK, LookupType
  <2>2. AtText(c) /\ AtItem(c) /\ Denies(c) /\ Found(c) /\ Resolved(c) /\ Answered(c)
    BY <1>2 DEF AtText, AtItem, Denies, Found, Resolved, Answered, Writing
  <2>3. Asked(c) /\ EachOnce(c) /\ Taken(c) /\ Mine(c) = {}
    BY <1>2, <2>1 DEF Asked, EachOnce, Taken, Mine, Left, Holding, Writing
  <2>4. /\ Batches(c) \in Seq(Seq(Keys))
        /\ \E end \in [0..Len(Batches(c)) -> 0..Len(fresh[c])] : Ends(end, Batches(c), Len(fresh[c]))
    BY <2>1, BatchesPartition DEF Batches
  <2>5. Batched(c) /\ batch[c] <= Len(Batches(c))
    <3>1. PICK end \in [0..Len(Batches(c)) -> 0..Len(fresh[c])] : Ends(end, Batches(c), Len(fresh[c]))
      BY <2>4
    <3>2. batch[c] = 0 /\ offset[c] = 0 /\ Len(Batches(c)) \in Nat
      BY <1>2, <2>4
    <3>3. QED
      BY <3>1, <3>2 DEF Batched, Ends
  <2>6. Progress(c)
    BY <1>2, <2>5 DEF Progress
  <2>7. QED
    BY <2>2, <2>3, <2>6 DEF Local
<1>4. \A c \in Calls : Claimed(c)
  BY <1>3 DEF Claimed
<1>5. \A p \in Procs : Owned(p)
  BY <1>2, EmbedAssumption DEF Owned
<1>6. QED
  BY <1>1, <1>3, <1>4, <1>5 DEF MapInv

\* Touches of cached entries change nothing a call decides by.
LEMMA MapKept ==
  ASSUME MapInv,
         UNCHANGED <<request, stage, turn, shared, lookup, batching, item>>
  PROVE  MapInv'
<1> USE DEF shared, lookup, batching
<1>1. TypeOK /\ (\A c \in Calls : Local(c) /\ Claimed(c)) /\ (\A p \in Procs : Owned(p))
  BY DEF MapInv
<1>2. TypeOK'
  BY <1>1 DEF TypeOK, ControlType, LookupType, ResultType, SharedType, BatchType, Texts
<1>3. ASSUME NEW c \in Calls PROVE Local(c)'
  <2>1. Same(c)
    BY DEF Same
  <2>2. QED
    BY <1>1, <2>1, SameLocal
<1>4. \A c \in Calls : Mine(c)' = Mine(c) /\ Process(c)' = Process(c) /\ Alive(c)' = Alive(c)
  BY DEF Mine, Left, Process, Alive
<1>5. \A c \in Calls : Claimed(c)'
  BY <1>1, <1>4 DEF Claimed
<1>6. \A p \in Procs : Owned(p)'
  BY <1>1, <1>4 DEF Owned
<1>7. QED
  BY <1>2, <1>3, <1>5, <1>6 DEF MapInv

\* An exit takes the map along with the calls.
LEMMA ExitStep ==
  ASSUME MapInv, NEW p \in Procs, Exit(p)
  PROVE  MapInv'
<1>1. TypeOK /\ (\A c \in Calls : Local(c) /\ Claimed(c)) /\ (\A q \in Procs : Owned(q))
  BY DEF MapInv
<1>2. /\ UNCHANGED <<request, promise, at, hit, denied, pending, fresh, results>>
      /\ UNCHANGED <<batch, offset, current, attempt, vectors, item>>
      /\ stage' = [c \in Calls |-> IF Alive(c) /\ Process(c) = p THEN "dead" ELSE stage[c]]
      /\ turn' = [turn EXCEPT ![p] = None]
      /\ inflight' = [inflight EXCEPT ![p] = [k \in Keys |-> None]]
  BY DEF Exit, Set, lookup, batching
<1>3. TypeOK'
  <2>1. ControlType'
    BY <1>1, <1>2 DEF TypeOK, ControlType, Stages, Ended
  <2>2. LookupType' /\ ResultType' /\ BatchType'
    BY <1>1, <1>2 DEF TypeOK, LookupType, ResultType, BatchType, Texts
  <2>3. SharedType'
    BY <1>1, <1>2 DEF TypeOK, SharedType
  <2>4. QED
    BY <1>1, <1>2, <2>1, <2>2, <2>3 DEF TypeOK
<1>4. ASSUME NEW c \in Calls, ~ (Alive(c) /\ Process(c) = p)
      PROVE  /\ Local(c)' /\ Mine(c)' = Mine(c) /\ stage'[c] = stage[c]
             /\ Process(c)' = Process(c) /\ promise'[c] = promise[c]
  <2>1. Same(c) /\ stage'[c] = stage[c]
    BY <1>2, <1>4 DEF Same
  <2>2. QED
    BY <1>1, <1>2, <2>1, SameLocal DEF Mine, Left, Process
<1>5. ASSUME NEW c \in Calls, Alive(c), Process(c) = p
      PROVE  Local(c)' /\ stage'[c] = "dead" /\ Process(c)' = Process(c)
  <2>1. stage'[c] = "dead"
    BY <1>2, <1>5
  <2>2. Local(c)
    BY <1>1
  <2>3. AtText(c)' /\ AtItem(c)' /\ Answered(c)' /\ Taken(c)'
    BY <2>1 DEF AtText, AtItem, Answered, Taken, Holding, Writing
  <2>4. Denies(c)' /\ Found(c)' /\ Asked(c)' /\ Resolved(c)'
    BY <1>2, <2>1, <2>2 DEF Local, Denies, Found, Asked, Resolved, Texts
  <2>5. Progress(c)' /\ EachOnce(c)'
    BY <1>2, <2>1, <2>2 DEF Local, Progress, Batched, Batches, Looking, EachOnce
  <2>6. QED
    BY <1>2, <2>1, <2>3, <2>4, <2>5 DEF Local, Process
<1>6. ASSUME NEW c \in Calls PROVE Claimed(c)'
  <2>1. CASE Alive(c) /\ Process(c) = p
    BY <1>5, <2>1 DEF Claimed, Ended
  <2>2. CASE Process(c) # p
    BY <1>1, <1>2, <1>4, <2>2 DEF Claimed, TypeOK, SharedType
  <2>3. CASE Process(c) = p /\ stage[c] \in Ended
    BY <1>4, <2>3 DEF Claimed, Alive
  <2>4. CASE Process(c) = p /\ stage[c] = "new"
    <3>1. Mine(c) = {}
      <4>1. SUFFICES ASSUME NEW k \in Mine(c) PROVE FALSE
        OBVIOUS
      <4>2. inflight[p][k] = c /\ k \in Keys
        BY <1>1, <2>4, <4>1, MineKeys DEF Claimed, Ended
      <4>3. QED
        BY <1>1, <2>4, <4>2 DEF Owned, Alive
    <3>2. QED
      BY <1>4, <2>4, <3>1 DEF Claimed, Alive
  <2>5. QED
    BY <2>1, <2>2, <2>3, <2>4 DEF Alive
<1>7. ASSUME NEW q \in Procs PROVE Owned(q)'
  <2>1. CASE q = p
    BY <1>1, <1>2, <2>1, EmbedAssumption DEF Owned, TypeOK, SharedType
  <2>2. CASE q # p
    <3>1. inflight'[q] = inflight[q]
      BY <1>1, <1>2, <2>2 DEF TypeOK, SharedType
    <3>2. QED
      BY <1>1, <1>4, <2>2, <3>1 DEF Owned, Alive
  <2>3. QED
    BY <2>1, <2>2
<1>8. QED
  BY <1>3, <1>4, <1>5, <1>6, <1>7 DEF MapInv

\* Every step keeps the invariant.
LEMMA MapNext == MapInv /\ [Next]_vars => MapInv'
<1> SUFFICES ASSUME MapInv, [Next]_vars PROVE MapInv'
  OBVIOUS
<1>1. ASSUME NEW c \in Calls, Start(c) \/ Step(c) \/ CacheWriteFails(c) PROVE MapInv'
  <2>1. TypeOK /\ Local(c) /\ Acts(c)
    BY <1>1 DEF MapInv, Acts
  <2>2. TypeOK'
    BY <1>1, <2>1, TypeStep
  <2>3. \A d \in Calls : Local(d)'
    BY <2>1, <2>2, LocalStep
  <2>4. (\A d \in Calls : Claimed(d)') /\ (\A q \in Procs : Owned(q)')
    BY <2>1, <2>2, MapStep
  <2>5. QED
    BY <2>2, <2>3, <2>4 DEF MapInv
<1>2. ASSUME NEW t, OpenTouch(t) \/ WriteTouch(t) PROVE MapInv'
  <2>1. UNCHANGED <<request, stage, turn, shared, lookup, batching, item>>
    BY <1>2 DEF OpenTouch, WriteTouch
  <2>2. QED
    BY <2>1, MapKept
<1>3. ASSUME NEW p \in Procs, Exit(p) PROVE MapInv'
  BY <1>3, ExitStep
<1>4. CASE UNCHANGED vars
  <2>1. UNCHANGED <<request, stage, turn, shared, lookup, batching, item>>
    BY <1>4 DEF vars
  <2>2. QED
    BY <2>1, MapKept
<1>5. QED
  BY <1>1, <1>2, <1>3, <1>4 DEF Next

\* The map of every process holds what its calls have promised and not released,
\* and what stands for a text is its vector.
THEOREM MapInvariance == Spec => []MapInv
BY MapInit, MapNext, PTL DEF Spec

\* No process asks the provider for a key twice at a time, and no call joins a
\* request that has failed or that nobody works on (inflightEmbeddings).
THEOREM SharedRequests == Spec => []InflightIsShared
<1>1. MapInv => InflightIsShared
  <2> SUFFICES ASSUME MapInv PROVE InflightIsShared
    OBVIOUS
  <2>1. OneRequestPerKey
    <3> SUFFICES ASSUME NEW c \in Calls, NEW d \in Calls, c # d, Process(c) = Process(d),
                        stage[c] = "provider", stage[d] = "provider",
                        NEW k \in ToSet(current[c]) \cap ToSet(current[d])
                 PROVE  FALSE
      BY DEF OneRequestPerKey
    <3>1. k \in Mine(c) /\ k \in Mine(d)
      BY DEF Mine, Holding
    <3>2. inflight[Process(c)][k] = c /\ inflight[Process(d)][k] = d
      BY <3>1 DEF MapInv, Claimed, Ended
    <3>3. QED
      BY <3>2
  <2>2. InflightIsLive
    <3> SUFFICES ASSUME NEW p \in Procs, NEW k \in Keys, inflight[p][k] # None
                 PROVE  Alive(inflight[p][k]) /\ promise[inflight[p][k]][k] \in {"pending", k}
      BY DEF InflightIsLive
    <3>1. inflight[p][k] \in Calls
      BY DEF MapInv, TypeOK, SharedType
    <3>2. Alive(inflight[p][k]) /\ k \in Mine(inflight[p][k])
      BY <3>1 DEF MapInv, Owned
    <3>3. QED
      BY <3>1, <3>2 DEF MapInv, Claimed, Alive
  <2>3. QED
    BY <2>1, <2>2 DEF InflightIsShared
<1>2. QED
  BY <1>1, MapInvariance, PTL

\* A call that may not reach the provider asks for nothing, promises nothing, and
\* ends well with a vector for every text only (providerOnCacheMiss "deny").
THEOREM DeniedCalls == Spec => []DeniedStayLocal
<1>1. MapInv => DeniedStayLocal
  <2> SUFFICES ASSUME MapInv, NEW c \in Calls, request[c].deny
               PROVE  /\ pending[c] = <<>>
                      /\ stage[c] = "done" => None \notin {results[c][i] : i \in DOMAIN Texts(c)}
                      /\ \A p \in Procs, k \in Keys : inflight[p][k] # c
    BY DEF DeniedStayLocal
  <2>1. pending[c] = <<>> /\ fresh[c] = <<>> /\ Local(c)
    BY DEF MapInv, Local, Denies
  <2>2. stage[c] = "done" => None \notin {results[c][i] : i \in DOMAIN Texts(c)}
    BY DEF MapInv, Local, Denies
  <2>3. Mine(c) = {}
    <3>1. DOMAIN fresh[c] = {}
      BY <2>1
    <3>2. stage[c] \in Holding => DOMAIN current[c] = {}
      BY <2>1, <3>1 DEF Local, Taken
    <3>3. QED
      BY <3>1, <3>2 DEF Mine, Left, ToSet
  <2>4. QED
    BY <2>1, <2>2, <2>3 DEF MapInv, Owned
<1>2. QED
  BY <1>1, MapInvariance, PTL

\* A call that ends well returns for each text the vector of that text.
THEOREM RightVectors == Spec => []VectorsMatchTexts
<1>1. MapInv => VectorsMatchTexts
  <2> SUFFICES ASSUME MapInv, NEW c \in Calls, stage[c] = "done"
               PROVE  results[c] = Texts(c)
    BY DEF VectorsMatchTexts
  <2>1. \A i \in DOMAIN Texts(c) : results[c][i] = Texts(c)[i]
    BY DEF MapInv, Local, Found, Denies
  <2>2. results[c] \in [DOMAIN Texts(c) -> Keys \cup {None}]
    BY DEF MapInv, TypeOK, ResultType
  <2>3. Texts(c) \in [DOMAIN Texts(c) -> Keys]
    <3>1. Texts(c) \in Seq(Keys)
      BY DEF MapInv, TypeOK, Texts, Request
    <3>2. QED
      BY <3>1, LenProperties
  <2>4. QED
    BY <2>1, <2>2, <2>3
<1>2. QED
  BY <1>1, MapInvariance, PTL

-----------------------------------------------------------------------------
(* The cache *)

\* No entry ever goes away.
Grown ==
    \/ entry' = entry
    \/ \E key, file : file \in {"torn", "whole"} /\ entry' = [entry EXCEPT ![key] = file]

\* They do not: the count never goes down, with or without one key.
LEMMA EntriesGrow ==
  ASSUME EntryType, Grown
  PROVE  /\ entry' \in [Keys -> {"missing", "torn", "whole"}] /\ IsFiniteSet(Present')
         /\ Cardinality(Present) \in Nat /\ Cardinality(Present') \in Nat
         /\ Cardinality(Present) <= Cardinality(Present')
         /\ \A k \in Keys : entry[k] # "missing" => entry'[k] # "missing"
         /\ \A k : /\ Cardinality(Present \ {k}) \in Nat /\ Cardinality(Present' \ {k}) \in Nat
                   /\ Cardinality(Present \ {k}) <= Cardinality(Present' \ {k})
<1>1. entry \in [Keys -> {"missing", "torn", "whole"}] /\ IsFiniteSet(Present)
  BY DEF EntryType
<1>2. /\ entry' \in [Keys -> {"missing", "torn", "whole"}]
      /\ \A k \in Keys : entry[k] # "missing" => entry'[k] # "missing"
      /\ \E key : \A k \in Keys : k # key => entry'[k] = entry[k]
  BY <1>1 DEF Grown
<1>3. PICK key : Present' \subseteq Present \cup {key}
  BY <1>1, <1>2 DEF Present
<1>4. Present \subseteq Present'
  BY <1>2 DEF Present
<1>5. IsFiniteSet(Present \cup {key})
  BY <1>1, FS_AddElement
<1>6. IsFiniteSet(Present')
  BY <1>3, <1>5, FS_Subset
<1>7. \A T : T \subseteq Present' => Cardinality(T) <= Cardinality(Present') /\ IsFiniteSet(T)
  BY <1>6, FS_Subset
<1>8. \A k : IsFiniteSet(Present \ {k}) /\ IsFiniteSet(Present' \ {k}) /\ Present \ {k} \subseteq Present' \ {k}
  BY <1>4, <1>7
<1>9. \A k : Cardinality(Present \ {k}) <= Cardinality(Present' \ {k})
  BY <1>8, FS_Subset
<1>10. QED
  BY <1>1, <1>2, <1>4, <1>6, <1>7, <1>8, <1>9, FS_CardinalityType

\* Which operation of a call changes what of the cache.
LEMMA CacheOperations ==
  ASSUME TypeOK, EntryType, NEW c \in Calls, Acts(c)
  PROVE  /\ Grown
         /\ \A d \in Calls : d # c => counted'[d] = counted[d] /\ existed'[d] = existed[d]
         /\ DOMAIN existed' = Calls
         /\ UNCHANGED existed \/ CheckEntry(c)
         /\ UNCHANGED counted \/ LoadNamespaceManifest(c) \/ CountExistingEntries(c)
         /\ UNCHANGED manifest \/ manifest' = None \/ WriteNewManifest(c) \/ BumpManifest(c)
         /\ UNCHANGED faults \/ CacheWriteFails(c)
<1> USE DEF EntryType, Set, writing, disk
<1>1. CASE Start(c) \/ AwaitRequest(c) \/ Return(c)
  BY <1>1 DEF Grown, Start, AwaitRequest, Return
<1>2. CASE CacheWriteFails(c)
  BY <1>2 DEF Grown, CacheWriteFails
<1>3. CASE Find(c)
  BY <1>3 DEF Grown, Find, JoinOwnRequest, LookUp, LoadCacheEntry, TakeHit, Deny, JoinInflight,
     Promise, EndLookup
<1>4. CASE Embed(c)
  BY <1>4 DEF Grown, Embed, TakeBatch, Answer, Refuse, Unreachable, Settle, ReleaseBatch, EndBatches
<1>5. CASE LoadNamespaceManifest(c) \/ CountExistingEntries(c)
  BY <1>5 DEF Grown, LoadNamespaceManifest, CountExistingEntries
<1>6. CASE TruncateManifest(c) \/ WriteNewManifest(c) \/ BumpManifest(c)
  BY <1>6 DEF Grown, TruncateManifest, WriteNewManifest, BumpManifest
<1>7. CASE CheckEntry(c)
  <2>1. UNCHANGED <<disk, counted, faults>> /\ existed' = [existed EXCEPT ![c] = entry[Item(c)] # "missing"]
    BY <1>7 DEF CheckEntry
  <2>2. DOMAIN existed' = Calls /\ \A d \in Calls : d # c => existed'[d] = existed[d]
    BY <2>1, Zenon DEF EntryType
  <2>3. QED
    BY <1>7, <2>1, <2>2 DEF Grown
<1>8. CASE TruncateEntry(c) \/ WriteEntry(c)
  <2>1. Grown
    BY <1>8 DEF Grown, TruncateEntry, WriteEntry, Written
  <2>2. QED
    BY <1>8, <2>1 DEF TruncateEntry, WriteEntry
<1>9. QED
  BY <1>1, <1>2, <1>3, <1>4, <1>5, <1>6, <1>7, <1>8 DEF Acts, Step, Write

\* A count that was read leaves room for the entry it is read for.
LEMMA RoomStep ==
  ASSUME TypeOK, TypeOK', CacheInv, NEW c \in Calls, Local(c), Acts(c)
  PROVE  Room(c)'
<1> USE DEF Writing
<1>0. /\ EntryType /\ CountIsLowerBound /\ Room(c) /\ Grown /\ counted \in [Calls -> Nat]
      /\ manifest \in Nat \cup {None} /\ stage \in [Calls -> Stages] /\ DOMAIN existed = Calls
      /\ entry \in [Keys -> {"missing", "torn", "whole"}]
  BY CacheOperations DEF CacheInv, EntryType, TypeOK, ControlType
<1>1. /\ Cardinality(Present) \in Nat /\ Cardinality(Present') \in Nat
      /\ Cardinality(Present) <= Cardinality(Present')
      /\ \A k \in Keys : entry[k] # "missing" => entry'[k] # "missing"
      /\ \A k : /\ Cardinality(Present \ {k}) \in Nat /\ Cardinality(Present' \ {k}) \in Nat
                /\ Cardinality(Present \ {k}) <= Cardinality(Present' \ {k})
  BY <1>0, EntriesGrow
<1>2. stage[c] \in Writing => Item(c) \in Keys
  <2>1. current[c] \in Seq(Keys)
    BY DEF TypeOK, BatchType
  <2>2. QED
    BY <2>1, ElementOfSeq, LenProperties DEF Local, AtItem, Item
<1>3. CASE ~ Write(c)
  <2> USE DEF On, Continue, Await, Io, NextItem, NextText, Set, Ended
  <2>1. stage'[c] \notin Writing \ {"ensure"}
    <3>1. CASE Start(c) \/ CacheWriteFails(c) \/ AwaitRequest(c) \/ Return(c)
      BY <1>0, <3>1 DEF Start, CacheWriteFails, AwaitRequest, Return
    <3>2. CASE Find(c)
      BY <1>0, <3>2 DEF Find, JoinOwnRequest, LookUp, LoadCacheEntry, TakeHit, Deny,
         JoinInflight, Promise, EndLookup
    <3>3. CASE Embed(c)
      BY <1>0, <3>3 DEF Embed, TakeBatch, Answer, Refuse, Unreachable, Settle, ReleaseBatch,
         EndBatches, RejectBatch
    <3>4. QED
      BY <1>3, <3>1, <3>2, <3>3 DEF Step, Acts
  <2>2. QED
    BY <2>1 DEF Room
<1>4. CASE LoadNamespaceManifest(c)
  <2>1. /\ (stage'[c] = "check" /\ counted'[c] = manifest /\ manifest # None) \/ stage'[c] = "count"
        /\ UNCHANGED entry
    BY <1>0, <1>4 DEF LoadNamespaceManifest, Io, Set, disk
  <2>2. QED
    BY <1>0, <1>1, <2>1 DEF Room, CountIsLowerBound
<1>5. CASE CountExistingEntries(c)
  <2>1. stage'[c] = "create" /\ counted'[c] = Cardinality(Present) /\ UNCHANGED entry
    BY <1>0, <1>5 DEF CountExistingEntries, Io, Set, disk
  <2>2. QED
    BY <1>1, <2>1 DEF Room
<1>6. CASE TruncateManifest(c) \/ WriteNewManifest(c)
  <2>1. /\ <<stage[c], stage'[c]>> \in {<<"create", "fill">>, <<"recreate", "refill">>, <<"fill", "check">>}
        /\ UNCHANGED <<entry, counted, existed, item, current>>
    BY <1>0, <1>6 DEF TruncateManifest, WriteNewManifest, Io, Set, writing, batching
  <2>2. Present' = Present /\ Item(c)' = Item(c)
    BY <2>1 DEF Present, Item
  <2>3. QED
    BY <1>0, <2>1, <2>2 DEF Room
<1>7. CASE CheckEntry(c)
  <2>1. stage[c] = "check" /\ stage'[c] = "open" /\ UNCHANGED <<entry, counted, item, current>>
    BY <1>0, <1>7 DEF CheckEntry, Io, Set, disk, batching
  <2>2. existed'[c] = (entry[Item(c)] # "missing")
    <3>1. existed' = [existed EXCEPT ![c] = entry[Item(c)] # "missing"]
      BY <1>7 DEF CheckEntry, Set
    <3>2. QED
      BY <1>0, <3>1, Zenon
  <2>3. Present' = Present /\ Item(c)' = Item(c)
    BY <2>1 DEF Present, Item
  <2>4. ~ existed'[c] => Present \ {Item(c)} = Present
    BY <2>2 DEF Present
  <2>5. QED
    BY <1>0, <2>1, <2>3, <2>4 DEF Room
<1>8. CASE TruncateEntry(c)
  <2>1. /\ stage[c] = "open" /\ stage'[c] = "write" /\ UNCHANGED <<counted, existed, item, current>>
        /\ entry' = [entry EXCEPT ![Item(c)] = "torn"]
    BY <1>0, <1>8 DEF TruncateEntry, Io, Set, writing, batching
  <2>2. Item(c)' = Item(c) /\ Item(c) \in Keys /\ entry'[Item(c)] = "torn"
    BY <1>0, <1>2, <2>1 DEF Item
  <2>3. Present' = (Present \ {Item(c)}) \cup {Item(c)}
    BY <1>0, <2>1, <2>2 DEF Present
  <2>4. IsFiniteSet(Present \ {Item(c)})
    BY <1>0, FS_Subset DEF EntryType
  <2>5. Cardinality(Present') = Cardinality(Present \ {Item(c)}) + 1
    BY <2>3, <2>4, FS_AddElement
  <2> DEFINE n == Cardinality(Present')
             u == Cardinality(Present \ {Item(c)})
  <2>6. n = u + 1 /\ n \in Nat /\ u \in Nat /\ (~ existed[c] => counted[c] <= u)
        /\ counted[c] <= Cardinality(Present) /\ Cardinality(Present) <= n
    BY <1>0, <1>1, <2>1, <2>5 DEF Room
  <2>7. counted'[c] \in Nat /\ counted'[c] <= n /\ (~ existed'[c] => counted'[c] + 1 <= n)
    <3>1. counted[c] \in Nat /\ counted'[c] = counted[c] /\ existed'[c] = existed[c]
      BY <1>0, <2>1
    <3>2. Cardinality(Present) \in Nat
      BY <1>1
    <3> HIDE DEF n, u
    <3>3. QED
      BY <2>6, <3>1, <3>2
  <2>8. stage'[c] = "write" /\ entry'[Item(c)] # "missing" /\ Item(c)' = Item(c)
    BY <2>1, <2>2
  <2>9. QED
    BY <2>7, <2>8 DEF Room
<1>9. CASE WriteEntry(c)
  <2>1. /\ stage[c] = "write" /\ UNCHANGED <<counted, existed, current>>
        /\ stage'[c] = "settle" \/ (stage'[c] = "recreate" /\ ~ existed[c] /\ UNCHANGED item)
    BY <1>0, <1>9 DEF WriteEntry, NextItem, Io, Set, writing, batching
  <2>2. CASE stage'[c] = "settle"
    BY <2>2 DEF Room
  <2>3. CASE stage'[c] = "recreate" /\ ~ existed[c] /\ UNCHANGED item
    <3>1. Item(c)' = Item(c) /\ Item(c) \in Keys
      BY <1>2, <2>1, <2>3 DEF Item
    <3>2. QED
      BY <1>0, <1>1, <2>1, <2>3, <3>1 DEF Room
  <2>4. QED
    BY <2>1, <2>2, <2>3
<1>10. CASE BumpManifest(c)
  BY <1>0, <1>10 DEF BumpManifest, NextItem, Io, Set, Room
<1>11. QED
  BY <1>3, <1>4, <1>5, <1>6, <1>7, <1>8, <1>9, <1>10 DEF Write

\* A vector that was received has an entry, or is about to have one.
LEMMA PaidStep ==
  ASSUME TypeOK, TypeOK', CacheInv, NEW c \in Calls, Local(c), Acts(c), NEW k \in Keys
  PROVE  Paid(c, k)'
<1> DEFINE Before == {"ensure", "count", "create", "fill", "check", "open"}
<1>0. /\ EntryType /\ Paid(c, k) /\ Grown /\ request' = request /\ stage \in [Calls -> Stages]
      /\ promise \in [Calls -> [Keys -> Keys \cup {None, "pending", "error"}]]
      /\ faults \in Nat /\ Local(c) /\ entry \in [Keys -> {"missing", "torn", "whole"}]
  BY CacheOperations, StepMoves DEF CacheInv, EntryType, TypeOK, ControlType, SharedType, Moves,
     Acts
<1>1. entry[k] # "missing" => entry'[k] # "missing"
  BY <1>0, EntriesGrow
<1>2. Item(c) \in Keys \/ stage[c] \notin Writing
  <2>1. current[c] \in Seq(Keys)
    BY DEF TypeOK, BatchType
  <2>2. QED
    BY <2>1, ElementOfSeq, LenProperties DEF Local, AtItem, Item
<1>3. CASE CacheWriteFails(c)
  BY <1>0, <1>3 DEF CacheWriteFails, Paid
<1>4. CASE Settle(c)
  <2>1. /\ UNCHANGED <<current, entry, faults>> /\ stage[c] = "settle"
        /\ promise' = [promise EXCEPT ![c][current[c][item[c]]] = vectors[c][item[c]]]
        /\ request[c].mode = "readwrite" => stage'[c] = "ensure" /\ UNCHANGED item
    BY <1>0, <1>4 DEF Settle, On, Await, Set, batching, disk
  <2>2. k # current[c][item[c]] => promise'[c][k] = promise[c][k]
    BY <1>0, <2>1
  <2>3. QED
    BY <1>0, <2>1, <2>2 DEF Paid, Item
<1>5. CASE Write(c)
  <2>1. UNCHANGED <<promise, current, faults>>
    BY <1>5 DEF Write, LoadNamespaceManifest, CountExistingEntries, TruncateManifest,
       WriteNewManifest,
              CheckEntry, TruncateEntry, WriteEntry, BumpManifest, shared, batching
  <2>2. stage[c] \in Before => (UNCHANGED item /\ stage'[c] \in Before) \/ TruncateEntry(c)
    BY <1>0, <1>5 DEF Write, LoadNamespaceManifest, CountExistingEntries, TruncateManifest,
       WriteNewManifest,
              CheckEntry, WriteEntry, BumpManifest, NextItem, Io, Set
  <2>3. TruncateEntry(c) => stage[c] = "open" /\ entry' = [entry EXCEPT ![Item(c)] = "torn"]
    BY DEF TruncateEntry, Set, Io
  <2>4. TruncateEntry(c) /\ k = Item(c) => entry'[k] # "missing"
    BY <1>0, <2>3
  <2>5. QED
    BY <1>0, <1>1, <2>1, <2>2, <2>4 DEF Paid, Item
<1>6. CASE ~ Write(c) /\ ~ Settle(c) /\ ~ CacheWriteFails(c)
  <2> USE DEF On, Continue, Await, Io, NextItem, NextText, Set, Ended
  <2>1. UNCHANGED <<entry, faults>> /\ stage[c] \notin Before
    <3>1. CASE Start(c) \/ AwaitRequest(c) \/ Return(c)
      BY <1>0, <3>1 DEF Start, AwaitRequest, Return, disk
    <3>2. CASE Find(c)
      BY <1>0, <3>2 DEF Find, JoinOwnRequest, LookUp, LoadCacheEntry, TakeHit, Deny,
         JoinInflight, Promise, EndLookup, disk
    <3>3. CASE Embed(c)
      BY <1>0, <1>6, <3>3 DEF Embed, TakeBatch, Answer, Refuse, Unreachable, ReleaseBatch,
         EndBatches, disk
    <3>4. QED
      BY <1>6, <3>1, <3>2, <3>3 DEF Step, Acts
  <2>2. promise'[c][k] = promise[c][k] \/ promise'[c][k] \notin Keys
    <3>1. "pending" \notin Keys /\ "error" \notin Keys
      BY EmbedAssumption
    <3>2. CASE Promise(c)
      BY <1>0, <3>1, <3>2 DEF Promise
    <3>3. CASE RejectBatch(c)
      BY <1>0, <3>1, <3>3 DEF RejectBatch
    <3>4. CASE UNCHANGED promise
      BY <3>4
    <3>5. QED
      BY <1>6, <3>2, <3>3, <3>4, SharedOperations DEF Acts, ReleaseBatch
  <2>3. QED
    BY <1>0, <2>1, <2>2 DEF Paid
<1>7. QED
  BY <1>3, <1>4, <1>5, <1>6

\* What is the calls' own about the cache stays while entries are added.
LEMMA CacheOfOthers ==
  ASSUME CacheInv, Grown, faults' = faults \/ faults' = faults + 1, NEW d \in Calls,
         request' = request, stage'[d] = stage[d], promise'[d] = promise[d], Item(d)' = Item(d),
         counted'[d] = counted[d], existed'[d] = existed[d], AtItem(d), current[d] \in Seq(Keys)
  PROVE  Room(d)' /\ \A k \in Keys : Paid(d, k)'
<1>1. /\ EntryType /\ Room(d) /\ counted[d] \in Nat /\ faults \in Nat
      /\ entry \in [Keys -> {"missing", "torn", "whole"}]
      /\ \A k \in Keys : Paid(d, k)
  BY DEF CacheInv, EntryType
<1>2. /\ Cardinality(Present) \in Nat /\ Cardinality(Present') \in Nat
      /\ Cardinality(Present) <= Cardinality(Present')
      /\ \A k \in Keys : entry[k] # "missing" => entry'[k] # "missing"
      /\ \A k : /\ Cardinality(Present \ {k}) \in Nat /\ Cardinality(Present' \ {k}) \in Nat
                /\ Cardinality(Present \ {k}) <= Cardinality(Present' \ {k})
  BY <1>1, EntriesGrow
<1>3. Item(d)' = Item(d) /\ stage'[d] = stage[d] /\ request' = request /\ promise'[d] = promise[d]
  OBVIOUS
<1>4. stage[d] \in Writing => Item(d) \in Keys
  BY ElementOfSeq, LenProperties DEF AtItem, Item
<1>5. Room(d)'
  <2> DEFINE i == Item(d)
             m == Cardinality(Present)
             n == Cardinality(Present')
             u == Cardinality(Present \ {i})
             v == Cardinality(Present' \ {i})
  <2>1. m \in Nat /\ n \in Nat /\ m <= n /\ u \in Nat /\ v \in Nat /\ u <= v
    BY <1>2
  <2>2. /\ stage[d] \in Writing \ {"ensure", "count"} => counted[d] <= m
        /\ stage[d] = "open" /\ ~ existed[d] => counted[d] <= u
        /\ stage[d] \in {"write", "recreate", "refill"} => entry[i] # "missing"
        /\ stage[d] \in {"write", "recreate", "refill"} /\ ~ existed[d] => counted[d] + 1 <= m
        /\ stage[d] \in {"recreate", "refill"} => ~ existed[d]
    BY <1>1 DEF Room
  <2>3. stage[d] \in {"write", "recreate", "refill"} => entry'[i] # "missing"
    BY <1>2, <1>4, <2>2 DEF Writing
  <2>4. Room(d)' = (
        /\ stage'[d] \in Writing \ {"ensure", "count"} => counted'[d] <= n
        /\ stage'[d] = "open" /\ ~ existed'[d] => counted'[d] <= v
        /\ stage'[d] \in {"write", "recreate", "refill"} => entry'[i] # "missing"
        /\ stage'[d] \in {"write", "recreate", "refill"} /\ ~ existed'[d] => counted'[d] + 1 <= n
        /\ stage'[d] \in {"recreate", "refill"} => ~ existed'[d])
    BY <1>3 DEF Room
  <2> HIDE DEF i, m, n, u, v
  <2>5. counted[d] \in Nat
    BY <1>1
  <2>6. counted[d] <= m => counted[d] <= n
    BY <2>1, <2>5
  <2>7. counted[d] <= u => counted[d] <= v
    BY <2>1, <2>5
  <2>8. counted[d] + 1 <= m => counted[d] + 1 <= n
    BY <2>1, <2>5
  <2>9. QED
    BY <1>3, <2>2, <2>3, <2>4, <2>6, <2>7, <2>8
<1>6. \A k \in Keys : Paid(d, k)'
  BY <1>1, <1>2, <1>3 DEF Paid
<1>7. QED
  BY <1>5, <1>6

\* A step of a call keeps the cache and its manifest in agreement.
LEMMA CacheStep ==
  ASSUME MapInv, TypeOK', CacheInv, NEW c \in Calls, Acts(c)
  PROVE  CacheInv'
<1>0. /\ TypeOK /\ Local(c) /\ EntryType /\ Grown /\ CountIsLowerBound /\ Room(c)
      /\ manifest \in Nat \cup {None} /\ faults \in Nat /\ counted \in [Calls -> Nat]
      /\ stage \in [Calls -> Stages]
  BY CacheOperations DEF MapInv, CacheInv, EntryType, TypeOK, ControlType
<1>1. /\ entry' \in [Keys -> {"missing", "torn", "whole"}] /\ IsFiniteSet(Present')
      /\ Cardinality(Present) \in Nat /\ Cardinality(Present') \in Nat
      /\ Cardinality(Present) <= Cardinality(Present')
  BY <1>0, EntriesGrow
<1>2. EntryType'
  <2>1. counted' \in [Calls -> Nat]
    <3>1. CASE LoadNamespaceManifest(c)
      BY <1>0, <3>1 DEF LoadNamespaceManifest, Set
    <3>2. CASE CountExistingEntries(c)
      BY <1>0, <1>1, <3>2 DEF CountExistingEntries, Set
    <3>3. QED
      BY <1>0, <3>1, <3>2, CacheOperations
  <2>2. QED
    BY <1>0, <1>1, <2>1, CacheOperations DEF EntryType
<1>3. manifest' \in Nat \cup {None} /\ CountIsLowerBound'
  <2>1. CASE UNCHANGED manifest \/ manifest' = None
    BY <1>0, <1>1, <2>1 DEF CountIsLowerBound
  <2>2. CASE WriteNewManifest(c)
    <3>1. stage[c] = "fill" /\ manifest' \in {counted[c], None}
      BY <2>2 DEF WriteNewManifest, Io, Written
    <3>2. QED
      BY <1>0, <1>1, <3>1 DEF CountIsLowerBound, Room, Writing
  <2>3. CASE BumpManifest(c)
    <3>1. stage[c] = "refill" /\ manifest' \in {counted[c] + 1, None}
      BY <2>3 DEF BumpManifest, NextItem, Io, Written
    <3>2. QED
      BY <1>0, <1>1, <3>1 DEF CountIsLowerBound, Room, Writing
  <2>4. QED
    BY <1>0, <2>1, <2>2, <2>3, CacheOperations
<1>4. faults' = faults \/ faults' = faults + 1
  BY <1>0, CacheOperations DEF CacheWriteFails
<1>5. ASSUME NEW d \in Calls PROVE Room(d)' /\ \A k \in Keys : Paid(d, k)'
  <2>1. CASE d = c
    BY <1>0, <2>1, RoomStep, PaidStep
  <2>2. CASE d # c
    <3>1. Same(d)
      BY <1>0, <2>2, OthersSame DEF Acts
    <3>2. counted'[d] = counted[d] /\ existed'[d] = existed[d]
      BY <1>0, <2>2, CacheOperations
    <3>3. AtItem(d) /\ current[d] \in Seq(Keys)
      BY DEF MapInv, Local, TypeOK, BatchType
    <3>4. request' = request /\ stage'[d] = stage[d] /\ promise'[d] = promise[d] /\ Item(d)' = Item(d)
      BY <3>1 DEF Same, Item
    <3>5. QED
      BY <1>0, <1>4, <3>2, <3>3, <3>4, CacheOfOthers
  <2>3. QED
    BY <2>1, <2>2
<1>6. QED
  BY <1>0, <1>2, <1>3, <1>4, <1>5 DEF CacheInv

\* The manifest of an old cache counts its entries.
LEMMA CacheInit == Init => CacheInv
<1> SUFFICES ASSUME Init PROVE CacheInv
  OBVIOUS
<1>1. PICK kept \in Stored :
        /\ entry = [k \in Keys |-> IF k \in kept THEN "whole" ELSE "missing"]
        /\ manifest = IF kept = {} THEN None ELSE Cardinality(kept)
  BY DEF Init
<1>2. kept \subseteq Keys /\ IsFiniteSet(kept) /\ Present = kept
  BY <1>1, EmbedAssumption DEF Present
<1>3. Cardinality(kept) \in Nat
  BY <1>2, FS_CardinalityType
<1>4. EntryType
  BY <1>1, <1>2 DEF Init, EntryType
<1>5. manifest \in Nat \cup {None} /\ CountIsLowerBound
  BY <1>1, <1>2, <1>3 DEF CountIsLowerBound
<1>6. \A c \in Calls : Room(c) /\ \A k \in Keys : Paid(c, k)
  BY EmbedAssumption DEF Init, Room, Paid, Writing
<1>7. QED
  BY <1>4, <1>5, <1>6 DEF CacheInv, Init

\* Every step keeps the invariant of the cache.
LEMMA CacheNext == MapInv /\ CacheInv /\ [Next]_vars => CacheInv'
<1> SUFFICES ASSUME MapInv, CacheInv, [Next]_vars PROVE CacheInv'
  OBVIOUS
<1>1. ASSUME NEW c \in Calls, Start(c) \/ Step(c) \/ CacheWriteFails(c) PROVE CacheInv'
  <2>1. TypeOK'
    BY MapNext DEF MapInv
  <2>2. QED
    BY <1>1, <2>1, CacheStep DEF Acts
\* Steps of no call add entries at most, and those that end calls count.
<1>2. ASSUME Grown, UNCHANGED <<manifest, writing, promise, request, item, current>>,
             \/ UNCHANGED <<stage, faults>>
             \/ /\ faults' = faults + 1
                /\ \A c \in Calls : stage'[c] = stage[c] \/ stage'[c] = "dead"
      PROVE  CacheInv'
  <2>1. /\ EntryType /\ CountIsLowerBound /\ faults \in Nat /\ manifest \in Nat \cup {None}
        /\ entry \in [Keys -> {"missing", "torn", "whole"}] /\ counted \in [Calls -> Nat]
        /\ UNCHANGED <<counted, existed>>
    BY <1>2 DEF CacheInv, EntryType, writing
  <2>2. /\ entry' \in [Keys -> {"missing", "torn", "whole"}] /\ IsFiniteSet(Present')
        /\ Cardinality(Present) \in Nat /\ Cardinality(Present') \in Nat
        /\ Cardinality(Present) <= Cardinality(Present')
        /\ \A k \in Keys : entry[k] # "missing" => entry'[k] # "missing"
        /\ \A k : /\ Cardinality(Present \ {k}) \in Nat /\ Cardinality(Present' \ {k}) \in Nat
                  /\ Cardinality(Present \ {k}) <= Cardinality(Present' \ {k})
    BY <1>2, <2>1, EntriesGrow
  <2>3. EntryType' /\ faults' \in Nat
    BY <1>2, <2>1, <2>2 DEF EntryType
  <2>4. manifest' \in Nat \cup {None} /\ CountIsLowerBound'
    BY <1>2, <2>1, <2>2 DEF CountIsLowerBound
  <2>5. ASSUME NEW c \in Calls PROVE Room(c)' /\ \A k \in Keys : Paid(c, k)'
    <3>1. Item(c)' = Item(c)
      BY <1>2 DEF Item
    <3>2. AtItem(c) /\ current[c] \in Seq(Keys)
      BY DEF MapInv, Local, TypeOK, BatchType
    <3>3. CASE stage'[c] = stage[c]
      BY <1>2, <2>1, <3>1, <3>2, <3>3, CacheOfOthers
    <3>4. CASE stage'[c] = "dead" /\ faults' = faults + 1
      BY <2>1, <3>4 DEF Room, Paid, Writing
    <3>5. QED
      BY <1>2, <3>3, <3>4
  <2>6. QED
    BY <2>3, <2>4, <2>5 DEF CacheInv
<1>3. ASSUME NEW t, OpenTouch(t) \/ WriteTouch(t) PROVE CacheInv'
  <2>1. Grown
    BY <1>3 DEF OpenTouch, WriteTouch, Written, Set, Grown
  <2>2. QED
    BY <1>2, <1>3, <2>1 DEF OpenTouch, WriteTouch, shared, batching
<1>4. ASSUME NEW p \in Procs, Exit(p) PROVE CacheInv'
  <2>1. Grown /\ \A c \in Calls : stage'[c] = stage[c] \/ stage'[c] = "dead"
    BY <1>4 DEF Exit, Grown, disk
  <2>2. QED
    BY <1>2, <1>4, <2>1 DEF Exit, disk, batching
<1>5. CASE UNCHANGED vars
  BY <1>2, <1>5 DEF vars, Grown, disk, shared, batching
<1>6. QED
  BY <1>1, <1>3, <1>4, <1>5 DEF Next

\* What was paid for is in the cache unless a write failed or a process ended, and
\* entryCount is at most the number of entries (writeCacheEntry).
THEOREM HonestCache == Spec => []CacheIsHonest
<1>1. CacheInv => CacheIsHonest
  BY DEF CacheInv, CacheIsHonest, PaidIsCached, Paid, Ended
<1>2. Spec => []CacheInv
  BY CacheInit, CacheNext, MapInvariance, PTL DEF Spec
<1>3. QED
  BY <1>1, <1>2, PTL
=============================================================================
