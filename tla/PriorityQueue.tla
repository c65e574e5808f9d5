--------------------------- MODULE PriorityQueue ---------------------------
(***************************************************************************)
(* The open set of findPath: a binary heap in an array, and the numbers    *)
(* that order it.  A cost a + b * sqrt(2) is the pair <<a, b>>; the double *)
(* that stands for it is the pair and the error its additions rounded to,  *)
(* in some unit.  Two sums of one cost that were added in another order    *)
(* may differ by it.  Sums of different costs are further apart than all   *)
(* errors: in a Room of n tiles by more than 1 / (6 * n), the errors being *)
(* below n * n / 10^15.                                                    *)
(***************************************************************************)
EXTENDS Integers, Sequences

Plus(c, d) == <<c[1] + d[1], c[2] + d[2]>>

\* a + b * sqrt(2) > 0.
Positive(a, b) ==
  \/ a >= 0 /\ b >= 0 /\ a + b > 0
  \/ a > 0 /\ b < 0 /\ a * a > 2 * b * b
  \/ a < 0 /\ b > 0 /\ 2 * b * b > a * a
Less(c, d) == Positive(d[1] - c[1], d[2] - c[2])

\* The double of cost c with error r is less than that of cost d with error q.
LessAsDoubles(c, r, d, q) == Less(c, d) \/ (c = d /\ r < q)

IsBetter(a, b) ==
  \/ LessAsDoubles(a.score, a.rounding, b.score, b.rounding)
  \/ a.score = b.score /\ a.rounding = b.rounding /\ Less(a.heuristic, b.heuristic)

Swap(q, i, j) == [q EXCEPT ![i] = q[j], ![j] = q[i]]

Costs == Nat \X Nat
Queues == Seq([position : Int \X Int, score : Costs, rounding : Int, heuristic : Costs])
Places == {p \in Queues \X Nat : p[2] \in 1 .. Len(p[1])}

BubbleUp[p \in Places] ==
  LET q == p[1]
      i == p[2]
  IN  IF i > 1 /\ IsBetter(q[i], q[i \div 2])
      THEN BubbleUp[<<Swap(q, i, i \div 2), i \div 2>>]
      ELSE q

\* The better of an entry and the child at j, if there is one.
Best(q, i, j) == IF j <= Len(q) /\ IsBetter(q[j], q[i]) THEN j ELSE i
BestOf(q, i) == Best(q, Best(q, i, 2 * i), 2 * i + 1)

BubbleDown[p \in Places] ==
  LET q == p[1]
      i == p[2]
  IN  IF BestOf(q, i) = i THEN q ELSE BubbleDown[<<Swap(q, i, BestOf(q, i)), BestOf(q, i)>>]

StaysLast(q, e) == Append(q, e)                                   \* (mutant)
Push(q, e) == BubbleUp[<<Append(q, e), Len(q) + 1>>]

LastFirst(q) == [SubSeq(q, 1, Len(q) - 1) EXCEPT ![1] = q[Len(q)]]
LeavesLast(q) == IF Len(q) = 1 THEN q ELSE BubbleDown[<<LastFirst(q), 1>>]  \* (mutant)
Rest(q) == IF Len(q) = 1 THEN <<>> ELSE BubbleDown[<<LastFirst(q), 1>>]
=============================================================================
