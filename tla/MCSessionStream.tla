-------------------------- MODULE MCSessionStream --------------------------
(* Two clients, a producer of output and one of keyframes; a ring that     *)
(* overflows, and channels that do.                                        *)
EXTENDS SessionStream, TLC

CONSTANTS c1, c2, p1, p2

MCPublishes == [p \in Producer |-> IF p = p1 THEN {"output"} ELSE {"keyframe"}]

\* Rings of up to three entries in the order of their numbers.
OrderedRings ==
  UNION {{r \in [1..l -> [seq : 1..4, kind : {"output"}]] :
            \A i, j \in 1..l : i < j => r[i].seq < r[j].seq} : l \in 0..3}

Filtered(r, n) ==
  LET later(e) == e.seq >= n
      kept == SelectSeq(r, later)
  IN [i \in 1..Len(kept) |-> kept[i].seq]

\* On an ordered ring the suffix is what the filter of frames_from yields.
ASSUME SuffixIsFilter ==
  \A r \in OrderedRings, n \in 0..5 : FramesFrom(r, n) = Filtered(r, n)

Swaps == Permutations({c1, c2})

=============================================================================
