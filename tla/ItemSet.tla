-------------------------------- MODULE ItemSet --------------------------------
(****************************************************************************)
(* dolphin's KItemSet (kitemset.cpp): a set of indexes kept as a list of    *)
(* ranges, and KItemRangeList::fromSortedContainer() (kitemrange.h).        *)
(*                                                                          *)
(* A range is a record of its first index and its length.  The binary       *)
(* search of rangeForItem() and insert() is modelled by what it finds, the  *)
(* last range that begins at or before the index.                           *)
(****************************************************************************)
EXTENDS Integers, SequencesExt

KItemRange(i, c) == [index |-> i, count |-> c]
Behind(r) == r.index + r.count     \* the first index behind a range
Indexes(r) == r.index .. Behind(r) - 1

\* What a KItemSet stands for.
AsSet(s) == UNION {Indexes(r) : r \in ToSet(s)}

IsValid(s) ==
    \A k \in DOMAIN s :
        /\ s[k].count > 0
        /\ k > 1 => Behind(s[k-1]) < s[k].index

\* begin() to end(): the indexes in ascending order.
Ascending(s) == FlattenSeq([k \in DOMAIN s |-> [j \in 1 .. s[k].count |-> s[k].index + j - 1]])

\* The last range that begins at or before i, 0 when all begin behind it.
Low(s, i) == Cardinality({k \in DOMAIN s : s[k].index <= i})
ContainsItem(s, i) == Low(s, i) > 0 /\ i < Behind(s[Low(s, i)])

\* Bug: an index between two ranges extends the first and does not join them.
InsertApart(s, i) ==
    LET low == Low(s, i)
        follows == low > 0 /\ i = Behind(s[low])
        precedes == low < Len(s) /\ i = s[low + 1].index - 1
    IN IF ContainsItem(s, i) THEN s
       ELSE IF follows THEN ReplaceAt(s, low, KItemRange(s[low].index, s[low].count + 1))
       ELSE IF precedes THEN ReplaceAt(s, low + 1, KItemRange(i, s[low + 1].count + 1))
       ELSE InsertAt(s, low + 1, KItemRange(i, 1))

\* insert(): i extends the range before it, or the one behind it, or joins the
\* two, or becomes a range.
Insert(s, i) ==
    LET low == Low(s, i)
        high == low + 1
        follows == low > 0 /\ i = Behind(s[low])
        precedes == high <= Len(s) /\ i = s[high].index - 1
        joined == KItemRange(s[low].index, s[low].count + 1 + s[high].count)
    IN IF ContainsItem(s, i) THEN s
       ELSE IF follows /\ precedes THEN ReplaceAt(RemoveAt(s, high), low, joined)
       ELSE IF follows THEN ReplaceAt(s, low, KItemRange(s[low].index, s[low].count + 1))
       ELSE IF precedes THEN ReplaceAt(s, high, KItemRange(i, s[high].count + 1))
       ELSE InsertAt(s, high, KItemRange(i, 1))

\* erase(): the range loses its first or its last index, or is cut in two.
Erase(s, i) ==
    LET k == Low(s, i)
        r == s[k]
    IN IF i = r.index
       THEN IF r.count > 1 THEN ReplaceAt(s, k, KItemRange(i + 1, r.count - 1)) ELSE RemoveAt(s, k)
       ELSE IF i = Behind(r) - 1 THEN ReplaceAt(s, k, KItemRange(r.index, r.count - 1))
       ELSE InsertAt(ReplaceAt(s, k, KItemRange(r.index, i - r.index)),
                     k + 1, KItemRange(i + 1, Behind(r) - i - 1))
RemoveItem(s, i) == IF ContainsItem(s, i) THEN Erase(s, i) ELSE s

ToggleItem(s, i) == IF ContainsItem(s, i) THEN RemoveItem(s, i) ELSE Insert(s, i)

\* One index after the other, in the order of the list.
InsertAll(s, indexes) ==
    LET upto[k \in 0 .. Len(indexes)] == IF k = 0 THEN s ELSE Insert(upto[k - 1], indexes[k])
    IN upto[Len(indexes)]
ToggleAll(s, indexes) ==
    LET upto[k \in 0 .. Len(indexes)] == IF k = 0 THEN s ELSE ToggleItem(upto[k - 1], indexes[k])
    IN upto[Len(indexes)]

\* The set that gets the new index of each index of s, but for -1.
MoveAll(s, to) ==
    LET all == Ascending(s)
        upto[k \in 0 .. Len(all)] == IF k = 0 THEN <<>>
                                     ELSE IF to[all[k]] < 0 THEN upto[k - 1]
                                     ELSE Insert(upto[k - 1], to[all[k]])
    IN upto[Len(all)]

\* operator+(): the lists are read together; a range of the sum grows while a
\* range of either list begins within or just behind it.  Each round reads the
\* next range of one list, or of both, or what is left when one list is at its end.
Plus(s, t) ==
    LET Joins(u, k, r) == k <= Len(u) /\ u[k].index <= Behind(r)
        After(u, k, r) == IF Joins(u, k, r) THEN k + 1 ELSE k
        Grown(u, k, r) == IF Joins(u, k, r)
                          THEN KItemRange(r.index, Max({r.count, Behind(u[k]) - r.index})) ELSE r
        Read(p, before, r) ==     \* p: the positions in s and in t
            LET both == Grown(s, p[1], r)
            IN <<After(s, p[1], r), After(t, p[2], both), Append(before, Grown(t, p[2], both))>>
        round[n \in 0 .. Len(s) + Len(t)] ==
            IF n = 0 THEN <<1, 1, <<>>>>
            ELSE LET p == round[n - 1]
                     sum == p[3]
                     ended == p[1] > Len(s) \/ p[2] > Len(t)
                 IN IF sum # <<>> /\ (Joins(s, p[1], Last(sum)) \/ Joins(t, p[2], Last(sum)))
                    THEN Read(p, Front(sum), Last(sum))
                    ELSE IF ended
                    THEN <<Len(s) + 1, Len(t) + 1,
                           sum \o SubSeq(s, p[1], Len(s)) \o SubSeq(t, p[2], Len(t))>>
                    ELSE Read(p, sum, KItemRange(Min({s[p[1]].index, t[p[2]].index}), 0))
    IN round[Len(s) + Len(t)][3]

\* fromSortedContainer(): the ranges of a set of indexes; upto[n] are those below n.
RangesOf(S) ==
    LET upto[n \in 0 .. Max(S \cup {-1}) + 1] ==
            IF n = 0 THEN <<>>
            ELSE LET r == upto[n - 1]
                 IN IF n - 1 \notin S THEN r
                    ELSE IF r # <<>> /\ Behind(r[Len(r)]) = n - 1
                    THEN ReplaceAt(r, Len(r), KItemRange(r[Len(r)].index, r[Len(r)].count + 1))
                    ELSE Append(r, KItemRange(n - 1, 1))
    IN upto[Max(S \cup {-1}) + 1]

\* operator^(): the begins and ends of all ranges are sorted, an index that is
\* there twice is discarded, and each two that are left bound a range.
Xor(s, t) ==
    LET Bounds(u) == {r.index : r \in ToSet(u)} \cup {Behind(r) : r \in ToSet(u)}
        bounds == Ascending(RangesOf(SymDiff(Bounds(s), Bounds(t))))
    IN [k \in 1 .. Len(bounds) \div 2 |->
            KItemRange(bounds[2*k - 1], bounds[2*k] - bounds[2*k - 1])]

==============================================================================
