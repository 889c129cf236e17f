------------------------------ MODULE TypedSlice -------------------------------
(*****************************************************************************)
(* The slices that median collects values in (modules/features/typedSlice.go) *)
(* and Less (util.go).  A slice has the kind of its first value and holds    *)
(* data of that kind; positions count from 1.                                *)
(*****************************************************************************)
EXTENDS Values, Sequences

CONSTANT SampleSize   \* 600 in the code: longer ranges are narrowed first
ASSUME SampleSizeAssumption == SampleSize \in Nat \ {0}

\* The kind of slice for a value; other values panic.
KindOf(v) ==
    CASE v[1] \in {"uint"} \cup Times -> "uint"
      [] v[1] \in {"int", "float", "bool", "string", "bytes"} -> v[1]
      [] OTHER -> "panic"

\* What Append keeps of a value in a slice of a kind.
Kept(kind, v) ==
    CASE kind = "uint" -> ToUInt(v)
      [] kind = "int" -> ToInt(v)
      [] kind = "float" -> ToFloat(v)
      [] OTHER -> v[2]

NewTypedSlice(v) == [kind |-> KindOf(v), data |-> <<Kept(KindOf(v), v)>>]
AppendTo(slice, v) == [slice EXCEPT !.data = Append(@, Kept(slice.kind, v))]

IsNumeric(slice) == slice.kind \notin {"string", "bytes"}
Get(slice, i) == <<slice.kind, slice.data[i]>>

\* GetFloat
Fractioned(slice, i) ==
    CASE slice.kind = "float" -> slice.data[i]
      [] slice.kind = "bool" -> IF slice.data[i] THEN <<1, 1>> ELSE <<0, 1>>
      [] OTHER -> <<slice.data[i], 1>>

\* The order within a kind: FALSE before TRUE, strings and bytes lexically.
LessData(kind, x, y) ==
    CASE kind = "bool" -> ~x /\ y
      [] kind = "float" -> Below(x, y)
      [] OTHER -> x < y

\* Less of util.go, for two values of one type; others panic.
Less(a, b) == LessData(a[1], a[2], b[2])

--------------------------------------------------------------------------------
(* Select: a[k] becomes the element that a sorted range would have at k, with  *)
(* none above it on its left and none below it on its right.                   *)

Swapped(a, i, j) == [a EXCEPT ![i] = a[j], ![j] = a[i]]

\* The next position from i on that is not below t, and from j down not above t.
Ascend(kind, a, i, t) ==
    CHOOSE p \in i .. Len(a) :
        ~LessData(kind, a[p], t) /\ \A q \in i .. p - 1 : LessData(kind, a[q], t)
Descend(kind, a, j, t) ==
    CHOOSE p \in 1 .. j :
        ~LessData(kind, t, a[p]) /\ \A q \in p + 1 .. j : LessData(kind, t, a[q])

\* The exchange of elements around t until the positions meet.
RECURSIVE Exchange(_, _, _, _, _)
Exchange(kind, a, i, j, t) ==
    IF i >= j THEN [a |-> a, j |-> j]
    ELSE LET b == Swapped(a, i, j)
         IN  Exchange(kind, b, Ascend(kind, b, i + 1, t), Descend(kind, b, j - 1, t), t)

\* The element at k is moved to the left end, and on to the right end if it is below
\* the element there.
PivotAside(kind, a, left, right, k) ==
    LET b == Swapped(a, left, k)
    IN  IF LessData(kind, a[k], b[right]) THEN Swapped(b, right, left) ELSE b

\* Mutant: the element is looked for at the left end only.
PartitionLeft(kind, a, left, right, t) ==
    LET e == Exchange(kind, a, left, right, t)
    IN  [a |-> Swapped(e.a, left, e.j), j |-> e.j]

\* The range split around t, which ends at j.
Partition(kind, a, left, right, t) ==
    LET e == Exchange(kind, a, left, right, t)
    IN  IF e.a[left] = t THEN [a |-> Swapped(e.a, left, e.j), j |-> e.j]
        ELSE [a |-> Swapped(e.a, e.j + 1, right), j |-> e.j + 1]

Larger(m, n) == IF m > n THEN m ELSE n
Smaller(m, n) == IF m < n THEN m ELSE n

\* Select.  The range around k that a long one is narrowed to is a matter of estimates
\* in floating point: here spread to both sides.
RECURSIVE Select(_, _, _, _, _, _)
Select(kind, a, left, right, k, spread) ==
    IF right <= left THEN a
    ELSE LET b == IF right - left > SampleSize
                  THEN Select(kind, a, Larger(left, k - spread), Smaller(right, k + spread),
                              k, spread)
                  ELSE a
             p == Partition(kind, PivotAside(kind, b, left, right, k), left, right, b[k])
         IN  Select(kind, p.a, IF p.j <= k THEN p.j + 1 ELSE left,
                    IF k <= p.j THEN p.j - 1 ELSE right, k, spread)

\* Max: the first position of the largest element.
MaxOf(kind, a, left, right) ==
    CHOOSE p \in left .. right :
        /\ \A q \in left .. right : ~LessData(kind, a[p], a[q])
        /\ \A q \in left .. p - 1 : LessData(kind, a[q], a[p])
================================================================================
