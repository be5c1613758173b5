------------------------------- MODULE Sorts --------------------------------
(***************************************************************************)
(* sort.c.  An array is a function from 0 .. len-1; entry i of the array   *)
(* is entry i+1 of the Lua table.  Reading the table and building the      *)
(* result are part of each l_ function; with an empty table `len - 1'      *)
(* wraps, t[1] is read as a number and the call raises an error.           *)
(***************************************************************************)
EXTENDS Integers, Sequences, SequencesExt

\* What a call gives when it raises, ends the process, does not return or reads
\* behind the end of its argument: arrays that are none.
Outcome(n) == [i \in {-n} |-> 0]
Error == Outcome(1)
Fatal == Outcome(2)
Hangs == Outcome(3)
Wild == Outcome(4)

Length(arr) == Cardinality(DOMAIN arr)
Checked(arr, result) == IF DOMAIN arr = {} THEN Error ELSE result

i_swap(arr, i, j) == [arr EXCEPT ![i] = arr[j], ![j] = arr[i]]

\* k, k-1, ..., 0 and a, a+1, ..., b
Down(k) == [i \in 1 .. k + 1 |-> k + 1 - i]
Up(a, b) == [i \in 1 .. b - a + 1 |-> a + i - 1]
-----------------------------------------------------------------------------
\* The two inner loops find the next entries that are on the wrong side.
RECURSIVE HoareLoop(_, _, _, _)
HoareLoop(arr, pivot, i, j) ==
    LET i2 == CHOOSE k \in DOMAIN arr : /\ k > i /\ ~(arr[k] > pivot)
                                        /\ \A m \in i + 1 .. k - 1 : arr[m] > pivot
        j2 == CHOOSE k \in DOMAIN arr : /\ k < j /\ ~(arr[k] < pivot)
                                        /\ \A m \in k + 1 .. j - 1 : arr[m] < pivot
    IN IF i2 >= j2 THEN [arr |-> arr, p |-> j2]
       ELSE HoareLoop(i_swap(arr, i2, j2), pivot, i2, j2)

i_hoarepartition(arr, low, high) ==
    HoareLoop(arr, arr[(high - low) \div 2 + low], low - 1, high + 1)

RECURSIVE i_quicksort(_, _, _)
i_quicksort(arr, low, high) ==
    IF low >= 0 /\ high >= 0 /\ low < high
    THEN LET part == i_hoarepartition(arr, low, high)
         IN i_quicksort(i_quicksort(part.arr, low, part.p), part.p + 1, high)
    ELSE arr

l_quicksort(arr) == Checked(arr, i_quicksort(arr, 0, Length(arr) - 1))
-----------------------------------------------------------------------------
\* The loops that fill arr[b..e] from left and right.
RECURSIVE Merge(_, _)
Merge(left, right) ==
    IF left = <<>> THEN right
    ELSE IF right = <<>> THEN left
    ELSE IF Head(left) >= Head(right) THEN <<Head(left)>> \o Merge(Tail(left), right)
    ELSE <<Head(right)>> \o Merge(left, Tail(right))

i_merge(arr, b, m, e) ==
    LET merged == Merge([i \in 1 .. m - b + 1 |-> arr[b + i - 1]], [i \in 1 .. e - m |-> arr[m + i]])
    IN [k \in DOMAIN arr |-> IF k \in b .. e THEN merged[k - b + 1] ELSE arr[k]]

RECURSIVE i_mergesort(_, _, _)
i_mergesort(arr, b, e) ==
    IF b >= e THEN arr
    ELSE LET mid == (b + e) \div 2
         IN i_merge(i_mergesort(i_mergesort(arr, b, mid), mid + 1, e), b, mid, e)

l_mergesort(arr) == Checked(arr, i_mergesort(arr, 0, Length(arr) - 1))
-----------------------------------------------------------------------------
RECURSIVE i_heapify(_, _, _)
i_heapify(arr, n, i) ==
    LET left == 2 * i + 1
        right == 2 * i + 2
        l1 == IF left < n /\ arr[left] < arr[i] THEN left ELSE i
        largest == IF right < n /\ arr[right] < arr[l1] THEN right ELSE l1
    IN IF largest = i THEN arr ELSE i_heapify(i_swap(arr, i, largest), n, largest)

l_heapsort(arr) ==
    LET n == Length(arr)
        heap == FoldLeft(LAMBDA a, i : i_heapify(a, n, i), arr, Down(n \div 2 - 1))
    IN Checked(arr, FoldLeft(LAMBDA a, i : i_heapify(i_swap(a, i, 0), i, 0), heap, Down(n - 1)))
-----------------------------------------------------------------------------
RECURSIVE ShiftIn(_, _, _, _)
ShiftIn(arr, j, interval, temp) ==
    IF j >= interval /\ arr[j - interval] < temp
    THEN ShiftIn([arr EXCEPT ![j] = arr[j - interval]], j - interval, interval, temp)
    ELSE [arr EXCEPT ![j] = temp]

RECURSIVE ShellPasses(_, _)
ShellPasses(arr, interval) ==
    IF interval = 0 THEN arr
    ELSE ShellPasses(FoldLeft(LAMBDA a, i : ShiftIn(a, i, interval, a[i]), arr,
                              Up(interval, Length(arr) - 1)),
                     interval \div 2)

l_shellsort(arr) == Checked(arr, ShellPasses(arr, Length(arr) \div 2))
-----------------------------------------------------------------------------
\* One exchange of a pass; the mutant remembers the wrong end of it.
BubbleStepEarly(p, i) ==
    IF p.arr[i + 1] > p.arr[i] THEN [arr |-> i_swap(p.arr, i, i + 1), new |-> i] ELSE p

BubbleStep(p, i) ==
    IF p.arr[i + 1] > p.arr[i] THEN [arr |-> i_swap(p.arr, i, i + 1), new |-> i + 1] ELSE p

RECURSIVE BubblePasses(_, _)
BubblePasses(arr, n) ==
    IF n = 0 THEN arr
    ELSE LET pass == FoldLeft(BubbleStep, [arr |-> arr, new |-> 0], Up(0, n - 2))
         IN BubblePasses(pass.arr, pass.new)

l_bubblesort(arr) == Checked(arr, BubblePasses(arr, Length(arr)))
-----------------------------------------------------------------------------
\* out[count[v] - 1] = v; count[v]--;
Place(c, v) == [out |-> [c.out EXCEPT ![c.count[v] - 1] = v], count |-> [c.count EXCEPT ![v] = @ - 1]]

l_countingsort(arr) ==
    LET values == {arr[i] : i \in DOMAIN arr}
        count == [v \in values |-> Cardinality({i \in DOMAIN arr : arr[i] <= v})]
        n == Length(arr)
    IN IF \E v \in values : v < 0 THEN Fatal
       ELSE Checked(arr, FoldLeft(LAMBDA c, i : Place(c, arr[i]),
                                  [out |-> [i \in DOMAIN arr |-> 0], count |-> count],
                                  Down(n - 1)).out)
-----------------------------------------------------------------------------
RECURSIVE i_slowsort(_, _, _)
i_slowsort(arr, i, j) ==
    IF i >= j THEN arr
    ELSE LET m == (i + j) \div 2
             a == i_slowsort(i_slowsort(arr, i, m), m + 1, j)
         IN i_slowsort(IF a[j] < a[m] THEN i_swap(a, j, m) ELSE a, i, j - 1)

l_slowsort(arr) == Checked(arr, i_slowsort(arr, 0, Length(arr) - 1))

\* The result is shorter than the table: a sequence of the entries kept.
Keep(kept, v) == IF kept = <<>> \/ Last(kept) <= v THEN Append(kept, v) ELSE kept
l_stalinsort(arr) == Checked(arr, FoldLeft(Keep, <<>>, [i \in 1 .. Length(arr) |-> arr[i - 1]]))

i_sorted(arr) == \A i \in DOMAIN arr : i + 1 \in DOMAIN arr => ~(arr[i] > arr[i + 1])
l_miraclesort(arr) == Checked(arr, IF i_sorted(arr) THEN arr ELSE Hangs)

\* All that len swaps of two random entries can make of the array.
RECURSIVE Shuffles(_, _)
Shuffles(arrs, n) ==
    IF n = 0 THEN arrs
    ELSE Shuffles(UNION {{i_swap(a, i, d) : i, d \in DOMAIN a} : a \in arrs}, n - 1)
i_shuffle(arr) == Shuffles({arr}, Length(arr))
=============================================================================
