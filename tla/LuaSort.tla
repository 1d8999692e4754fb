------------------------------- MODULE LuaSort -------------------------------
(***************************************************************************)
(* table.sort (ltablib.c): quicksort, which calls an order function of the *)
(* program for every comparison.  That function may be no order at all, or *)
(* raise an error, in the middle of a partition.                           *)
(*                                                                         *)
(* Fields are told from each other by where they were at first: field c of *)
(* the table now holds the value that was in field a[c].  The fields 0 and *)
(* n+1, outside of the list, are those that an order function that is none *)
(* can make sort go to.  The function does not change the table itself.    *)
(***************************************************************************)
EXTENDS Integers, Sequences

CONSTANTS
  Value, NIL,
  Less,     \* the order: pairs of values
  Lists,    \* the lists that are sorted
  Wild      \* ... by a function that answers anything, too

ASSUME ListAssumption == Wild \subseteq Lists /\ Lists \subseteq Seq(Value)

\* What an order function has to be, for sort to rely on it.
ASSUME OrderAssumption ==
  /\ \A x, y \in Value : <<x, y>> \in Less => <<y, x>> \notin Less
  /\ \A x, y, z \in Value : <<x, y>> \notin Less /\ <<y, z>> \notin Less => <<x, z>> \notin Less

VARIABLES
  list,       \* the list as it was given
  order,      \* whether the function is an order
  a,          \* the table
  pc,         \* where auxsort is
  l, u, i, j, \* its variables
  pivot,      \* P, by its field at first
  frames      \* the intervals that are left for when the inner auxsort returns

locals == <<l, u, i, j, pivot>>
vars   == <<list, order, a, pc, locals, frames>>

n      == Len(list)
Fields == 0..n + 1

Content(f) == IF f \in 1..n THEN list[f] ELSE NIL

\* sort_comp, on what was in the fields x and y, may say that x is before y,
\* or that it is not.
Before(x, y)    == order => <<Content(x), Content(y)>> \in Less
NotBefore(x, y) == order => <<Content(x), Content(y)>> \notin Less

\* set2, after the values of two fields were pushed: the last one goes to x.
set2(x, y, below, top) == [a EXCEPT ![x] = top, ![y] = below]

Init ==
  /\ list \in Lists
  /\ order \in BOOLEAN /\ (order \/ list \in Wild)
  /\ a = [f \in Fields |-> f]
  /\ pc = "loop"
  /\ l = 1 /\ u = n /\ i = 0 /\ j = 0 /\ pivot = 0
  /\ frames = <<>>

\* The loop of auxsort is over; so is the inner one of two.
Return ==
  /\ pc = "return" \/ (pc = "loop" /\ l >= u)
  /\ IF frames = <<>>
     THEN pc' = "done" /\ UNCHANGED <<l, u, frames>>
     ELSE /\ pc' = "loop"
          /\ l' = frames[Len(frames)].l /\ u' = frames[Len(frames)].u
          /\ frames' = SubSeq(frames, 1, Len(frames) - 1)
  /\ UNCHANGED <<list, order, a, i, j, pivot>>

\* Sort a[l], a[(l+u)/2] and a[u].
Ends ==
  /\ pc = "loop" /\ l < u
  /\ \/ Before(a[u], a[l]) /\ a' = set2(l, u, a[l], a[u])
     \/ NotBefore(a[u], a[l]) /\ UNCHANGED a
  /\ pc' = IF u - l = 1 THEN "return" ELSE "middle"
  /\ i' = (l + u) \div 2
  /\ UNCHANGED <<list, order, l, u, j, pivot, frames>>

Middle ==
  /\ pc = "middle"
  /\ \/ /\ Before(a[i], a[l])
        /\ a' = set2(i, l, a[i], a[l])
        /\ pc' = IF u - l = 2 THEN "return" ELSE "pivot"
     \/ /\ NotBefore(a[i], a[l])
        /\ pc' = "upper"
        /\ UNCHANGED a
  /\ UNCHANGED <<list, order, locals, frames>>

Upper ==
  /\ pc = "upper"
  /\ \/ Before(a[u], a[i]) /\ a' = set2(i, u, a[i], a[u])
     \/ NotBefore(a[u], a[i]) /\ UNCHANGED a
  /\ pc' = IF u - l = 2 THEN "return" ELSE "pivot"
  /\ UNCHANGED <<list, order, locals, frames>>

Pivot ==
  /\ pc = "pivot"
  /\ pivot' = a[i]
  /\ a' = set2(i, u - 1, pivot', a[u - 1])
  /\ i' = l + 1 /\ j' = u - 1
  /\ pc' = "up"
  /\ UNCHANGED <<list, order, l, u, frames>>

\* Mutant: a function that is no order leads on.
Up_Unchecked ==
  /\ pc = "up"
  /\ \/ /\ Before(a[i], pivot)
        /\ i' = i + 1
        /\ UNCHANGED <<pc, j>>
     \/ /\ NotBefore(a[i], pivot)
        /\ pc' = "down"
        /\ j' = j - 1
        /\ UNCHANGED i
  /\ UNCHANGED <<list, order, a, l, u, pivot, frames>>

\* repeat ++i until a[i] >= P
Up ==
  /\ pc = "up"
  /\ \/ /\ Before(a[i], pivot) /\ i <= u
        /\ i' = i + 1
        /\ UNCHANGED <<pc, j>>
     \/ /\ Before(a[i], pivot) /\ i > u
        /\ pc' = "invalid"
        /\ UNCHANGED <<i, j>>
     \/ /\ NotBefore(a[i], pivot)
        /\ pc' = "down"
        /\ j' = j - 1
        /\ UNCHANGED i
  /\ UNCHANGED <<list, order, a, l, u, pivot, frames>>

\* repeat --j until a[j] <= P
Down ==
  /\ pc = "down"
  /\ \/ /\ Before(pivot, a[j]) /\ j >= l
        /\ j' = j - 1
        /\ UNCHANGED <<pc, a, i>>
     \/ /\ Before(pivot, a[j]) /\ j < l
        /\ pc' = "invalid"
        /\ UNCHANGED <<a, i, j>>
     \/ /\ NotBefore(pivot, a[j]) /\ j < i
        /\ pc' = "split"
        /\ UNCHANGED <<a, i, j>>
     \/ /\ NotBefore(pivot, a[j]) /\ j >= i
        /\ a' = set2(i, j, a[i], a[j])
        /\ i' = i + 1
        /\ pc' = "up"
        /\ UNCHANGED j
  /\ UNCHANGED <<list, order, l, u, pivot, frames>>

\* Mutant of Smaller: the recursive call gets the larger half.
SmallerLarger == i - l >= u - i

Smaller == i - l < u - i

\* The pivot goes between its halves, the smaller one to an inner auxsort.
Split ==
  /\ pc = "split"
  /\ a' = set2(u - 1, i, a[u - 1], a[i])
  /\ IF Smaller
     THEN /\ frames' = Append(frames, [l |-> i + 1, u |-> u])
          /\ u' = i - 1 /\ UNCHANGED l
     ELSE /\ frames' = Append(frames, [l |-> l, u |-> i - 1])
          /\ l' = i + 1 /\ UNCHANGED u
  /\ pc' = "loop"
  /\ UNCHANGED <<list, order, i, j, pivot>>

Comparing == pc \in {"middle", "upper", "up", "down"} \/ (pc = "loop" /\ l < u)

\* The order function raises an error.
Raise ==
  /\ Comparing
  /\ pc' = "raised"
  /\ UNCHANGED <<list, order, a, locals, frames>>

Next ==
  Return \/ Ends \/ Middle \/ Upper \/ Pivot \/ Up \/ Down \/ Split \/ Raise

Spec == Init /\ [][Next]_vars

-----------------------------------------------------------------------------
(* Properties.                                                             *)

TypeOK ==
  /\ list \in Lists /\ order \in BOOLEAN
  /\ a \in [Fields -> Fields]
  /\ pc \in {"loop", "middle", "upper", "pivot", "up", "down", "split",
             "return", "done", "invalid", "raised"}
  /\ l \in Int /\ u \in Int /\ i \in Int /\ j \in Int /\ pivot \in Fields
  /\ frames \in Seq([l : Int, u : Int])

\* Whenever the order function is called, when it raises an error, and when
\* sort gives up ("invalid order function for sorting", ltablib.c:227), the
\* table still has every value that it had, once.
Permuted == \A f, g \in Fields : a[f] = a[g] => f = g

\* Where auxsort reads and writes: in its interval and one beyond its ends.
HereOK ==
  /\ 1 <= l /\ u <= n
  /\ pc \in {"middle", "upper", "pivot"} => l < i /\ i < u
  /\ pc = "pivot" => l + 3 <= u
  /\ pc \in {"up", "down", "split"} =>
       l + 3 <= u /\ l + 1 <= i /\ i <= u + 1 /\ l - 1 <= j /\ j <= u - 1
  /\ pc = "up" => l <= j

FramesOK == \A k \in 1..Len(frames) : 1 <= frames[k].l /\ frames[k].u <= n

InBounds == HereOK /\ FramesOK

\* The powers of two, with which the depth of the calls is measured.
Power[k \in Nat] == IF k = 0 THEN 1 ELSE 2 * Power[k - 1]

\* Under an order sort does not give up, leaves the list in order and the
\* fields around it alone, compares nothing outside of the interval, and keeps
\* "a[l..i] <= P <= a[j..u]" (ltablib.c:224); under any function its calls are
\* no deeper than a list of that length needs ("assume array is smaller than
\* 2^40", ltablib.c:258).
Sorts ==
  /\ order =>
       /\ pc # "invalid"
       /\ pc = "up" => i < u
       /\ pc = "down" => l <= j
       /\ pc = "up" =>
            /\ \A f \in l..i - 1 : <<Content(pivot), Content(a[f])>> \notin Less
            /\ \A f \in j..u : <<Content(a[f]), Content(pivot)>> \notin Less
       /\ a[0] = 0 /\ a[n + 1] = n + 1
       /\ pc = "done" => \A f \in 1..n - 1 : <<Content(a[f + 1]), Content(a[f])>> \notin Less
  /\ frames # <<>> => Power[Len(frames)] <= n

-----------------------------------------------------------------------------
(* The inductive invariant.                                                *)

\* The field f is in order before the field g.
InOrder(f, g) == <<Content(a[g]), Content(a[f])>> \notin Less

\* auxsort is at its interval, or has still to sort it.
Unsorted == pc \notin {"return", "done"}

\* The intervals that are left are not empty and have no field in common, nor
\* with the one that auxsort is at.
Apart ==
  /\ n > 0 => l <= u
  /\ \A k \in 1..Len(frames) : frames[k].l <= frames[k].u
  /\ \A k \in 1..Len(frames) : pc # "done" => frames[k].u < l \/ u < frames[k].l
  /\ \A k, m \in 1..Len(frames) : k < m => frames[k].u < frames[m].l \/ frames[m].u < frames[k].l

\* Two fields that are not both of one of them are in order.
Sorted ==
  \A f, g \in 1..n : f < g =>
    \/ InOrder(f, g)
    \/ Unsorted /\ l <= f /\ g <= u
    \/ \E k \in 1..Len(frames) : frames[k].l <= f /\ g <= frames[k].u

\* What the comparisons of auxsort have told so far.
Compared ==
  /\ pc \in {"middle", "upper"} => InOrder(l, u)
  /\ pc \in {"upper", "pivot"} => InOrder(l, i)
  /\ pc = "pivot" => InOrder(i, u)
  /\ pc \in {"up", "down", "split"} =>
       /\ a[u - 1] = pivot
       /\ i < u
       /\ \A f \in l..i - 1 : InOrder(f, u - 1)
       /\ \A f \in j + 1..u : InOrder(u - 1, f)
  /\ pc = "up" => l < j /\ i <= j + 1 /\ InOrder(u - 1, j)
  /\ pc \in {"down", "split"} => j + 2 <= u /\ InOrder(u - 1, i)
  /\ pc = "down" => l <= j /\ i <= j + 2
  /\ pc = "split" => j < i

Outside == pc # "invalid" /\ a[0] = 0 /\ a[n + 1] = n + 1

Ordered ==
  /\ order => Outside
  /\ order /\ pc # "raised" => Apart /\ Sorted /\ Compared
  /\ pc = "done" => frames = <<>>

\* As many intervals of this size, and as many as that again, as there are
\* between it and the whole list would still fit in the list.
Shallow ==
  /\ pc # "done" => Power[Len(frames)] * (u - l + 2) <= n + 1
  /\ \A k \in 1..Len(frames) :
       /\ frames[k].l < frames[k].u
       /\ Power[k - 1] * (frames[k].u - frames[k].l + 2) <= n + 1

Bounds == TypeOK /\ Permuted /\ InBounds

IInv == Bounds /\ Ordered /\ Shallow
=============================================================================
