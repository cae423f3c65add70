-------------------------------- MODULE Listing --------------------------------
(***************************************************************************)
(* What the lists of internal/service have in common: the query a list is   *)
(* asked for, how its rows are sorted and which slice of them a page is.    *)
(*                                                                         *)
(* Texts are numbered in their natural order with case folded, blank is 0;  *)
(* a figure that is missing is 0 as well.  A row is sorted by a key:        *)
(* whether it has the figure or text the list is sorted by, and what is     *)
(* compared, from the first to the last.                                    *)
(***************************************************************************)
EXTENDS Integers, SequencesExt

CONSTANTS
    MaxInt,      \* the largest int
    PageSizes    \* the page sizes a list may have (service/pagination.go)

ASSUME ListingAssumption ==
    /\ MaxInt \in Nat \ {0}
    /\ PageSizes \subseteq 1 .. MaxInt

None == 0

(* A number as Go stores it: one more than MaxInt is -MaxInt - 1. *)
Wrapped(n) == ((n + MaxInt + 1) % (2 * (MaxInt + 1))) - (MaxInt + 1)

-----------------------------------------------------------------------------
(* What a row has under the field a list is sorted by. *)
Ranked(numbers) == [present |-> TRUE, keys |-> numbers]
Optional(number) == [present |-> number /= None, keys |-> <<number>>]

(* The comparison of two keys of one field: the first difference counts. *)
Compare(a, b) ==
    LET differ == {i \in DOMAIN a : a[i] /= b[i]}
        first == CHOOSE i \in differ : \A j \in differ : i <= j
    IN  IF differ = {} THEN 0 ELSE a[first] - b[first]

(* Mutant: equal rows stay in the order of the snapshot. *)
BeforeWithoutId(a, b, order) ==
    IF a.present /= b.present THEN a.present
    ELSE LET c == Compare(a.keys, b.keys)
         IN  IF order = "desc" THEN c > 0 ELSE c < 0

(* Mutant: the reverse of an order turns everything round. *)
BeforeTurned(a, b, order) ==
    LET c == Compare(a.keys, b.keys)
        ascending == IF a.present /= b.present THEN a.present
                     ELSE IF c = 0 THEN a.id < b.id ELSE c < 0
    IN  IF order = "desc" THEN ~ascending ELSE ascending

(* Rows without a value come last in either order, equal ones by their ids. *)
Before(a, b, order) ==
    IF a.present /= b.present THEN a.present
    ELSE LET c == Compare(a.keys, b.keys)
         IN  IF c = 0 THEN a.id < b.id
             ELSE IF order = "desc" THEN c > 0 ELSE c < 0

(* The ids of the rows that match, in the order of the snapshot. *)
Selected(ids, matching) ==
    FoldLeft(LAMBDA items, i : IF i \in matching THEN Append(items, i) ELSE items, <<>>, ids)

(* sort.SliceStable inserts, up to a length of 20: a row moves left past those it is before. *)
Inserted(rows, row, before) ==
    LET stays == {i \in DOMAIN rows : ~before[<<row, rows[i]>>]}
        place == CHOOSE n \in stays \cup {0} : \A i \in stays : i <= n
    IN  InsertAt(rows, place + 1, row)

Sorted(rows, before) ==
    FoldLeft(LAMBDA sorted, row : Inserted(sorted, row, before), <<>>, rows)

-----------------------------------------------------------------------------
Lesser(a, b) == IF a < b THEN a ELSE b

(* Mutant: the offset is computed and then found to be too far on. *)
OverflowsComputed(q) == (Wrapped((q.page - 1) * q.size)) \div q.size > MaxInt \div q.size

(* A page that is too far on has no offset that an int holds. *)
Overflows(q) == q.page - 1 > MaxInt \div q.size

(* Some services take page 0 and size 0 for a page that is not given. *)
Defaulted(q) ==
    [q EXCEPT !.page = IF @ = 0 THEN 1 ELSE @,
              !.size = IF @ = 0 THEN CHOOSE s \in PageSizes : \A t \in PageSizes : s <= t ELSE @]

(* What every list demands of its query. *)
WellFormed(q, statuses, roles, sorts) ==
    /\ q.page >= 1
    /\ q.size \in PageSizes
    /\ q.status \in statuses \cup {""}
    /\ q.role \in roles \cup {""}
    /\ q.sort \in sorts \cup {""}
    /\ q.order \in {"", "asc", "desc"}

(* Where a page begins, when a service has made sure the offset is an int. *)
PageStart(q, total) == Lesser(Wrapped((q.page - 1) * q.size), total)

(* Where a page begins, when any page is accepted. *)
ClampedStart(q, total) == IF q.page - 1 <= total \div q.size THEN PageStart(q, total) ELSE total

(* The ids in the order of the list: of the rows that match, by the keys of rows. *)
Listed(ids, matching, keys, order) ==
    LET keyed(i) == [id |-> i, present |-> keys[i].present, keys |-> keys[i].keys]
    IN  Sorted(Selected(ids, matching),
               [p \in (DOMAIN keys) \X (DOMAIN keys) |-> Before(keyed(p[1]), keyed(p[2]), order)])

(* A page of a list, the list's length and its number of pages; in Go the slice *)
(* of a negative start panics.                                                 *)
Panic == <<None>>
Paged(list, start, size) ==
    LET total == Len(list)
        end == Lesser(Wrapped(start + size), total)
    IN  [total |-> total,
         pages |-> IF total = 0 THEN 0 ELSE (total + size - 1) \div size,
         ids |-> IF start \in 0 .. end THEN SubSeq(list, start + 1, end) ELSE Panic]
=============================================================================
