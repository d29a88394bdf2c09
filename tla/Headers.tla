------------------------------ MODULE Headers -------------------------------
(***************************************************************************)
(* The header list of a message (type headers of src/sip/headers.go): a    *)
(* map from names to lists of values, and the order in which the names are *)
(* written.  The two are kept in step by hand, one operation at a time.    *)
(* Each operator takes a list and returns what the method leaves in it.    *)
(***************************************************************************)
EXTENDS Naturals, SequencesExt

NoHeaders == [map |-> [n \in {} |-> <<>>], order |-> <<>>]

Has(hs, n)     == n \in DOMAIN hs.map
IsShown(hs, n) == Contains(hs.order, n)

\* The first value of a header: what the typed getters (Via, From, CSeq...) return.
First(hs, n) == Head(hs.map[n])

Put(map, n, vs) == [k \in DOMAIN map \cup {n} |-> IF k = n THEN vs ELSE map[k]]

\* A getter returns a pointer, through which the first value is changed in place.
SetFirst(hs, n, v) == [hs EXCEPT !.map[n] = <<v>> \o Tail(@)]

AddHeader(hs, n, v) ==
    IF Has(hs, n) THEN [hs EXCEPT !.map[n] = Append(@, v)]
    ELSE [map |-> Put(hs.map, n, <<v>>), order |-> Append(hs.order, n)]

\* The map is written before it is asked for the name, so that the order never
\* changes: a new name is stored and not shown.
ReplaceHeader(hs, n, v) == [hs EXCEPT !.map = Put(hs.map, n, <<v>>)]

PrependHeader(hs, n, v) ==
    IF Has(hs, n) THEN [hs EXCEPT !.map[n] = <<v>> \o @]
    ELSE [map |-> Put(hs.map, n, <<v>>), order |-> <<n>> \o hs.order]

\* Mutant of PrependHeaderAfter: the old place of the name is not taken out.
PrependHeaderAfter_Twice(hs, n, v, after) ==
    [map |-> Put(hs.map, n, IF Has(hs, n) THEN <<v>> \o hs.map[n] ELSE <<v>>),
     order |-> InsertAt(hs.order, SelectInSeq(hs.order, LAMBDA m : m = after) + 1, n)]

\* The name goes behind the name after; to the front if that is stored but not
\* shown.
PrependHeaderAfter(hs, n, v, after) ==
    LET rest == RemoveFirst(hs.order, n)
        at   == SelectInSeq(rest, LAMBDA m : m = after)
    IN  IF ~Has(hs, after) THEN PrependHeader(hs, n, v)
        ELSE [map |-> Put(hs.map, n, IF IsShown(hs, n) THEN <<v>> \o hs.map[n] ELSE <<v>>),
              order |-> IF n = after /\ IsShown(hs, n) THEN hs.order
                        ELSE InsertAt(rest, at + 1, n)]

DelHeader(hs, n) ==
    [map |-> [k \in DOMAIN hs.map \ {n} |-> hs.map[k]], order |-> RemoveFirst(hs.order, n)]

\* CopyHeaders: each value of the name is copied and added.
CopyHeaders(n, from, to) ==
    IF ~Has(from, n) THEN to
    ELSE [map |-> Put(to.map, n, (IF Has(to, n) THEN to.map[n] ELSE <<>>) \o from.map[n]),
          order |-> IF Has(to, n) THEN to.order ELSE Append(to.order, n)]

\* String, and the parser at the other end: only the headers in the order travel.
Render(hs) ==
    [map |-> [n \in ToSet(hs.order) |-> hs.map[n]], order |-> hs.order]

=============================================================================
