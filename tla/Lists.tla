------------------------------- MODULE Lists -------------------------------
(***************************************************************************)
(* Loops over lists that the searches share, as recursive functions, which *)
(* can be reasoned about where a fold cannot.                              *)
(***************************************************************************)
EXTENDS Naturals, Sequences

\* The elements of the list at those places, in their order.
Picked(list, places) ==
  LET Of[n \in 0 .. Len(list)] ==
        IF n = 0 THEN <<>>
        ELSE IF n \in places THEN Append(Of[n - 1], list[n]) ELSE Of[n - 1]
  IN  Of[Len(list)]

\* The sum of a list of numbers.
Summed(list) ==
  LET Of[n \in 0 .. Len(list)] == IF n = 0 THEN 0 ELSE Of[n - 1] + list[n]
  IN  Of[Len(list)]

\* Lists, one after the other.
Flattened(lists) ==
  LET Of[n \in 0 .. Len(lists)] == IF n = 0 THEN <<>> ELSE Of[n - 1] \o lists[n]
  IN  Of[Len(lists)]
=============================================================================
