------------------------------ MODULE MCSession ------------------------------
(***************************************************************************)
(* The instance of Session for TLC.                                        *)
(***************************************************************************)
EXTENDS Session, TLC

CONSTANTS u1, p1

\* The names of the groups.
ga == <<"a", "b", "a">>
gb == <<"b", "a">>

MCChar == {"*", "?", "a", "b"}

MCUser == {u1}
MCPassword == {p1}
MCGroup == {ga, gb}
MCStored == ga :> {1, 3} @@ gb :> {2}
\* The first article of ga cannot be loaded.
MCSound == ga :> {3} @@ gb :> {2}

\* No range, a number, an open range, one that goes beyond the group at both ends, and
\* one that is the wrong way round.
Asked(form, from, to) == [form |-> form, from |-> from, to |-> to]
MCRanges ==
  {Whole, Asked("one", 2, 0), Asked("from", 2, 0), Asked("span", 0, 3), Asked("span", 3, 1)}

Both == [group |-> {"r", "w"}, world |-> {"r", "w"}, archived |-> FALSE]
Members == [group |-> {"r", "w"}, world |-> {}, archived |-> FALSE]
ReadOnly == [group |-> {"r", "w"}, world |-> {"r"}, archived |-> FALSE]
Archived == [group |-> {"r", "w"}, world |-> {"r", "w"}, archived |-> TRUE]

Known == u1 :> p1
MCStores ==
  {[users |-> Known, groups |-> ga :> Both @@ gb :> Both, member |-> {}],
   [users |-> Known, groups |-> ga :> Members @@ gb :> Archived, member |-> {<<u1, ga>>, <<u1, gb>>}],
   [users |-> u1 :> NoRow, groups |-> ga :> NoRow @@ gb :> ReadOnly, member |-> {}]}

=============================================================================
