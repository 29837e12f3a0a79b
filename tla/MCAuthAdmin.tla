----------------------------- MODULE MCAuthAdmin -----------------------------
(***************************************************************************)
(* Instances of AuthAdmin for TLC.                                         *)
(***************************************************************************)
EXTENDS AuthAdmin

CONSTANTS adm1, adm2, u1, u2, g1, g2, p1, r, rw, d1

OneAdmin == {adm1}
TwoAdmins == {adm1, adm2}
MCUser == {u1, u2}
MCSteady == {u2}
OneGroup == {g1}
OneUnder == {<<g1, g1>>}
\* The directory of g2 is inside that of g1.
TwoGroups == {g1, g2}
TwoUnder == {<<g1, g1>>, <<g2, g2>>, <<g2, g1>>}
OnePassword == {p1}
OnePerm == {rw}
TwoPerms == {r, rw}
OneDesc == {d1}

\* Bound: at the start no steady user is a member of a group.
MCInit == Init /\ member \subseteq (User \ Steady) \X Group
MCFairSpec == MCInit /\ [][Next]_vars /\ WF_vars(Serve) /\ \A a \in Admin : WF_vars(Step(a))

=============================================================================
