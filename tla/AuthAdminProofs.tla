--------------------------- MODULE AuthAdminProofs ---------------------------
(***************************************************************************)
(* Proofs about AuthAdmin: types, that reloads never forget a user whom    *)
(* nobody changes, and that a group whose directory is inside no other's   *)
(* has it, for any users, groups, commands and faults.                     *)
(***************************************************************************)
EXTENDS AuthAdmin, TLAPS

UserOps == {"adduser", "deleteuser", "updateuser"}
GroupOps == {"addgroup", "deletegroup", "archive", "updategroup"}

\* What a command is to do, by the place where it is.
JobOK(a) ==
  /\ cli[a] = "check" => job[a].op \in GroupOps
  /\ cli[a] = "read" => job[a].op \in {"updateuser", "updategroup"}
  /\ cli[a] = "mkdir" => job[a].op = "addgroup"
  /\ cli[a] = "write" => job[a].op \in UserOps \cup GroupOps
  /\ cli[a] = "rmdir" => job[a].op = "deletegroup"
  /\ job[a].op \in UserOps => job[a].user \in User \ Steady
  /\ job[a].op = "adduser" => job[a].pass \in Password
  /\ job[a].op = "updateuser" /\ cli[a] = "write" => job[a].pass \in Password
  /\ job[a].op \in GroupOps => job[a].group \in Group
  /\ job[a].op = "addgroup" => job[a].perm \in Perm /\ job[a].desc \in Desc

JobsOK == \A a \in Admin : JobOK(a)

\* The store that is being loaded has the steady users from its first query on.
DraftKnows ==
  main \in {"groups", "members", "publish"} => \A u \in Steady : draft.users[u] = users[u]

\* One administrator at a time: what he checked stays true until he writes.
Checked ==
  \A a \in Admin :
    LET j == job[a] IN
    /\ cli[a] = "write" /\ j.op = "addgroup" => j.group \in dir
    /\ cli[a] \in {"read", "write"} /\ j.op \in {"archive", "updategroup"} => GroupExists(j.group)
    /\ cli[a] = "rmdir" => ~ GroupExists(j.group)

-----------------------------------------------------------------------------

LEMMA NoJobType == NoJob \in Job
BY DEF NoJob, Job, Archive

LEMMA InitTypes == Init => TypeOK /\ JobsOK
<1> SUFFICES ASSUME Init PROVE TypeOK /\ JobsOK
  OBVIOUS
<1>1. Acls \in [Group -> Acl \cup {NoRow}]
  BY DEF Init, Acls, AclOf, Acl, Row
<1>2. Content \in Store
  <2>1. Joined \subseteq User \X Group
    BY DEF Init, Joined
  <2> QED BY <1>1, <2>1 DEF Init, Content, Store
<1>3. EmptyStore \in Store
  BY DEF EmptyStore, Store
<1>4. store \in Store \cup {NoStore}
  BY <1>2 DEF Init
<1>5. TypeOK
  <2>1. dir \in SUBSET Group
    BY DEF Init, Path
  <2> QED BY <1>3, <1>4, <2>1, NoJobType, AdminAssumption DEF Init, TypeOK
<1>6. JobsOK
  BY DEF Init, JobsOK, JobOK, NoJob, UserOps, GroupOps
<1> QED BY <1>5, <1>6

\* A command that starts, leaves, or goes on with the same job.
LEMMA StartTypes ==
  ASSUME TypeOK, JobsOK, NEW a \in Admin, NEW label \in {"check", "read", "write"},
         NEW j \in Job, Start(a, label, j),
         label = "check" => j.op \in GroupOps,
         label = "read" => j.op = "updateuser",
         label = "write" => j.op \in {"adduser", "deleteuser"},
         j.op \in UserOps => j.user \in User \ Steady,
         j.op = "adduser" => j.pass \in Password,
         j.op \in GroupOps => j.group \in Group,
         j.op = "addgroup" => j.perm \in Perm /\ j.desc \in Desc
  PROVE  TypeOK' /\ JobsOK'
<1> USE DEF Start, tables, admins, server
<1>1. left' \in Nat
  <2>1. left \in Nat /\ left > 0 /\ left' = left - 1
    BY DEF TypeOK
  <2> QED BY <2>1
<1>2. cli' \in [Admin -> {"idle", "check", "read", "mkdir", "write", "rmdir", "signal"}]
  BY DEF TypeOK
<1>3. job' \in [Admin -> Job]
  BY DEF TypeOK
<1>4. TypeOK'
  BY <1>1, <1>2, <1>3 DEF TypeOK
<1>5. ASSUME NEW b \in Admin PROVE JobOK(b)'
  <2>1. CASE b # a
    <3>1. cli'[b] = cli[b] /\ job'[b] = job[b] /\ JobOK(b)
      BY <2>1 DEF TypeOK, JobsOK
    <3> QED BY <3>1 DEF JobOK
  <2>2. CASE b = a
    <3>1. cli'[b] = label /\ job'[b] = j
      BY <2>2 DEF TypeOK
    <3> QED BY <3>1 DEF JobOK, UserOps, GroupOps
  <2> QED BY <2>1, <2>2
<1> QED BY <1>4, <1>5 DEF JobsOK

LEMMA LeaveTypes ==
  ASSUME TypeOK, JobsOK, NEW a \in Admin, Leave(a)
  PROVE  /\ cli' \in [Admin -> {"idle", "check", "read", "mkdir", "write", "rmdir", "signal"}]
         /\ job' \in [Admin -> Job] /\ seen' \in [Admin -> Row \cup {NoRow}]
         /\ JobsOK'
<1>1. /\ cli' \in [Admin -> {"idle", "check", "read", "mkdir", "write", "rmdir", "signal"}]
      /\ job' \in [Admin -> Job] /\ seen' \in [Admin -> Row \cup {NoRow}]
  BY NoJobType DEF Leave, TypeOK
<1>2. ASSUME NEW b \in Admin PROVE JobOK(b)'
  <2>1. CASE b # a
    <3>1. cli'[b] = cli[b] /\ job'[b] = job[b] /\ JobOK(b)
      BY <2>1 DEF Leave, TypeOK, JobsOK
    <3> QED BY <3>1 DEF JobOK
  <2>2. CASE b = a
    <3>1. cli'[b] = "idle" /\ job'[b] = NoJob
      BY <2>2 DEF Leave, TypeOK
    <3> QED BY <3>1 DEF JobOK, NoJob, UserOps, GroupOps
  <2> QED BY <2>1, <2>2
<1> QED BY <1>1, <1>2 DEF JobsOK

\* Going on keeps the others' jobs, and one's own where the new place allows it.
LEMMA GoTypes ==
  ASSUME TypeOK, JobsOK, NEW a \in Admin,
         NEW label \in {"mkdir", "read", "write", "rmdir", "signal"},
         Goto(a, label), job' = job,
         label = "read" => job[a].op = "updategroup",
         label = "mkdir" => job[a].op = "addgroup",
         label = "write" => job[a].op \in UserOps \cup GroupOps,
         label = "write" /\ job[a].op = "updateuser" => job[a].pass \in Password,
         label = "rmdir" => job[a].op = "deletegroup"
  PROVE  /\ cli' \in [Admin -> {"idle", "check", "read", "mkdir", "write", "rmdir", "signal"}]
         /\ job' \in [Admin -> Job] /\ JobsOK'
<1>1. /\ cli' \in [Admin -> {"idle", "check", "read", "mkdir", "write", "rmdir", "signal"}]
      /\ job' \in [Admin -> Job]
  BY DEF Goto, TypeOK
<1>2. ASSUME NEW b \in Admin PROVE JobOK(b)'
  <2>1. CASE b # a
    <3>1. cli'[b] = cli[b] /\ job'[b] = job[b] /\ JobOK(b)
      BY <2>1 DEF Goto, TypeOK, JobsOK
    <3> QED BY <3>1 DEF JobOK
  <2>2. CASE b = a
    <3>1. cli'[b] = label /\ job'[b] = job[b] /\ JobOK(b)
      BY <2>2 DEF Goto, TypeOK, JobsOK
    <3> QED BY <2>2, <3>1 DEF JobOK
  <2> QED BY <2>1, <2>2
<1> QED BY <1>1, <1>2 DEF JobsOK

LEMMA CommandTypes ==
  ASSUME TypeOK, JobsOK, NEW a \in Admin, Command(a)
  PROVE  TypeOK' /\ JobsOK'
<1> USE NoJobType
<1>1. CASE AddUser(a)
  <2>1. PICK u \in User \ Steady, p \in Password, gs \in Lists :
          Start(a, "write", [NoJob EXCEPT !.op = "adduser", !.user = u, !.pass = p, !.groups = gs])
    BY <1>1 DEF AddUser
  <2> DEFINE j == [NoJob EXCEPT !.op = "adduser", !.user = u, !.pass = p, !.groups = gs]
  <2>2. j \in Job /\ j.op = "adduser" /\ j.user = u /\ j.pass = p
    BY DEF Job, NoJob, Lists, Archive
  <2>3. Start(a, "write", j)
    BY <2>1
  <2> HIDE DEF j
  <2> QED BY <2>2, <2>3, StartTypes DEF UserOps, GroupOps
<1>2. CASE DeleteUser(a)
  <2>1. PICK u \in User \ Steady :
          Start(a, "write", [NoJob EXCEPT !.op = "deleteuser", !.user = u])
    BY <1>2 DEF DeleteUser
  <2> DEFINE j == [NoJob EXCEPT !.op = "deleteuser", !.user = u]
  <2>2. j \in Job /\ j.op = "deleteuser" /\ j.user = u
    BY DEF Job, NoJob, Archive
  <2>3. Start(a, "write", j)
    BY <2>1
  <2> HIDE DEF j
  <2> QED BY <2>2, <2>3, StartTypes DEF UserOps, GroupOps
<1>3. CASE UpdateUser(a)
  <2>1. PICK u \in User \ Steady, p \in Password \cup {Keep}, gs \in Lists \cup {{}} :
          Start(a, "read", [NoJob EXCEPT !.op = "updateuser", !.user = u, !.pass = p, !.groups = gs])
    BY <1>3 DEF UpdateUser
  <2> DEFINE j == [NoJob EXCEPT !.op = "updateuser", !.user = u, !.pass = p, !.groups = gs]
  <2>2. j \in Job /\ j.op = "updateuser" /\ j.user = u
    BY DEF Job, NoJob, Lists, Archive
  <2>3. Start(a, "read", j)
    BY <2>1
  <2> HIDE DEF j
  <2> QED BY <2>2, <2>3, StartTypes DEF UserOps, GroupOps
<1>4. CASE AddGroup(a)
  <2>1. PICK g \in Group, p \in Perm, d \in Desc :
          Start(a, "check", [NoJob EXCEPT !.op = "addgroup", !.group = g, !.perm = p, !.desc = d])
    BY <1>4 DEF AddGroup
  <2> DEFINE j == [NoJob EXCEPT !.op = "addgroup", !.group = g, !.perm = p, !.desc = d]
  <2>2. j \in Job /\ j.op = "addgroup" /\ j.group = g /\ j.perm = p /\ j.desc = d
    BY DEF Job, NoJob, Archive
  <2>3. Start(a, "check", j)
    BY <2>1
  <2> HIDE DEF j
  <2> QED BY <2>2, <2>3, StartTypes DEF UserOps, GroupOps
<1>5. CASE DeleteGroup(a)
  <2>1. PICK g \in Group, op \in {"deletegroup", "archive"} :
          Start(a, "check", [NoJob EXCEPT !.op = op, !.group = g])
    BY <1>5 DEF DeleteGroup
  <2> DEFINE j == [NoJob EXCEPT !.op = op, !.group = g]
  <2>2. j \in Job /\ j.op \in {"deletegroup", "archive"} /\ j.group = g
    BY DEF Job, NoJob, Archive
  <2>3. Start(a, "check", j)
    BY <2>1
  <2> HIDE DEF j
  <2> QED BY <2>2, <2>3, StartTypes DEF UserOps, GroupOps
<1>6. CASE UpdateGroup(a)
  <2>1. PICK g \in Group, p \in Perm \cup {Keep}, d \in Desc \cup {Keep}, x \in Archive :
          Start(a, "check", [NoJob EXCEPT !.op = "updategroup", !.group = g, !.perm = p,
                                          !.desc = d, !.archive = x])
    BY <1>6 DEF UpdateGroup
  <2> DEFINE j == [NoJob EXCEPT !.op = "updategroup", !.group = g, !.perm = p,
                                !.desc = d, !.archive = x]
  <2>2. j \in Job /\ j.op = "updategroup" /\ j.group = g
    BY ZenonT(40) DEF Job, NoJob, Archive
  <2>3. Start(a, "check", j)
    BY <2>1
  <2> HIDE DEF j
  <2> QED BY <2>2, <2>3, StartTypes DEF UserOps, GroupOps
<1> QED BY <1>1, <1>2, <1>3, <1>4, <1>5, <1>6 DEF Command

LEMMA MembershipsType ==
  ASSUME NEW u \in User, NEW gs \in {All} \cup SUBSET Group, member \in SUBSET (User \X Group)
  PROVE  Memberships(u, gs) \in SUBSET (User \X Group)
<1>1. Named(gs) \subseteq Group
  BY DEF Named
<1>2. {<<u, g>> : g \in Named(gs)} \subseteq User \X Group
  BY <1>1
<1>3. {m \in member : m[1] # u} \subseteq User \X Group
  OBVIOUS
<1> QED BY <1>2, <1>3 DEF Memberships

\* The transaction keeps the types of the tables.
LEMMA WriteTables ==
  ASSUME TypeOK, JobsOK, NEW a \in Admin, cli[a] = "write", WriteUser(a) \/ WriteGroup(a)
  PROVE  /\ users' \in [User -> Password \cup {NoRow}] /\ userId' \in [User -> Nat]
         /\ groups' \in [Group -> Row \cup {NoRow}] /\ member' \in SUBSET (User \X Group)
         /\ \A u \in Steady : users'[u] = users[u]
<1> DEFINE j == job[a]
<1>1. /\ j \in Job /\ JobOK(a) /\ j.groups \in {All} \cup SUBSET Group
      /\ j.user \in User \cup {Keep} /\ j.perm \in Perm \cup {Keep} /\ j.desc \in Desc \cup {Keep}
  BY DEF TypeOK, JobsOK, Job
<1>2. /\ users \in [User -> Password \cup {NoRow}] /\ userId \in [User -> Nat]
      /\ groups \in [Group -> Row \cup {NoRow}] /\ member \in SUBSET (User \X Group)
      /\ seen[a] \in Row \cup {NoRow} /\ Steady \subseteq User
  BY AdminAssumption DEF TypeOK
<1>3. CASE WriteUser(a)
  <2>1. CASE j.op = "adduser"
    <3>1. j.user \in User \ Steady /\ j.pass \in Password
      BY <1>1, <2>1 DEF JobOK, UserOps
    <3>2. /\ users' = [users EXCEPT ![j.user] = j.pass]
          /\ userId' = [userId EXCEPT ![j.user] = @ + 1]
          /\ member' = Memberships(j.user, j.groups) /\ groups' = groups
      BY <1>3, <2>1 DEF WriteUser
    <3>3. member' \in SUBSET (User \X Group)
      BY <1>1, <1>2, <3>1, <3>2, MembershipsType
    <3>4. userId' \in [User -> Nat]
      <4>1. userId[j.user] + 1 \in Nat
        BY <1>2, <3>1
      <4>2. userId' = [userId EXCEPT ![j.user] = userId[j.user] + 1]
        BY <3>2
      <4> QED BY <1>2, <4>1, <4>2
    <3> QED BY <1>2, <3>1, <3>2, <3>3, <3>4
  <2>2. CASE j.op = "deleteuser"
    <3>1. j.user \in User \ Steady
      BY <1>1, <2>2 DEF JobOK, UserOps
    <3>2. /\ users' = [users EXCEPT ![j.user] = NoRow] /\ userId' = userId
          /\ member' = Memberships(j.user, {}) /\ groups' = groups
      BY <1>3, <2>2 DEF WriteUser
    <3>3. member' \in SUBSET (User \X Group)
      BY <1>2, <3>1, <3>2, MembershipsType
    <3> QED BY <1>2, <3>1, <3>2, <3>3
  <2>3. CASE j.op = "updateuser"
    <3>1. j.user \in User \ Steady /\ j.pass \in Password
      BY <1>1, <2>3 DEF JobOK, UserOps
    <3>2. /\ users' \in {users, [users EXCEPT ![j.user] = j.pass]} /\ userId' = userId
          /\ member' \in {member, Memberships(j.user, j.groups)} /\ groups' = groups
      BY <1>3, <2>3 DEF WriteUser
    <3>3. member' \in SUBSET (User \X Group)
      BY <1>1, <1>2, <3>1, <3>2, MembershipsType
    <3> QED BY <1>2, <3>1, <3>2, <3>3
  <2> QED BY <1>3, <2>1, <2>2, <2>3 DEF WriteUser
<1>4. CASE WriteGroup(a)
  <2>0. users' = users /\ userId' = userId
    BY <1>4 DEF WriteGroup
  <2>1. CASE j.op = "addgroup"
    <3>1. Written(j) \in Row
      BY <1>1, <2>1 DEF JobOK, Written, Row
    <3>2. groups' = [groups EXCEPT ![j.group] = Written(j)] /\ member' = member
      BY <1>4, <2>1 DEF WriteGroup
    <3> QED BY <1>2, <2>0, <3>1, <3>2
  <2>2. CASE j.op = "deletegroup"
    <3>1. groups' = [groups EXCEPT ![j.group] = NoRow] /\ member' = {m \in member : m[2] # j.group}
      BY <1>4, <2>2 DEF WriteGroup
    <3> QED BY <1>2, <2>0, <3>1
  <2>3. CASE j.op = "archive"
    <3>1. /\ groups' = [groups EXCEPT ![j.group].archived = TRUE] /\ member' = member
          /\ j.group \in Group /\ groups[j.group] # NoRow
      BY <1>1, <1>4, <2>3 DEF WriteGroup, GroupExists, JobOK, GroupOps
    <3>2. groups[j.group] \in Row
      BY <1>2, <3>1
    <3>3. groups' \in [Group -> Row \cup {NoRow}]
      BY <1>2, <3>1, <3>2 DEF Row
    <3> QED BY <1>2, <2>0, <3>1, <3>3
  <2>4. CASE j.op = "updategroup"
    <3> DEFINE row0 == IF seen[a] = NoRow THEN Default ELSE seen[a]
    <3>1. row0 \in Row
      BY <1>2, AdminAssumption DEF Default, Row
    <3>2. Chosen(j, row0) \subseteq Row
      <4> HIDE DEF row0
      <4>1. row0.perm \in Perm /\ row0.archived \in BOOLEAN /\ row0.desc \in Desc
        BY <3>1 DEF Row
      <4>2. ASSUME NEW row \in Chosen(j, row0) PROVE row \in Row
        <5> HIDE DEF j
        <5>1. PICK x \in IF j.archive = "asked" THEN BOOLEAN ELSE {row0.archived \/ j.archive = "yes"} :
                row = [perm |-> IF j.perm = Keep THEN row0.perm ELSE j.perm,
                       archived |-> x,
                       desc |-> IF j.desc = Keep THEN row0.desc ELSE j.desc]
          BY <4>2, Zenon DEF Chosen
        <5>2. x \in BOOLEAN
          BY <5>1
        <5>3. /\ (IF j.perm = Keep THEN row0.perm ELSE j.perm) \in Perm
              /\ (IF j.desc = Keep THEN row0.desc ELSE j.desc) \in Desc
          BY <1>1, <4>1
        <5> QED BY <5>1, <5>2, <5>3 DEF Row
      <4> QED BY <4>2
    <3>3. PICK row \in Chosen(j, row0) : groups' = [groups EXCEPT ![j.group] = row]
      BY <1>4, <2>4 DEF WriteGroup
    <3>4. member' = member
      BY <1>4, <2>4 DEF WriteGroup
    <3> QED BY <1>2, <2>0, <3>2, <3>3, <3>4
  <2> QED BY <1>4, <2>1, <2>2, <2>3, <2>4 DEF WriteGroup
<1> QED BY <1>3, <1>4

LEMMA StepTypes ==
  ASSUME TypeOK, JobsOK, NEW a \in Admin, Step(a)
  PROVE  TypeOK' /\ JobsOK'
<1> USE DEF tables, admins, server, counters
<1>0. JobOK(a) /\ job[a] \in Job
  BY DEF JobsOK, TypeOK
<1>1. CASE Check(a)
  <2>1. job[a].op \in GroupOps
    BY <1>0, <1>1 DEF Check, JobOK
  <2>2. /\ AfterCheck[job[a].op] \in {"mkdir", "read", "write"}
        /\ AfterCheck[job[a].op] = "read" => job[a].op = "updategroup"
        /\ AfterCheck[job[a].op] = "mkdir" => job[a].op = "addgroup"
    BY <2>1 DEF AfterCheck, GroupOps
  <2>3. Goto(a, AfterCheck[job[a].op]) /\ job' = job
    BY <1>1 DEF Check
  <2>4. job[a].op # "updateuser"
    BY <2>1 DEF GroupOps
  <2>5. /\ cli' \in [Admin -> {"idle", "check", "read", "mkdir", "write", "rmdir", "signal"}]
        /\ job' \in [Admin -> Job] /\ JobsOK'
    BY <2>1, <2>2, <2>3, <2>4, GoTypes
  <2> QED BY <1>1, <2>5 DEF Check, TypeOK
<1>2. CASE CheckFail(a)
  BY <1>2, LeaveTypes DEF CheckFail, TypeOK
<1>3. CASE Read(a)
  <2>1. CASE job[a].op = "updategroup"
    <3>1. job' = job /\ seen' = [seen EXCEPT ![a] = groups[job[a].group]] /\ Goto(a, "write")
      BY <1>3, <2>1 DEF Read
    <3>2. job[a].group \in Group
      BY <1>0, <2>1 DEF JobOK, GroupOps
    <3>3. seen' \in [Admin -> Row \cup {NoRow}]
      BY <3>1, <3>2 DEF TypeOK
    <3>4. /\ cli' \in [Admin -> {"idle", "check", "read", "mkdir", "write", "rmdir", "signal"}]
          /\ job' \in [Admin -> Job] /\ JobsOK'
      BY <2>1, <3>1, GoTypes DEF UserOps, GroupOps
    <3> QED BY <1>3, <3>3, <3>4 DEF Read, TypeOK
  <2>2. CASE job[a].op = "updateuser"
    <3> DEFINE u == job[a].user
               pass == IF job[a].pass = Keep THEN users[u] ELSE job[a].pass
    <3>1. /\ users[u] # NoRow /\ Goto(a, "write") /\ seen' = seen
          /\ job' = [job EXCEPT ![a].pass = IF @ = Keep THEN users[u] ELSE @,
                                ![a].id = userId[u]]
      BY <1>3, <2>2 DEF Read
    <3>2. u \in User \ Steady
      BY <1>0, <2>2 DEF JobOK, UserOps
    <3>3. pass \in Password /\ userId[u] \in Nat
      BY <1>0, <3>1, <3>2 DEF TypeOK, Job
    <3>4. job' = [job EXCEPT ![a] = [job[a] EXCEPT !.pass = pass, !.id = userId[u]]]
      BY <1>0, <3>1 DEF TypeOK, Job
    <3>5. [job[a] EXCEPT !.pass = pass, !.id = userId[u]] \in Job
      <4> HIDE DEF u, pass
      <4> QED BY <1>0, <3>3 DEF Job
    <3>6. job' \in [Admin -> Job]
      BY <3>4, <3>5 DEF TypeOK
    <3>7. cli' \in [Admin -> {"idle", "check", "read", "mkdir", "write", "rmdir", "signal"}]
      BY <3>1 DEF Goto, TypeOK
    <3>8. ASSUME NEW b \in Admin PROVE JobOK(b)'
      <4>1. CASE b # a
        <5>1. cli'[b] = cli[b] /\ job'[b] = job[b] /\ JobOK(b)
          BY <3>1, <3>4, <4>1 DEF Goto, TypeOK, JobsOK
        <5> QED BY <5>1 DEF JobOK
      <4>2. CASE b = a
        <5>1. cli'[b] = "write" /\ job'[b] = [job[a] EXCEPT !.pass = pass, !.id = userId[u]]
          BY <3>1, <3>4, <4>2 DEF Goto, TypeOK
        <5>2. job'[b].op = "updateuser" /\ job'[b].user = u /\ job'[b].pass = pass
          <6> HIDE DEF pass
          <6> QED BY <1>0, <2>2, <5>1 DEF Job
        <5> HIDE DEF pass, u
        <5> QED BY <3>2, <3>3, <5>1, <5>2 DEF JobOK, UserOps, GroupOps
      <4> QED BY <4>1, <4>2
    <3> QED BY <1>3, <3>1, <3>6, <3>7, <3>8 DEF Read, TypeOK, JobsOK
  <2> QED BY <1>3, <2>1, <2>2 DEF Read
<1>4. CASE ReadFail(a)
  BY <1>4, LeaveTypes DEF ReadFail, TypeOK
<1>5. CASE MakeDir(a)
  <2>1. job[a].op = "addgroup" /\ Goto(a, "write") /\ job' = job
    BY <1>0, <1>5 DEF MakeDir, JobOK
  <2>2. /\ cli' \in [Admin -> {"idle", "check", "read", "mkdir", "write", "rmdir", "signal"}]
        /\ job' \in [Admin -> Job] /\ JobsOK'
    BY <2>1, GoTypes DEF GroupOps
  <2>3. dir' \in SUBSET Group
    BY <1>5 DEF MakeDir, TypeOK, Path
  <2> QED BY <1>5, <2>2, <2>3 DEF MakeDir, TypeOK
<1>6. CASE Write(a)
  <2> DEFINE label == IF job[a].op = "deletegroup" THEN "rmdir" ELSE "signal"
  <2>1. Goto(a, label) /\ job' = job /\ cli[a] = "write" /\ (WriteUser(a) \/ WriteGroup(a))
    BY <1>6 DEF Write
  <2>2. /\ cli' \in [Admin -> {"idle", "check", "read", "mkdir", "write", "rmdir", "signal"}]
        /\ job' \in [Admin -> Job] /\ JobsOK'
    BY <2>1, GoTypes
  <2>3. /\ users' \in [User -> Password \cup {NoRow}] /\ userId' \in [User -> Nat]
        /\ groups' \in [Group -> Row \cup {NoRow}] /\ member' \in SUBSET (User \X Group)
    BY <2>1, WriteTables
  <2> QED BY <1>6, <2>2, <2>3 DEF Write, TypeOK
<1>7. CASE WriteFail(a)
  BY <1>7, LeaveTypes DEF WriteFail, TypeOK
<1>8. CASE RemoveDir(a)
  <2>1. Goto(a, "signal") /\ job' = job
    BY <1>8 DEF RemoveDir
  <2>2. /\ cli' \in [Admin -> {"idle", "check", "read", "mkdir", "write", "rmdir", "signal"}]
        /\ job' \in [Admin -> Job] /\ JobsOK'
    BY <2>1, GoTypes
  <2> QED BY <1>8, <2>2 DEF RemoveDir, TypeOK
<1>9. CASE Trigger(a)
  BY <1>9, LeaveTypes DEF Trigger, TypeOK
<1> QED BY <1>1, <1>2, <1>3, <1>4, <1>5, <1>6, <1>7, <1>8, <1>9 DEF Step

\* The server's steps.
LEMMA ServeTypes ==
  ASSUME TypeOK, JobsOK, Serve \/ LoadFail
  PROVE  TypeOK' /\ JobsOK'
<1> USE DEF tables, admins, counters, Loaded
<1>0. EmptyStore \in Store
  BY DEF EmptyStore, Store
<1>1. CASE Receive
  BY <1>1 DEF Receive, TypeOK, JobsOK, JobOK
<1>2. CASE LoadUsers
  <2>1. draft' \in Store
    <3>1. draft' = [EmptyStore EXCEPT !.users = users]
      BY <1>2 DEF LoadUsers
    <3> QED BY <1>0, <3>1 DEF TypeOK, Store
  <2> QED BY <1>2, <2>1 DEF LoadUsers, TypeOK, JobsOK, JobOK
<1>3. CASE LoadGroups
  <2>1. Acls \in [Group -> Acl \cup {NoRow}]
    BY DEF Acls, AclOf, Acl, Row, TypeOK
  <2>2. draft' \in Store
    <3>1. draft' = [draft EXCEPT !.groups = Acls]
      BY <1>3 DEF LoadGroups
    <3> QED BY <2>1, <3>1 DEF TypeOK, Store
  <2> QED BY <1>3, <2>2 DEF LoadGroups, TypeOK, JobsOK, JobOK
<1>4. CASE LoadMembers
  <2>1. Joined \in SUBSET (User \X Group)
    BY DEF Joined, TypeOK
  <2>2. draft' \in Store
    <3>1. draft' = [draft EXCEPT !.member = Joined]
      BY <1>4 DEF LoadMembers
    <3> QED BY <2>1, <3>1 DEF TypeOK, Store
  <2> QED BY <1>4, <2>2 DEF LoadMembers, TypeOK, JobsOK, JobOK
<1>5. CASE Publish
  BY <1>0, <1>5 DEF Publish, TypeOK, JobsOK, JobOK
<1>6. CASE WritePidFile
  BY <1>6 DEF WritePidFile, TypeOK, JobsOK, JobOK
<1>7. CASE NotifySignals
  BY <1>7 DEF NotifySignals, TypeOK, JobsOK, JobOK
<1>8. CASE LoadFail
  BY <1>0, <1>8 DEF LoadFail, TypeOK, JobsOK, JobOK
<1> QED BY <1>1, <1>2, <1>3, <1>4, <1>5, <1>6, <1>7, <1>8 DEF Serve

LEMMA KilledTypes ==
  ASSUME TypeOK, JobsOK, NEW a \in Admin, Killed(a)
  PROVE  TypeOK' /\ JobsOK'
BY LeaveTypes DEF Killed, TypeOK, tables, server

LEMMA TypeStep == TypeOK /\ JobsOK /\ [Next]_vars => TypeOK' /\ JobsOK'
<1> SUFFICES ASSUME TypeOK, JobsOK, [Next]_vars PROVE TypeOK' /\ JobsOK'
  OBVIOUS
<1>1. CASE UNCHANGED vars
  BY <1>1 DEF vars, tables, admins, server, counters, TypeOK, JobsOK, JobOK
<1> QED BY <1>1, CommandTypes, StepTypes, KilledTypes, ServeTypes DEF Next, Quiet

-----------------------------------------------------------------------------
(* Users whom nobody changes.                                              *)

LEMMA SteadyStep ==
  TypeOK /\ JobsOK /\ DraftKnows /\ SteadyUsersKnown /\ [Next]_vars
    => DraftKnows' /\ SteadyUsersKnown'
<1> SUFFICES ASSUME TypeOK, JobsOK, DraftKnows, SteadyUsersKnown, [Next]_vars
             PROVE  DraftKnows' /\ SteadyUsersKnown'
  OBVIOUS
<1>1. ASSUME UNCHANGED <<store, draft, main>>, \A u \in Steady : users'[u] = users[u]
      PROVE  DraftKnows' /\ SteadyUsersKnown'
  BY <1>1 DEF DraftKnows, SteadyUsersKnown
<1> USE DEF tables, admins, server, counters
<1>2. ASSUME NEW a \in Admin, Command(a) \/ Killed(a) PROVE DraftKnows' /\ SteadyUsersKnown'
  <2>1. UNCHANGED <<store, draft, main, users>>
    BY <1>2 DEF Command, AddUser, DeleteUser, UpdateUser, AddGroup, DeleteGroup, UpdateGroup,
                Start, Killed
  <2> QED BY <1>1, <2>1
<1>3. ASSUME NEW a \in Admin, Step(a) PROVE DraftKnows' /\ SteadyUsersKnown'
  <2>1. CASE Write(a)
    <3>1. UNCHANGED <<store, draft, main>> /\ \A u \in Steady : users'[u] = users[u]
      BY <2>1, WriteTables DEF Write
    <3> QED BY <1>1, <3>1
  <2>2. CASE ~ Write(a)
    <3>1. UNCHANGED <<store, draft, main, users>>
      BY <1>3, <2>2 DEF Step, Check, CheckFail, Read, ReadFail, MakeDir, WriteFail, RemoveDir, Trigger
    <3> QED BY <1>1, <3>1
  <2> QED BY <2>1, <2>2
<1>4. CASE Receive \/ WritePidFile \/ NotifySignals \/ LoadFail
  BY <1>4 DEF Receive, WritePidFile, NotifySignals, LoadFail, Loaded, DraftKnows, SteadyUsersKnown
<1>5. CASE LoadUsers
  <2>1. draft'.users = users /\ users' = users /\ store' = store
    BY <1>5 DEF LoadUsers, EmptyStore
  <2> QED BY <2>1 DEF DraftKnows, SteadyUsersKnown
<1>6. CASE LoadGroups \/ LoadMembers
  <2>1. /\ draft'.users = draft.users /\ users' = users /\ store' = store
        /\ main \in {"groups", "members"}
    BY <1>6 DEF LoadGroups, LoadMembers, At, TypeOK, Store
  <2> QED BY <2>1 DEF DraftKnows, SteadyUsersKnown
<1>7. CASE Publish
  <2>1. store' = draft /\ users' = users /\ main = "publish" /\ main' \in {"wait", "pidfile"}
    BY <1>7 DEF Publish, At, Loaded
  <2> QED BY <2>1 DEF DraftKnows, SteadyUsersKnown
<1>8. CASE UNCHANGED vars
  BY <1>1, <1>8 DEF vars
<1> QED BY <1>2, <1>3, <1>4, <1>5, <1>6, <1>7, <1>8 DEF Next, Serve, Quiet

-----------------------------------------------------------------------------
(* Groups and directories, with one administrator.                         *)

OneAdministrator == \A a, b \in Admin : a = b

LEMMA InitDirectories == Init => Checked /\ SpoolBehindRow
<1> SUFFICES ASSUME Init PROVE Checked /\ SpoolBehindRow
  OBVIOUS
<1>1. Checked
  BY DEF Init, Checked
<1>2. ASSUME NEW g \in Group, GroupExists(g) PROVE g \in dir
  <2>1. g \in Path(g)
    BY AdminAssumption DEF Path
  <2> QED BY <1>2, <2>1 DEF Init
<1> QED BY <1>1, <1>2 DEF SpoolBehindRow

LEMMA SpoolStart ==
  ASSUME OneAdministrator, TypeOK, SpoolBehindRow, NEW a \in Admin, NEW j, NEW label,
         label # "idle", label # "rmdir", label = "check" \/ j.op \in UserOps,
         Start(a, label, j)
  PROVE  Checked' /\ SpoolBehindRow'
<1>1. groups' = groups /\ dir' = dir /\ cli'[a] = label /\ job'[a] = j
  BY DEF Start, tables, TypeOK
<1>2. \A b \in Admin : b = a
  BY DEF OneAdministrator
<1> QED BY <1>1, <1>2 DEF Checked, SpoolBehindRow, GroupExists, UserOps

LEMMA SpoolCommand ==
  ASSUME OneAdministrator, TypeOK, SpoolBehindRow, NEW a \in Admin, Command(a)
  PROVE  Checked' /\ SpoolBehindRow'
<1>1. CASE AddUser(a)
  <2>1. PICK u \in User \ Steady, p \in Password, gs \in Lists :
          Start(a, "write", [NoJob EXCEPT !.op = "adduser", !.user = u, !.pass = p, !.groups = gs])
    BY <1>1 DEF AddUser
  <2> QED BY <2>1, SpoolStart DEF NoJob, UserOps
<1>2. CASE DeleteUser(a)
  <2>1. PICK u \in User \ Steady :
          Start(a, "write", [NoJob EXCEPT !.op = "deleteuser", !.user = u])
    BY <1>2 DEF DeleteUser
  <2> QED BY <2>1, SpoolStart DEF NoJob, UserOps
<1>3. CASE UpdateUser(a)
  <2>1. PICK u \in User \ Steady, p \in Password \cup {Keep}, gs \in Lists \cup {{}} :
          Start(a, "read", [NoJob EXCEPT !.op = "updateuser", !.user = u, !.pass = p, !.groups = gs])
    BY <1>3 DEF UpdateUser
  <2> QED BY <2>1, SpoolStart DEF NoJob, UserOps
<1>4. CASE AddGroup(a) \/ DeleteGroup(a) \/ UpdateGroup(a)
  <2>1. PICK j : Start(a, "check", j)
    BY <1>4 DEF AddGroup, DeleteGroup, UpdateGroup
  <2> QED BY <2>1, SpoolStart
<1> QED BY <1>1, <1>2, <1>3, <1>4 DEF Command

LEMMA SpoolWrite ==
  ASSUME OneAdministrator, TypeOK, JobsOK, Checked, SpoolBehindRow, NEW a \in Admin, Write(a)
  PROVE  Checked' /\ SpoolBehindRow'
<1> DEFINE j == job[a]
           g == job[a].group
<1>0. groups \in [Group -> Row \cup {NoRow}] /\ JobOK(a) /\ \A b \in Admin : b = a
  BY DEF TypeOK, JobsOK, OneAdministrator
<1>1. /\ cli[a] = "write" /\ dir' = dir /\ job' = job
      /\ cli'[a] = IF j.op = "deletegroup" THEN "rmdir" ELSE "signal"
  BY DEF Write, Goto, TypeOK
<1>2. SpoolBehindRow' /\ (j.op = "deletegroup" => groups'[g] = NoRow)
  <2>1. CASE WriteUser(a)
    <3>1. groups' = groups /\ j.op \in UserOps
      BY <2>1 DEF WriteUser, UserOps
    <3> QED BY <1>1, <3>1 DEF SpoolBehindRow, GroupExists, UserOps
  <2>2. CASE WriteGroup(a)
    <3>1. j.op \in GroupOps /\ g \in Group
      BY <1>0, <2>2 DEF WriteGroup, GroupOps, JobOK
    <3>2. CASE j.op = "deletegroup"
      <4>1. groups' = [groups EXCEPT ![g] = NoRow]
        BY <2>2, <3>2 DEF WriteGroup
      <4> QED BY <1>0, <1>1, <3>1, <4>1 DEF SpoolBehindRow, GroupExists
    <3>3. CASE j.op # "deletegroup"
      <4>1. Alone(g) => g \in dir
        BY <1>1, <3>1, <3>3 DEF Checked, SpoolBehindRow, GroupOps
      <4>2. \A h \in Group : h # g => groups'[h] = groups[h]
        <5>1. \E row : groups' = [groups EXCEPT ![g] = row]
          BY <2>2, <3>1, <3>3 DEF WriteGroup
        <5> QED BY <1>0, <5>1
      <4> QED BY <1>1, <3>3, <4>1, <4>2 DEF SpoolBehindRow, GroupExists
    <3> QED BY <3>2, <3>3
  <2> QED BY <2>1, <2>2 DEF Write
<1>3. Checked'
  BY <1>0, <1>1, <1>2 DEF Checked, GroupExists
<1> QED BY <1>2, <1>3

LEMMA SpoolSteps ==
  ASSUME OneAdministrator, TypeOK, JobsOK, Checked, SpoolBehindRow, NEW a \in Admin, Step(a)
  PROVE  Checked' /\ SpoolBehindRow'
<1> USE DEF tables
<1>0. JobOK(a) /\ \A b \in Admin : b = a
  BY DEF JobsOK, OneAdministrator
<1>1. CASE Check(a)
  <2>1. /\ groups' = groups /\ dir' = dir /\ job' = job /\ Passes(job[a])
        /\ cli'[a] = AfterCheck[job[a].op] /\ job[a].op \in GroupOps
    BY <1>0, <1>1 DEF Check, Goto, TypeOK, JobOK
  <2>2. cli'[a] = IF job[a].op = "addgroup" THEN "mkdir"
                  ELSE IF job[a].op = "updategroup" THEN "read" ELSE "write"
    BY <2>1 DEF AfterCheck, GroupOps
  <2> QED BY <1>0, <2>1, <2>2 DEF Checked, SpoolBehindRow, GroupExists, Passes
<1>2. CASE CheckFail(a) \/ ReadFail(a) \/ WriteFail(a) \/ Trigger(a)
  <2>1. groups' = groups /\ dir' = dir /\ cli'[a] = "idle"
    BY <1>2 DEF CheckFail, ReadFail, WriteFail, Trigger, Leave, TypeOK
  <2> QED BY <1>0, <2>1 DEF Checked, SpoolBehindRow, GroupExists
<1>3. CASE Read(a)
  <2>1. /\ groups' = groups /\ dir' = dir /\ cli[a] = "read" /\ cli'[a] = "write"
        /\ job[a].op \in {"updategroup", "updateuser"}
    BY <1>3 DEF Read, Goto, TypeOK
  <2>2. job'[a].op = job[a].op /\ job'[a].group = job[a].group
    BY <1>3 DEF Read, TypeOK, Job
  <2> QED BY <1>0, <2>1, <2>2 DEF Checked, SpoolBehindRow, GroupExists
<1>4. CASE MakeDir(a)
  <2>1. /\ groups' = groups /\ dir' = dir \cup Path(job[a].group) /\ job' = job
        /\ cli'[a] = "write" /\ job[a].op = "addgroup"
    BY <1>0, <1>4 DEF MakeDir, Goto, TypeOK, JobOK
  <2>2. job[a].group \in Path(job[a].group)
    BY <1>0, <2>1, AdminAssumption DEF JobOK, GroupOps, Path
  <2> QED BY <1>0, <2>1, <2>2 DEF Checked, SpoolBehindRow, GroupExists
<1>5. CASE Write(a)
  BY <1>5, SpoolWrite
<1>6. CASE RemoveDir(a)
  <2> DEFINE h == job[a].group
  <2>1. /\ groups' = groups /\ dir' = dir \ Inside(h) /\ cli[a] = "rmdir"
        /\ cli'[a] = "signal"
    BY <1>6 DEF RemoveDir, Goto, TypeOK
  <2>2. ~ GroupExists(h) /\ h \in Group
    BY <1>0, <2>1 DEF Checked, JobOK, GroupOps
  \* The directory of a group that is alone in its own is not inside another's.
  <2>3. ASSUME NEW g \in Group, Alone(g), g # h PROVE g \notin Inside(h)
    BY <2>2, <2>3 DEF Alone, Inside, Path
  <2> HIDE DEF h
  <2>4. SpoolBehindRow'
    BY <2>1, <2>2, <2>3 DEF SpoolBehindRow, GroupExists, Alone, Path
  <2>5. Checked'
    BY <1>0, <2>1 DEF Checked, GroupExists
  <2> QED BY <2>4, <2>5
<1> QED BY <1>1, <1>2, <1>3, <1>4, <1>5, <1>6 DEF Step

LEMMA SpoolStep ==
  ASSUME OneAdministrator, TypeOK, JobsOK, Checked, SpoolBehindRow, [Next]_vars
  PROVE  Checked' /\ SpoolBehindRow'
<1> USE DEF tables, admins, counters
<1>1. ASSUME UNCHANGED <<groups, dir, cli, job>> PROVE Checked' /\ SpoolBehindRow'
  BY <1>1 DEF Checked, SpoolBehindRow, GroupExists
<1>2. ASSUME NEW a \in Admin, Killed(a) PROVE Checked' /\ SpoolBehindRow'
  <2>1. groups' = groups /\ dir' = dir /\ cli'[a] = "idle"
    BY <1>2 DEF Killed, Leave, TypeOK
  <2>2. \A b \in Admin : b = a
    BY DEF OneAdministrator
  <2> QED BY <2>1, <2>2 DEF Checked, SpoolBehindRow, GroupExists
<1>3. CASE Serve \/ LoadFail
  <2>1. UNCHANGED <<groups, dir, cli, job>>
    BY <1>3 DEF Serve, Receive, LoadUsers, LoadGroups, LoadMembers, Publish, WritePidFile,
                NotifySignals, LoadFail
  <2> QED BY <1>1, <2>1
<1>4. CASE UNCHANGED vars
  BY <1>1, <1>4 DEF vars
<1> QED BY <1>2, <1>3, <1>4, SpoolCommand, SpoolSteps DEF Next, Quiet

-----------------------------------------------------------------------------

Known == TypeOK /\ JobsOK /\ DraftKnows /\ SteadyUsersKnown

\* Types, the commands' places, and the draft together are inductive: what
\* LoadUsers read of a steady user is what the table holds when the store is
\* published (LoadStoreFromDB, db.go:175-231).
THEOREM Inductive == Spec => []Known
<1>1. Init => Known
  <2> SUFFICES ASSUME Init PROVE DraftKnows /\ SteadyUsersKnown
    BY InitTypes DEF Known
  <2>1. main \in {"users", "wait"} /\ store \in {NoStore, Content}
    BY DEF Init
  <2> QED BY <2>1 DEF DraftKnows, SteadyUsersKnown, Content
<1>2. Known /\ [Next]_vars => Known'
  BY TypeStep, SteadyStep DEF Known
<1> QED BY <1>1, <1>2, PTL DEF Spec

\* Tables, commands and server always have their types: no command goes to
\* the database with the password or the columns unset.
THEOREM TypeCorrect == Spec => []TypeOK
<1>1. Known => TypeOK
  BY DEF Known
<1> QED BY <1>1, Inductive, PTL

\* However commands, signals, failed loads and restarts interleave, a user whom
\* nobody changes is known, with his password, to every store that the server
\* uses (loadAuthStore and SetAuthStore, main.go:194-200).
THEOREM SteadyAlwaysKnown == Spec => []SteadyUsersKnown
<1>1. Known => SteadyUsersKnown
  BY DEF Known
<1> QED BY <1>1, Inductive, PTL

\* One administrator who runs one command at a time never leaves a group whose
\* directory is inside no other group's without it, wherever a command is killed
\* (runAddGroup, authcli.go:1064-1100, runDeleteGroup, authcli.go:1140-1157): the
\* checks he made hold until he writes, and RemoveAll reaches only groups below.
THEOREM DirectoryBehindRow ==
  ASSUME OneAdministrator
  PROVE  Spec => []SpoolBehindRow
<1> DEFINE Inv == TypeOK /\ JobsOK /\ Checked /\ SpoolBehindRow
<1>1. Init => Inv
  <2> SUFFICES ASSUME Init PROVE Checked /\ SpoolBehindRow
    BY InitTypes
  <2> QED BY InitDirectories
<1>2. Inv /\ [Next]_vars => Inv'
  BY TypeStep, SpoolStep, OneAdministrator
<1>3. Inv => SpoolBehindRow
  OBVIOUS
<1> HIDE DEF Inv
<1> QED BY <1>1, <1>2, <1>3, PTL DEF Spec

-----------------------------------------------------------------------------
(* What updategroup leaves alone.                                          *)

\* What updategroup read of a group is still what the table holds when it
\* writes.
SeenCurrent ==
  \A a \in Admin :
    cli[a] = "write" /\ job[a].op = "updategroup"
      => seen[a] = groups[job[a].group] /\ GroupExists(job[a].group)

\* Commands that start do not come to write as updategroup, and the others that
\* are not at Read leave no updategroup at the write.
LEMMA SeenSteps ==
  ASSUME OneAdministrator, TypeOK, JobsOK, Checked, SeenCurrent, NEW a \in Admin,
         Command(a) \/ Step(a) \/ Killed(a)
  PROVE  SeenCurrent'
<1>0. JobOK(a) /\ \A b \in Admin : b = a
  BY DEF JobsOK, OneAdministrator
<1>1. ASSUME NEW label, NEW j, Start(a, label, j),
             ~ (label = "write" /\ j.op = "updategroup")
      PROVE  SeenCurrent'
  BY <1>0, <1>1 DEF Start, SeenCurrent, TypeOK
<1>2. CASE Command(a)
  <2>1. CASE AddUser(a)
    <3>1. PICK u \in User \ Steady, p \in Password, gs \in Lists :
            Start(a, "write", [NoJob EXCEPT !.op = "adduser", !.user = u, !.pass = p,
                                            !.groups = gs])
      BY <2>1 DEF AddUser
    <3> QED BY <3>1, <1>1 DEF NoJob
  <2>2. CASE DeleteUser(a)
    <3>1. PICK u \in User \ Steady :
            Start(a, "write", [NoJob EXCEPT !.op = "deleteuser", !.user = u])
      BY <2>2 DEF DeleteUser
    <3> QED BY <3>1, <1>1 DEF NoJob
  <2>3. CASE UpdateUser(a) \/ AddGroup(a) \/ DeleteGroup(a) \/ UpdateGroup(a)
    <3>1. PICK j : Start(a, "read", j) \/ Start(a, "check", j)
      BY <2>3 DEF UpdateUser, AddGroup, DeleteGroup, UpdateGroup
    <3> QED BY <3>1, <1>1
  <2> QED BY <1>2, <2>1, <2>2, <2>3 DEF Command
<1>3. CASE Check(a)
  <2>1. job' = job /\ cli'[a] = AfterCheck[job[a].op] /\ job[a].op \in GroupOps
    BY <1>0, <1>3 DEF Check, Goto, TypeOK, JobOK
  <2>2. job[a].op = "updategroup" => cli'[a] # "write"
    BY <2>1 DEF AfterCheck
  <2> QED BY <1>0, <2>1, <2>2 DEF SeenCurrent
<1>4. CASE Read(a)
  <2>1. /\ groups' = groups
        /\ cli[a] = "read"
        /\ job'[a].op = job[a].op /\ job'[a].group = job[a].group
    BY <1>4 DEF Read, tables, TypeOK, Job
  <2>2. job[a].op = "updategroup" =>
          seen'[a] = groups[job[a].group] /\ GroupExists(job[a].group)
    BY <1>4, <2>1 DEF Read, TypeOK, Checked
  <2> QED BY <1>0, <2>1, <2>2 DEF SeenCurrent, GroupExists
<1>5. CASE MakeDir(a)
  BY <1>0, <1>5 DEF MakeDir, Goto, TypeOK, JobOK, SeenCurrent
<1>6. CASE Write(a) \/ RemoveDir(a)
  <2>1. cli'[a] \in {"rmdir", "signal"}
    BY <1>6 DEF Write, RemoveDir, Goto, TypeOK
  <2> QED BY <1>0, <2>1 DEF SeenCurrent
<1>7. CASE CheckFail(a) \/ ReadFail(a) \/ WriteFail(a) \/ Trigger(a) \/ Killed(a)
  <2>1. cli'[a] = "idle"
    BY <1>7 DEF CheckFail, ReadFail, WriteFail, Trigger, Killed, Leave, TypeOK
  <2> QED BY <1>0, <2>1 DEF SeenCurrent
<1> QED BY <1>2, <1>3, <1>4, <1>5, <1>6, <1>7 DEF Step

\* With one administrator, what he read of a group stays current until he writes.
LEMMA SeenStep ==
  ASSUME OneAdministrator, TypeOK, JobsOK, Checked, SeenCurrent, [Next]_vars
  PROVE  SeenCurrent'
<1>1. ASSUME UNCHANGED <<groups, cli, job, seen>> PROVE SeenCurrent'
  BY <1>1 DEF SeenCurrent, GroupExists
<1>2. CASE Serve \/ LoadFail
  <2>1. UNCHANGED <<groups, cli, job, seen>>
    BY <1>2 DEF Serve, Receive, LoadUsers, LoadGroups, LoadMembers, Publish, WritePidFile,
                NotifySignals, LoadFail, tables, admins
  <2> QED BY <1>1, <2>1
<1>3. CASE UNCHANGED vars
  BY <1>1, <1>3 DEF vars, tables, admins
<1> QED BY <1>2, <1>3, SeenSteps DEF Next, Quiet

\* updategroup writes back what it read of the columns it was not told.
LEMMA WriteKeeps ==
  ASSUME TypeOK, SeenCurrent, NEW a \in Admin, Write(a), job[a].op = "updategroup",
         job[a].group \in Group
  PROVE  Unnamed(job[a], groups[job[a].group], groups'[job[a].group])
<1> DEFINE j == job[a]
           g == job[a].group
<1>1. seen[a] = groups[g] /\ seen[a] # NoRow
  BY DEF Write, SeenCurrent, GroupExists
<1>2. WriteGroup(a)
  BY DEF Write, WriteUser
<1>3. PICK row \in Chosen(j, seen[a]) : groups' = [groups EXCEPT ![g] = row]
  BY <1>1, <1>2 DEF WriteGroup
<1>4. groups'[g] = row
  BY <1>3 DEF TypeOK
<1>5. Unnamed(j, seen[a], row)
  <2>1. seen[a].archived \in BOOLEAN
    BY <1>1 DEF TypeOK, Row
  <2> QED BY <1>3, <2>1 DEF Chosen, Unnamed
<1> QED BY <1>1, <1>4, <1>5

\* One administrator who runs one command at a time finds every column that he
\* did not name as it was (runUpdateGroup, authcli.go:1228-1320): between its
\* GetGroup and its UPDATE, which writes all the columns, nothing else writes the
\* row. With two administrators it does (run admin_omit).
THEOREM OmittedStay ==
  ASSUME OneAdministrator
  PROVE  Spec => OmittedUnchanged
<1> DEFINE Inv == TypeOK /\ JobsOK /\ Checked /\ SpoolBehindRow /\ SeenCurrent
           Kept == \A a \in Admin :
                     LET j == job[a]  g == j.group IN
                     cli[a] = "write" /\ cli'[a] = "signal" /\ j.op = "updategroup"
                       /\ GroupExists(g)
                       => Unnamed(j, groups[g], groups'[g])
<1>1. Init => Inv
  <2> SUFFICES ASSUME Init PROVE Checked /\ SpoolBehindRow /\ SeenCurrent
    BY InitTypes
  <2> QED BY InitDirectories DEF Init, SeenCurrent
<1>2. Inv /\ [Next]_vars => Inv'
  BY TypeStep, SpoolStep, SeenStep, OneAdministrator
<1>3. Inv /\ [Next]_vars => [Kept]_vars
  <2> SUFFICES ASSUME Inv, Next, NEW a \in Admin, cli[a] = "write", cli'[a] = "signal",
                      job[a].op = "updategroup"
               PROVE  Unnamed(job[a], groups[job[a].group], groups'[job[a].group])
    OBVIOUS
  <2>1. \A b \in Admin : b = a
    BY OneAdministrator DEF OneAdministrator
  <2>2. job[a].group \in Group
    BY DEF JobsOK, JobOK, GroupOps
  <2>3. CASE Write(a)
    BY <2>2, <2>3, WriteKeeps
  <2>4. CASE ~ Write(a)
    <3>1. ~ Command(a)
      BY DEF Command, AddUser, DeleteUser, UpdateUser, AddGroup, DeleteGroup, UpdateGroup, Start
    <3>2. ~ (Serve \/ LoadFail \/ Quiet)
      <4>1. Serve \/ LoadFail \/ Quiet => cli' = cli
        BY DEF Serve, Receive, LoadUsers, LoadGroups, LoadMembers, Publish, WritePidFile,
               NotifySignals, LoadFail, Quiet, vars, admins
      <4> QED BY <4>1
    <3>3. Step(a) \/ Killed(a)
      BY <2>1, <3>1, <3>2 DEF Next
    <3>4. WriteFail(a) \/ Killed(a)
      BY <2>4, <3>3 DEF Step, Check, CheckFail, Read, ReadFail, MakeDir, RemoveDir, Trigger
    <3>5. cli'[a] = "idle"
      BY <3>4 DEF WriteFail, Killed, Leave, TypeOK
    <3> QED BY <3>5
  <2> QED BY <2>3, <2>4
<1> HIDE DEF Inv
<1> QED BY <1>1, <1>2, <1>3, PTL DEF Spec, OmittedUnchanged

=============================================================================
