------------------------------- MODULE AuthAdmin -------------------------------
(***************************************************************************)
(* Administration and reload: the commands adduser ... updategroup, each a  *)
(* process of its own that changes the SQLite database and the spool and    *)
(* then sends SIGHUP, and the server, which loads the database into its     *)
(* auth store when it starts and at each SIGHUP (cmd/gonewsd/authcli.go,    *)
(* internal/auth/db.go and store.go, cmd/gonewsd/main.go).                  *)
(*                                                                         *)
(* A statement or transaction on the database is one step; the server's     *)
(* three queries are three.                                                *)
(***************************************************************************)
EXTENDS Naturals

CONSTANTS
  Admin,     \* administrators' shells, each runs one command at a time
  User, Group, Password,
  Perm,      \* values of group_perm and world_perm, taken together
  Desc,      \* values of all the other columns, taken together
  Under,     \* <<h, g>>: the directory of h is that of g or inside it
  Steady,    \* users that no command names
  FromBoot,  \* TRUE: the server is starting; FALSE: it is serving
  MaxCmds,   \* bound: commands
  MaxFaults, \* bound: commands killed, statements that fail
  NoRow, Keep, All, NoStore

Archive == {"omitted", "yes", "no", "asked"}
Row == [perm : Perm, archived : BOOLEAN, desc : Desc]
Job == [op : {"none", "adduser", "deleteuser", "updateuser", "addgroup",
              "deletegroup", "archive", "updategroup"},
        user : User \cup {Keep}, pass : Password \cup {Keep},
        groups : {All} \cup SUBSET Group,  \* All is "*", {} when they are not given
        id : Nat,                          \* the user_id that updateuser read
        group : Group \cup {Keep}, perm : Perm \cup {Keep},
        desc : Desc \cup {Keep}, archive : Archive]
NoJob == [op |-> "none", user |-> Keep, pass |-> Keep, groups |-> {},
          id |-> 0, group |-> Keep, perm |-> Keep, desc |-> Keep, archive |-> "omitted"]

\* What the server keeps of a row.
Acl == [perm : Perm, archived : BOOLEAN]
Store == [users : [User -> Password \cup {NoRow}],
          groups : [Group -> Acl \cup {NoRow}],
          member : SUBSET (User \X Group)]

ASSUME AdminAssumption ==
  /\ MaxCmds \in Nat /\ MaxFaults \in Nat /\ FromBoot \in BOOLEAN
  /\ Under \subseteq Group \X Group /\ \A g \in Group : <<g, g>> \in Under
  /\ \A g, h, k \in Group : <<g, h>> \in Under /\ <<h, k>> \in Under => <<g, k>> \in Under
  /\ Steady \subseteq User /\ Perm # {} /\ Desc # {}
  /\ NoRow \notin Password \cup Row \cup Acl
  /\ \A gs \in SUBSET Group : gs # All
  /\ Keep \notin User \cup Password \cup Group \cup Perm \cup Desc
  /\ NoStore \notin Store

VARIABLES
  users, groups, member, \* the tables of auth.db
  userId,   \* user_id of each name: a user added again is another one
  dir,      \* groups that have a directory in the spool
  cli, job, \* where each command is, and what it is to do
  seen,     \* the row that it read
  store,    \* Server.authStore
  draft,    \* the store that is being loaded
  main,     \* where the server's main goroutine is
  pidfile,  \* the pid file names the server
  notified, \* SIGHUP goes to the channel; otherwise it kills
  sigCh,    \* the channel holds a SIGHUP
  alive,
  left, faults

tables == <<users, userId, groups, member>>
admins == <<cli, job, seen>>
server == <<store, draft, main, pidfile, notified, sigCh, alive>>
counters == <<left, faults>>
vars == <<tables, dir, admins, server, counters>>

-----------------------------------------------------------------------------
(* What is read of the tables.                                             *)

GroupExists(g) == groups[g] # NoRow

\* groupDir takes the dots of a name for separators: the directory of a.b is inside
\* that of a, and a name that ends in a dot has the directory of the one without.
Inside(g) == {h \in Group : <<h, g>> \in Under}
Path(g) == {h \in Group : <<g, h>> \in Under}
Alone(g) == Path(g) = {g}

AclOf(row) == IF row = NoRow THEN NoRow
              ELSE [perm |-> row.perm, archived |-> row.archived]
Acls == [g \in Group |-> AclOf(groups[g])]
\* The JOIN of group_membership with both tables.
Joined == {m \in member : users[m[1]] # NoRow /\ GroupExists(m[2])}

Content == [users |-> users, groups |-> Acls, member |-> Joined]
EmptyStore == [users |-> [u \in User |-> NoRow], groups |-> [g \in Group |-> NoRow],
               member |-> {}]

Init ==
  /\ users \in [User -> Password \cup {NoRow}]
  /\ \A u \in Steady : users[u] # NoRow
  /\ userId = [u \in User |-> 0]
  /\ groups \in [Group -> Row \cup {NoRow}]
  /\ member \in SUBSET (User \X Group)
  /\ member = Joined
  /\ dir = UNION {Path(g) : g \in {h \in Group : GroupExists(h)}}
  /\ cli = [a \in Admin |-> "idle"]
  /\ job = [a \in Admin |-> NoJob]
  /\ seen = [a \in Admin |-> NoRow]
  /\ store = IF FromBoot THEN NoStore ELSE Content
  /\ draft = EmptyStore
  /\ main = IF FromBoot THEN "users" ELSE "wait"
  /\ pidfile = ~ FromBoot
  /\ notified = ~ FromBoot
  /\ sigCh = FALSE
  /\ alive = TRUE
  /\ left = MaxCmds
  /\ faults = 0

-----------------------------------------------------------------------------
(* A command starts.  Flags are parsed and prompts answered; what a prompt  *)
(* leaves blank is Keep.                                                   *)

Start(a, label, j) ==
  /\ cli[a] = "idle" /\ left > 0
  /\ left' = left - 1
  /\ cli' = [cli EXCEPT ![a] = label]
  /\ job' = [job EXCEPT ![a] = j]
  /\ UNCHANGED <<tables, dir, seen, server, faults>>

\* ValidateGroups: the groups named exist, or there are none at all.
Missing(gs) == gs # All /\ \E g \in gs : ~ GroupExists(g)
Valid(gs) == Missing(gs) => \A g \in Group : ~ GroupExists(g)
Lists == {gs \in (SUBSET Group \ {{}}) \cup {All} : Valid(gs)}

AddUser(a) ==
  \E u \in User \ Steady, p \in Password, gs \in Lists :
    Start(a, "write", [NoJob EXCEPT !.op = "adduser", !.user = u, !.pass = p, !.groups = gs])

DeleteUser(a) ==
  \E u \in User \ Steady :
    Start(a, "write", [NoJob EXCEPT !.op = "deleteuser", !.user = u])

UpdateUser(a) ==
  \E u \in User \ Steady, p \in Password \cup {Keep}, gs \in Lists \cup {{}} :
    Start(a, "read", [NoJob EXCEPT !.op = "updateuser", !.user = u, !.pass = p, !.groups = gs])

AddGroup(a) ==
  \E g \in Group, p \in Perm, d \in Desc :
    Start(a, "check", [NoJob EXCEPT !.op = "addgroup", !.group = g, !.perm = p, !.desc = d])

DeleteGroup(a) ==
  \E g \in Group, op \in {"deletegroup", "archive"} :
    Start(a, "check", [NoJob EXCEPT !.op = op, !.group = g])

UpdateGroup(a) ==
  \E g \in Group, p \in Perm \cup {Keep}, d \in Desc \cup {Keep}, x \in Archive :
    Start(a, "check", [NoJob EXCEPT !.op = "updategroup", !.group = g, !.perm = p,
                                    !.desc = d, !.archive = x])

Command(a) ==
  AddUser(a) \/ DeleteUser(a) \/ UpdateUser(a) \/ AddGroup(a) \/ DeleteGroup(a)
  \/ UpdateGroup(a)

-----------------------------------------------------------------------------
(* The steps of a command.                                                 *)

Goto(a, label) == cli' = [cli EXCEPT ![a] = label]

\* os.Exit, with or without success: no reload is triggered.
Leave(a) ==
  /\ cli' = [cli EXCEPT ![a] = "idle"]
  /\ job' = [job EXCEPT ![a] = NoJob]
  /\ seen' = [seen EXCEPT ![a] = NoRow]

\* Variant: addgroup leaves the directory to the first post.
AfterCheckNoDir == [addgroup |-> "write", deletegroup |-> "write", archive |-> "write",
                    updategroup |-> "read"]
AfterCheck == [addgroup |-> "mkdir", deletegroup |-> "write", archive |-> "write",
               updategroup |-> "read"]

\* addgroup wants a new group, the others an existing one.
Passes(j) == (j.op = "addgroup") # GroupExists(j.group)

Check(a) ==
  /\ cli[a] = "check"
  /\ Passes(job[a])
  /\ Goto(a, AfterCheck[job[a].op])
  /\ UNCHANGED <<tables, dir, job, seen, server, counters>>

CheckFail(a) ==
  /\ cli[a] = "check"
  /\ ~ Passes(job[a])
  /\ Leave(a)
  /\ UNCHANGED <<tables, dir, server, counters>>

\* GetGroup, or the first query of UpdateUser, whose password stays as read.
Read(a) ==
  /\ cli[a] = "read"
  /\ \/ /\ job[a].op = "updategroup"
        /\ seen' = [seen EXCEPT ![a] = groups[job[a].group]]
        /\ UNCHANGED job
     \/ /\ job[a].op = "updateuser" /\ users[job[a].user] # NoRow
        /\ job' = [job EXCEPT ![a].pass = IF @ = Keep THEN users[job[a].user] ELSE @,
                               ![a].id = userId[job[a].user]]
        /\ UNCHANGED seen
  /\ Goto(a, "write")
  /\ UNCHANGED <<tables, dir, server, counters>>

ReadFail(a) ==
  /\ cli[a] = "read"
  /\ job[a].op = "updateuser" /\ users[job[a].user] = NoRow
  /\ Leave(a)
  /\ UNCHANGED <<tables, dir, server, counters>>

\* MkdirAll, with the directories above; SaveConfig unless there is a .config;
\* BuildInfo.
MakeDir(a) ==
  /\ cli[a] = "mkdir"
  /\ dir' = dir \cup Path(job[a].group)
  /\ Goto(a, "write")
  /\ UNCHANGED <<tables, job, seen, server, counters>>

\* setMembershipTx, which fails when a group is missing, and the transaction
\* with it; "*" is the groups that there are.
Named(gs) == IF gs = All THEN {g \in Group : GroupExists(g)} ELSE gs
\* Variant: the columns of the table are swapped.
MembershipsSwapped(u, gs) == {m \in member : m[1] # u} \cup {<<g, u>> : g \in Named(gs)}
Memberships(u, gs) == {m \in member : m[1] # u} \cup {<<u, g>> : g \in Named(gs)}

Default == [perm |-> CHOOSE p \in Perm : TRUE, archived |-> FALSE,
            desc |-> CHOOSE d \in Desc : TRUE]

\* Variant: a column that is not named gets its default.
ChosenDefault(j, row) ==
  {[perm |-> IF j.perm = Keep THEN Default.perm ELSE j.perm, archived |-> x,
    desc |-> IF j.desc = Keep THEN Default.desc ELSE j.desc] :
   x \in IF j.archive = "asked" THEN BOOLEAN ELSE {j.archive = "yes"}}

\* The columns that updategroup writes: those it was told, the rest as it read
\* them.
Chosen(j, row) ==
  {[perm |-> IF j.perm = Keep THEN row.perm ELSE j.perm,
    archived |-> x,
    desc |-> IF j.desc = Keep THEN row.desc ELSE j.desc] :
   x \in IF j.archive = "asked" THEN BOOLEAN
         ELSE {row.archived \/ j.archive = "yes"}}

Written(j) == [perm |-> j.perm, archived |-> FALSE, desc |-> j.desc]

\* The row that updateuser read is still there.
SameUser(j) == users[j.user] # NoRow /\ userId[j.user] = j.id

WriteUser(a) ==
  LET j == job[a]  u == j.user IN
  /\ \/ /\ j.op = "adduser" /\ users[u] = NoRow /\ ~ Missing(j.groups)
        /\ users' = [users EXCEPT ![u] = j.pass]
        /\ userId' = [userId EXCEPT ![u] = @ + 1]
        /\ member' = Memberships(u, j.groups)
     \/ /\ j.op = "deleteuser" /\ users[u] # NoRow
        /\ users' = [users EXCEPT ![u] = NoRow]
        /\ member' = Memberships(u, {})
        /\ UNCHANGED userId
     \/ /\ j.op = "updateuser" /\ SameUser(j) /\ ~ Missing(j.groups)
        /\ users' = [users EXCEPT ![u] = j.pass]
        /\ member' = IF j.groups = {} THEN member ELSE Memberships(u, j.groups)
        /\ UNCHANGED userId
     \/ /\ j.op = "updateuser" /\ ~ SameUser(j) /\ Named(j.groups) = {}
        /\ UNCHANGED <<users, userId, member>>
  /\ UNCHANGED groups

WriteGroup(a) ==
  LET j == job[a]  g == j.group IN
  /\ \/ /\ j.op = "addgroup"
        /\ groups' = [groups EXCEPT ![g] = Written(j)]
        /\ UNCHANGED member
     \/ /\ j.op = "deletegroup"
        /\ groups' = [groups EXCEPT ![g] = NoRow]
        /\ member' = {m \in member : m[2] # g}
     \/ /\ j.op = "archive" /\ GroupExists(g)
        /\ groups' = [groups EXCEPT ![g].archived = TRUE]
        /\ UNCHANGED member
     \/ /\ j.op = "updategroup"
        /\ \E row \in Chosen(j, IF seen[a] = NoRow THEN Default ELSE seen[a]) :
             groups' = [groups EXCEPT ![g] = row]
        /\ UNCHANGED member
  /\ UNCHANGED <<users, userId>>

\* The transaction commits.
Write(a) ==
  /\ cli[a] = "write"
  /\ WriteUser(a) \/ WriteGroup(a)
  /\ Goto(a, IF job[a].op = "deletegroup" THEN "rmdir" ELSE "signal")
  /\ UNCHANGED <<dir, job, seen, server, counters>>

\* It does not: the user is there already, or is not, a group is missing, or the
\* foreign key of a membership is.
WriteFail(a) ==
  LET j == job[a] IN
  /\ cli[a] = "write"
  /\ \/ j.op = "adduser" /\ (users[j.user] # NoRow \/ Missing(j.groups))
     \/ j.op = "deleteuser" /\ users[j.user] = NoRow
     \/ j.op = "updateuser" /\ (Missing(j.groups)
                                 \/ (~ SameUser(j) /\ Named(j.groups) # {}))
     \/ j.op = "archive" /\ ~ GroupExists(j.group)
  /\ Leave(a)
  /\ UNCHANGED <<tables, dir, server, counters>>

\* RemoveAll of the group's directory and all that is inside, whatever other groups
\* are there; an error is only reported.
RemoveDir(a) ==
  /\ cli[a] = "rmdir"
  /\ dir' = dir \ Inside(job[a].group)
  /\ Goto(a, "signal")
  /\ UNCHANGED <<tables, job, seen, server, counters>>

\* triggerReload.  A second SIGHUP in the channel is dropped; a server that
\* does not handle signals yet dies.
Trigger(a) ==
  /\ cli[a] = "signal"
  /\ Leave(a)
  /\ sigCh' = (sigCh \/ (alive /\ pidfile /\ notified))
  /\ alive' = (alive /\ (pidfile => notified))
  /\ UNCHANGED <<tables, dir, store, draft, main, pidfile, notified, counters>>

\* A command is killed, or an operation of it fails.
Killed(a) ==
  /\ cli[a] # "idle"
  /\ faults < MaxFaults
  /\ faults' = faults + 1
  /\ Leave(a)
  /\ UNCHANGED <<tables, dir, server, left>>

Step(a) ==
  Check(a) \/ CheckFail(a) \/ Read(a) \/ ReadFail(a) \/ MakeDir(a) \/ Write(a)
  \/ WriteFail(a) \/ RemoveDir(a) \/ Trigger(a)

-----------------------------------------------------------------------------
(* The server.                                                             *)

At(label) == alive /\ main = label

\* Variant: the store in use is cleared and loaded in place.
ReceiveInPlace ==
  /\ At("wait") /\ sigCh
  /\ sigCh' = FALSE
  /\ main' = "users"
  /\ store' = EmptyStore
  /\ UNCHANGED <<tables, dir, admins, draft, pidfile, notified, alive, counters>>

Receive ==
  /\ At("wait") /\ sigCh
  /\ sigCh' = FALSE
  /\ main' = "users"
  /\ UNCHANGED <<tables, dir, admins, store, draft, pidfile, notified, alive, counters>>

LoadUsers ==
  /\ At("users")
  /\ draft' = [EmptyStore EXCEPT !.users = users]
  /\ main' = "groups"
  /\ UNCHANGED <<tables, dir, admins, store, pidfile, notified, sigCh, alive, counters>>

LoadGroups ==
  /\ At("groups")
  /\ draft' = [draft EXCEPT !.groups = Acls]
  /\ main' = "members"
  /\ UNCHANGED <<tables, dir, admins, store, pidfile, notified, sigCh, alive, counters>>

LoadMembers ==
  /\ At("members")
  /\ draft' = [draft EXCEPT !.member = Joined]
  /\ main' = "publish"
  /\ UNCHANGED <<tables, dir, admins, store, pidfile, notified, sigCh, alive, counters>>

Loaded == main' = IF notified THEN "wait" ELSE "pidfile"

\* Variant: signals that came during the reload count as served by it.
PublishDrains ==
  /\ At("publish")
  /\ store' = draft /\ draft' = EmptyStore
  /\ sigCh' = FALSE
  /\ Loaded
  /\ UNCHANGED <<tables, dir, admins, pidfile, notified, alive, counters>>

\* SetAuthStore, or NewServer with the first store.
Publish ==
  /\ At("publish")
  /\ store' = draft /\ draft' = EmptyStore
  /\ Loaded
  /\ UNCHANGED <<tables, dir, admins, pidfile, notified, sigCh, alive, counters>>

\* A query fails, as when a command is committing: the store stays as it is.
LoadFail ==
  /\ alive /\ main \in {"users", "groups", "members"}
  /\ faults < MaxFaults
  /\ faults' = faults + 1
  /\ draft' = EmptyStore
  /\ Loaded
  /\ UNCHANGED <<tables, dir, admins, store, pidfile, notified, sigCh, alive, left>>

WritePidFile ==
  /\ At("pidfile")
  /\ pidfile' = TRUE
  /\ main' = "notify"
  /\ UNCHANGED <<tables, dir, admins, store, draft, notified, sigCh, alive, counters>>

NotifySignals ==
  /\ At("notify")
  /\ notified' = TRUE
  /\ main' = "wait"
  /\ UNCHANGED <<tables, dir, admins, store, draft, pidfile, sigCh, alive, counters>>

Serve ==
  Receive \/ LoadUsers \/ LoadGroups \/ LoadMembers \/ Publish \/ WritePidFile
  \/ NotifySignals

-----------------------------------------------------------------------------

\* All commands are done and the server has nothing to do (bound MaxCmds).
Quiet ==
  /\ left = 0 /\ \A a \in Admin : cli[a] = "idle"
  /\ alive => main = "wait" /\ ~ sigCh
  /\ UNCHANGED vars

Next ==
  \/ \E a \in Admin : Command(a) \/ Step(a) \/ Killed(a)
  \/ Serve \/ LoadFail
  \/ Quiet

Spec == Init /\ [][Next]_vars

\* Commands that have begun and the server go on; no command has to come.
FairSpec == Spec /\ WF_vars(Serve) /\ \A a \in Admin : WF_vars(Step(a))

-----------------------------------------------------------------------------
(* Properties.                                                             *)

\* Type correctness of database, spool, commands and server.
TypeOK ==
  /\ users \in [User -> Password \cup {NoRow}]
  /\ userId \in [User -> Nat]
  /\ groups \in [Group -> Row \cup {NoRow}]
  /\ member \in SUBSET (User \X Group)
  /\ dir \in SUBSET Group
  /\ cli \in [Admin -> {"idle", "check", "read", "mkdir", "write", "rmdir", "signal"}]
  /\ job \in [Admin -> Job]
  /\ seen \in [Admin -> Row \cup {NoRow}]
  /\ store \in Store \cup {NoStore}
  /\ draft \in Store
  /\ main \in {"wait", "users", "groups", "members", "publish", "pidfile", "notify"}
  /\ pidfile \in BOOLEAN /\ notified \in BOOLEAN /\ sigCh \in BOOLEAN /\ alive \in BOOLEAN
  /\ left \in Nat /\ faults \in Nat

\* A group in the database has its directory at every moment, even when
\* addgroup or deletegroup is killed half way: one makes it first, the other
\* removes it last.  (One administrator at a time.)  Not so a group that lies inside
\* the directory of another, or shares it: deletegroup of that one removes both
\* (authcli.go:1151) and leaves the row.
SpoolBehindRow == \A g \in Group : GroupExists(g) /\ Alone(g) => g \in dir

\* While the server reloads, users whom nobody changes go on being known: the
\* new store replaces the old one only when it is complete.
SteadyUsersKnown ==
  store # NoStore => \A u \in Steady : store.users[u] = users[u]

\* Signals coalesce in the channel and a load may see half of a change, but in
\* the end the server has exactly what the commands wrote, provided that none
\* began before it handled signals and that nothing fails: "gonewsd
\* automatically sends a SIGHUP to the running server process (if pidfile is
\* configured) to reload the auth database" (manuals/USAGE.md:370).
ChangesArrive ==
  [](faults = 0 /\ (notified \/ left = MaxCmds)) => <>[](alive => store = Content)

-----------------------------------------------------------------------------
(* What the documentation says and the code does not do.                   *)

\* The columns that updategroup was not told are the same in both rows.
Unnamed(j, old, new) ==
  /\ j.perm = Keep => new.perm = old.perm
  /\ j.archive = "omitted" => new.archived = old.archived
  /\ j.desc = Keep => new.desc = old.desc

\* "Change a group's permissions, metadata, or archived status. Omitted fields
\* are left unchanged." (manuals/USAGE.md:257)  True of one administrator at a
\* time: updategroup writes every column, those it was not told as it read them.
OmittedUnchanged ==
  [][\A a \in Admin :
       LET j == job[a]  g == j.group IN
       cli[a] = "write" /\ cli'[a] = "signal" /\ j.op = "updategroup" /\ GroupExists(g)
         => Unnamed(j, groups[g], groups'[g])]_vars

=============================================================================
