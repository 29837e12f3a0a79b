------------------------------- MODULE Session -------------------------------
(***************************************************************************)
(* One connection's command loop (handleConn of internal/nntp/server.go)    *)
(* with the access checks of internal/auth/store.go.  The connection has a  *)
(* copy of the group it selected, a current article, and the user it        *)
(* logged in as; meanwhile others post and cancel, and the store of users   *)
(* and permissions is replaced.                                            *)
(*                                                                         *)
(* The articles and the index of a group change here as ArticleStore lets   *)
(* them; a store is what AuthAdmin's server loads.                         *)
(***************************************************************************)
EXTENDS GroupInfo, ArticleRange, Wildmat

CONSTANTS
  User, Password,
  Group,      \* names of groups, each a sequence of characters
  Stores,     \* the stores that a reload may bring
  Stored,     \* the articles of each group at first, and
  Sound,      \* those of them that can be loaded
  Top,        \* bound: article numbers
  Ranges,     \* bound: the ranges that the client asks for
  MaxCmds,    \* bound: commands of the connection
  MaxChanges, \* bound: posts, cancels and reloads of others
  NoStore, NoRow, NoUser, NoGroup

Num == 0..Top
Flag == {"r", "w"}
Acl == [group : SUBSET Flag, world : SUBSET Flag, archived : BOOLEAN]

ASSUME SessionAssumption ==
  /\ Top \in Nat /\ MaxCmds \in Nat /\ MaxChanges \in Nat
  /\ Stores \subseteq [users : [User -> Password \cup {NoRow}],
                       groups : [Group -> Acl \cup {NoRow}],
                       member : SUBSET (User \X Group)]
  /\ NoStore \notin Stores
  /\ NoRow \notin Password \cup Acl
  /\ NoUser \notin User /\ NoGroup \notin Group
  /\ Stored \in [Group -> SUBSET (1..Top)] /\ Sound \in [Group -> SUBSET Num]
  /\ \A g \in Group : Sound[g] \subseteq Stored[g]
  /\ Group \subseteq Strings

ASSUME RangesAssumption == Ranges \subseteq Request(Num)

VARIABLES
  store,    \* Server.authStore
  articles, \* the complete articles of each group
  loadable, \* those of them that Article.Load accepts: with a From:, a Message-ID
            \* and no line in their headers that is too long
  info,     \* the .info of each group
  pc, cmd,  \* where the command loop is, and its command
  session, authUser, curGroup, curArticle, \* as in handleConn
  shown,    \* numbers that LISTGROUP or OVER has sent
  entitled, \* history: the rights the connection had at some time since it gave
            \* its command
  steady,   \* history: numbers it has to send that have been there all the time
  left, changes

environment == <<store, articles, loadable, info, changes>>
login == <<session, authUser>>
reading == <<curGroup, curArticle>>
history == <<entitled, steady>>
vars == <<environment, pc, cmd, login, reading, shown, history, left>>

NobodyYet == [user |-> NoUser, groups |-> {}]
NoCmd == [op |-> "none", user |-> NoUser, group |-> NoGroup, range |-> Whole,
          start |-> 0, end |-> 0, num |-> 0, last |-> 0, back |-> FALSE, todo |-> {}]

-----------------------------------------------------------------------------
(* Rights.                                                                 *)

\* What the row of a group grants (manuals/ACL_DB.md:53-55): members have
\* group_perm, others world_perm, and nobody anything in an archived group.
\* Members are those that the session found at its login.  What auth.mode adds
\* to this according to manuals/USAGE.md:222-228 is not in it: canRead and canPost
\* have returned before they look at the mode.
Granted(st, s, g) ==
  IF st = NoStore THEN Flag
  ELSE IF st.groups[g] = NoRow \/ st.groups[g].archived THEN {}
  ELSE IF g \in s.groups THEN st.groups[g].group ELSE st.groups[g].world

Rights(st, s) == {right \in Group \X Flag : right[2] \in Granted(st, s, right[1])}

UserInGroup(s, g) == s.user # NoUser /\ g \in s.groups

\* Variant: members are let into archived groups.
AllowedArchived(g, flag) ==
  store # NoStore =>
     LET row == store.groups[g] IN
     /\ row # NoRow
     /\ row.archived => UserInGroup(session, g)
     /\ flag \in IF UserInGroup(session, g) THEN row.group ELSE row.world

\* canRead and canPost; every group that gets beyond the first conjunct has a row,
\* so that the mode is never consulted.
Allowed(g, flag) ==
  store # NoStore =>
     LET row == store.groups[g] IN
     /\ row # NoRow
     /\ ~ row.archived
     /\ flag \in IF UserInGroup(session, g) THEN row.group ELSE row.world

-----------------------------------------------------------------------------

Index == [start : Num, end : Num, total : 0..Top]
\* BuildInfo: the indices that describe a set of articles (there is one).
Summary(S) == {i \in Index : IsSummary(i, S)}

Init ==
  /\ store \in Stores \cup {NoStore}
  /\ articles = Stored
  /\ loadable = Sound
  /\ info \in [Group -> Index] /\ \A g \in Group : info[g] \in Summary(Stored[g])
  /\ pc = "command" /\ cmd = NoCmd
  /\ session = NobodyYet /\ authUser = NoUser
  /\ curGroup = [name |-> NoGroup, start |-> 0, end |-> 0]
  /\ curArticle = [group |-> NoGroup, num |-> 0, valid |-> FALSE]
  /\ shown = {} /\ entitled = {} /\ steady = {}
  /\ left = MaxCmds /\ changes = 0

-----------------------------------------------------------------------------
(* The others.                                                             *)

Change ==
  /\ changes < MaxChanges
  /\ changes' = changes + 1
  /\ UNCHANGED <<pc, cmd, login, reading, shown, left>>

\* SetAuthStore, after SIGHUP.
Reload ==
  /\ Change
  /\ store' \in Stores
  /\ entitled' = entitled \cup Rights(store', session)
  /\ UNCHANGED <<articles, loadable, info, steady>>

\* An article is added, of which Post does not ask what Load will; sound is {n} if
\* it can be loaded.
Added(g, n, sound) ==
  /\ articles' = [articles EXCEPT ![g] = @ \cup {n}]
  /\ loadable' = [loadable EXCEPT ![g] = @ \cup sound]
  /\ info' = [info EXCEPT ![g] = Extend(@, n)]

Posted(g) ==
  /\ Change
  /\ LET n == info[g].end + 1 IN
     n <= Top /\ \E sound \in {{}, {n}} : Added(g, n, sound)
  /\ UNCHANGED <<store, history>>

Removed(g, n) ==
  /\ Change
  /\ n \in articles[g]
  /\ articles' = [articles EXCEPT ![g] = @ \ {n}]
  /\ loadable' = [loadable EXCEPT ![g] = @ \ {n}]
  /\ steady' = IF curGroup.name = g THEN steady \ {n} ELSE steady
  /\ UNCHANGED <<store, info, entitled>>

Reindexed(g) ==
  /\ info[g] \notin Summary(articles[g])
  /\ \E i \in Summary(articles[g]) : info' = [info EXCEPT ![g] = i]
  /\ UNCHANGED <<store, articles, loadable, changes, pc, cmd, login, reading, shown,
                 history, left>>

Others ==
  Reload \/ \E g \in Group : Posted(g) \/ Reindexed(g) \/ \E n \in Num : Removed(g, n)

-----------------------------------------------------------------------------
(* Commands begin and end.                                                 *)

\* A command that has something to do; those that are refused at once change
\* nothing.
Begin(label, c) ==
  /\ pc = "command" /\ left > 0
  /\ left' = left - 1
  /\ pc' = label
  /\ cmd' = c
  /\ entitled' = Rights(store, session)

Goto(label) == pc' = label /\ UNCHANGED cmd

\* The reply is sent.
Reply ==
  /\ pc' = "command" /\ cmd' = NoCmd
  /\ entitled' = {}

-----------------------------------------------------------------------------
(* AUTHINFO.                                                               *)

AuthUser(u) ==
  /\ store # NoStore
  /\ Begin("command", NoCmd)
  /\ authUser' = u
  /\ UNCHANGED <<environment, session, reading, shown, steady>>

ValidateUser(u, p) == store # NoStore /\ store.users[u] = p

AuthPass(p) ==
  /\ store # NoStore /\ authUser # NoUser
  /\ \/ /\ ValidateUser(authUser, p)
        /\ Begin("resolve", [NoCmd EXCEPT !.op = "pass", !.user = authUser])
        /\ UNCHANGED authUser
     \/ /\ ~ ValidateUser(authUser, p)
        /\ Begin("command", NoCmd)
        /\ authUser' = NoUser
  /\ UNCHANGED <<environment, session, reading, shown, steady>>

AuthSimple ==
  /\ store # NoStore
  /\ Begin("simple", [NoCmd EXCEPT !.op = "simple"])
  /\ UNCHANGED <<environment, login, reading, shown, steady>>

\* Whatever line comes next is taken for user and password.
SimpleLine(u, p) ==
  /\ pc = "simple"
  /\ \/ /\ ValidateUser(u, p)
        /\ pc' = "resolve" /\ cmd' = [cmd EXCEPT !.user = u]
        /\ UNCHANGED entitled
     \/ ~ ValidateUser(u, p) /\ Reply
  /\ UNCHANGED <<environment, login, reading, shown, steady, left>>

\* ResolveSessionGroups, of the store that is there by now.
Resolve ==
  /\ pc = "resolve"
  /\ session' = [user |-> cmd.user,
                 groups |-> {g \in Group : <<cmd.user, g>> \in store.member}]
  /\ authUser' = IF cmd.op = "pass" THEN NoUser ELSE authUser
  /\ Reply
  /\ UNCHANGED <<environment, reading, shown, steady, left>>

-----------------------------------------------------------------------------
(* GROUP, and LISTGROUP with a group.                                      *)

\* LoadInfoFull.
SelectGroup(g, op, r) ==
  /\ Begin("select", [NoCmd EXCEPT !.op = op, !.group = g, !.range = r,
                                   !.start = info[g].start, !.end = info[g].end])
  /\ UNCHANGED <<environment, login, reading, shown, steady>>

Selected ==
  /\ pc = "select"
  /\ \/ /\ Allowed(cmd.group, "r")
        /\ curGroup' = [name |-> cmd.group, start |-> cmd.start, end |-> cmd.end]
        /\ Goto("first")
        /\ UNCHANGED entitled
     \/ ~ Allowed(cmd.group, "r") /\ Reply /\ UNCHANGED curGroup
  /\ UNCHANGED <<environment, login, curArticle, shown, steady, left>>

\* Article.Load: whether or not there is an article that it accepts, the number is
\* set.
Loaded(n) == [group |-> curGroup.name, num |-> n, valid |-> n \in loadable[curGroup.name]]

\* Variant: only an article that is there replaces the current one.
FirstArticleKept ==
  /\ pc = "first"
  /\ curArticle' = IF Loaded(curGroup.start).valid THEN Loaded(curGroup.start) ELSE curArticle
  /\ \/ cmd.op = "group" /\ Reply
     \/ cmd.op = "list" /\ Goto("check") /\ UNCHANGED entitled
  /\ UNCHANGED <<environment, login, curGroup, shown, steady, left>>

FirstArticle ==
  /\ pc = "first"
  /\ curArticle' = Loaded(curGroup.start)
  /\ \/ cmd.op = "group" /\ Reply
     \/ cmd.op = "list" /\ Goto("check") /\ UNCHANGED entitled
  /\ UNCHANGED <<environment, login, curGroup, shown, steady, left>>

-----------------------------------------------------------------------------
(* LISTGROUP, OVER, HDR and XPAT.                                          *)

InGroup == curGroup.name # NoGroup
MayReadOn == InGroup /\ Allowed(curGroup.name, "r")

\* LISTGROUP ("list") sends the numbers of which there is a file, OVER ("over") the
\* articles that it can load.  What HDR and XPAT ("header") send depends on headers
\* and is not followed.
Listable(op) ==
  IF op = "list" THEN articles[curGroup.name]
  ELSE IF op = "over" THEN loadable[curGroup.name]
  ELSE {}

\* The command as it goes through the range r.
Listing(op, r) ==
  LET range == ParseArticleRange(r, curGroup.start, curGroup.end)
  IN  [NoCmd EXCEPT !.op = op, !.num = range.first, !.last = range.last]

AskedFor(op, r) == {n \in Listable(op) : InRequest(n, r, curGroup.start, curGroup.end)}

List(op, r) ==
  /\ MayReadOn
  /\ Begin("list", Listing(op, r))
  /\ steady' = AskedFor(op, r)
  /\ UNCHANGED <<environment, login, reading, shown>>

\* HDR and XPAT take a Message-ID in place of a range.
ListById ==
  /\ MayReadOn
  /\ Begin("find", [NoCmd EXCEPT !.op = "header"])
  /\ UNCHANGED <<environment, login, reading, shown, steady>>

\* LISTGROUP checks once more what it has just selected.
ListSelected ==
  /\ pc = "check"
  /\ \/ /\ MayReadOn
        /\ pc' = "list" /\ cmd' = Listing("list", cmd.range)
        /\ steady' = AskedFor("list", cmd.range)
        /\ UNCHANGED entitled
     \/ ~ MayReadOn /\ Reply /\ UNCHANGED steady
  /\ UNCHANGED <<environment, login, reading, shown, left>>

ListOne ==
  /\ pc = "list" /\ cmd.num <= cmd.last
  /\ shown' = shown \cup ({cmd.num} \cap Listable(cmd.op))
  /\ cmd' = [cmd EXCEPT !.num = @ + 1]
  /\ UNCHANGED <<environment, pc, login, reading, history, left>>

ListEnd ==
  /\ pc = "list" /\ cmd.num > cmd.last
  /\ shown' = {} /\ steady' = {}
  /\ Reply
  /\ UNCHANGED <<environment, login, reading, left>>

-----------------------------------------------------------------------------
(* NEXT and LAST.                                                          *)

Step(target) ==
  /\ MayReadOn /\ curArticle.valid
  /\ Begin("step", [NoCmd EXCEPT !.op = "step", !.num = target])
  /\ UNCHANGED <<environment, login, reading, shown, steady>>

\* Variant: the end of the group is not looked at.
NextArticleUnbounded == Step(curArticle.num + 1)

NextArticle ==
  /\ curGroup.start <= curArticle.num + 1 /\ curArticle.num + 1 <= curGroup.end
  /\ Step(curArticle.num + 1)

LastArticle ==
  /\ curArticle.num > curGroup.start
  /\ Step(curArticle.num - 1)

\* An article that cannot be loaded leaves the current one as it was.
StepLoad ==
  /\ pc = "step"
  /\ curArticle' = IF Loaded(cmd.num).valid THEN Loaded(cmd.num) ELSE curArticle
  /\ Reply
  /\ UNCHANGED <<environment, login, curGroup, shown, steady, left>>

-----------------------------------------------------------------------------
(* ARTICLE, HEAD, BODY and STAT.                                           *)

InRange(n) == curGroup.start <= n /\ n <= curGroup.end

Retrieve(n, back) ==
  /\ MayReadOn /\ InRange(n)
  /\ Begin("load", [NoCmd EXCEPT !.op = "article", !.num = n, !.back = back,
                                 !.last = curArticle.num])
  /\ UNCHANGED <<environment, login, reading, shown, steady>>

RetrieveNumber(n) == Retrieve(n, FALSE)
RetrieveCurrent == Retrieve(curArticle.num, TRUE)

RetrieveById ==
  /\ MayReadOn
  /\ Begin("find", [NoCmd EXCEPT !.op = "article", !.back = TRUE, !.last = curArticle.num])
  /\ UNCHANGED <<environment, login, reading, shown, steady>>

\* FindArticleByMessageID finds some article in the range, or none.  In a group
\* that was empty when it was selected it counts down past 0 for ever.
Find ==
  /\ pc = "find"
  /\ \/ /\ \E n \in articles[curGroup.name] :
             /\ InRange(n)
             /\ \/ /\ cmd.op = "article" /\ pc' = "load"
                   /\ cmd' = [cmd EXCEPT !.num = n]
                \/ /\ cmd.op = "header" /\ pc' = "list"
                   /\ cmd' = [cmd EXCEPT !.num = n, !.last = n]
        /\ UNCHANGED entitled
     \/ curGroup.start > 0 /\ Reply
     \/ curGroup.start = 0 /\ UNCHANGED <<pc, cmd, entitled>>
  /\ UNCHANGED <<environment, login, reading, shown, steady, left>>

\* A failed load is not undone.
LoadArticle ==
  /\ pc = "load"
  /\ curArticle' = Loaded(cmd.num)
  /\ IF Loaded(cmd.num).valid THEN Goto("send") /\ UNCHANGED entitled ELSE Reply
  /\ UNCHANGED <<environment, login, curGroup, shown, steady, left>>

\* The file is read again; if it is gone by now, nothing but the first line of
\* the reply is sent.
SendArticle ==
  /\ pc = "send"
  /\ IF cmd.back THEN Goto("restore") /\ UNCHANGED entitled ELSE Reply
  /\ UNCHANGED <<environment, login, reading, shown, steady, left>>

Restore ==
  /\ pc = "restore"
  /\ curArticle' = Loaded(cmd.last)
  /\ Reply
  /\ UNCHANGED <<environment, login, curGroup, shown, steady, left>>

-----------------------------------------------------------------------------
(* LIST, NEWGROUPS and NEWNEWS.                                            *)

Matches == {m \in Strings \X Group : DoWildmat(m[1], m[2])}

\* FilterGroupsForLIST and WildmatMatch; without a pattern as with "*".
Listed(pattern) == {g \in Group : Allowed(g, "r") /\ <<pattern, g>> \in Matches}

\* The groups are filtered, then sent one after the other.
ListGroups ==
  /\ \E pattern \in Strings :
       Begin("groups", [NoCmd EXCEPT !.op = "groups", !.todo = Listed(pattern)])
  /\ UNCHANGED <<environment, login, reading, shown, steady>>

SendGroup ==
  /\ pc = "groups"
  /\ \E g \in cmd.todo : cmd' = [cmd EXCEPT !.todo = @ \ {g}]
  /\ UNCHANGED <<environment, pc, login, reading, shown, history, left>>

GroupsEnd ==
  /\ pc = "groups" /\ cmd.todo = {}
  /\ Reply
  /\ UNCHANGED <<environment, login, reading, shown, steady, left>>

-----------------------------------------------------------------------------
(* POST.                                                                   *)

Post ==
  /\ Begin("body", [NoCmd EXCEPT !.op = "post"])
  /\ UNCHANGED <<environment, login, reading, shown, steady>>

\* The rights that count are those after the body has come, minutes later
\* perhaps.  An article need not have a From: (NoUser) unless somebody is logged in.
BodyRead(g, from) ==
  /\ pc = "body"
  /\ pc' = "postcheck"
  /\ cmd' = [cmd EXCEPT !.group = g, !.user = from]
  /\ entitled' = Rights(store, session)
  /\ UNCHANGED <<environment, login, reading, shown, steady, left>>

FromMatches == session.user # NoUser => cmd.user = session.user

PostCheck ==
  /\ pc = "postcheck"
  /\ \/ /\ Allowed(cmd.group, "w") /\ FromMatches
        /\ Goto("post")
        /\ UNCHANGED entitled
     \/ ~ (Allowed(cmd.group, "w") /\ FromMatches) /\ Reply
  /\ UNCHANGED <<environment, login, reading, shown, steady, left>>

\* Group.Post.
PostArticle ==
  /\ pc = "post"
  /\ LET g == cmd.group  n == info[g].end + 1 IN
     \/ /\ n <= Top
        /\ \E sound \in {{}, {n}} :
             /\ cmd.user = NoUser => sound = {}
             /\ Added(g, n, sound)
     \/ UNCHANGED <<articles, loadable, info>>
  /\ Reply
  /\ UNCHANGED <<store, changes, login, reading, shown, steady, left>>

-----------------------------------------------------------------------------

Login ==
  \/ \E u \in User : AuthUser(u) \/ \E p \in Password : SimpleLine(u, p)
  \/ \E p \in Password : AuthPass(p)
  \/ AuthSimple \/ Resolve

Select ==
  \/ \E g \in Group :
       \/ SelectGroup(g, "group", Whole)
       \/ \E r \in Ranges : SelectGroup(g, "list", r)
  \/ Selected \/ FirstArticle

Browse ==
  \/ \E op \in {"list", "over", "header"}, r \in Ranges : List(op, r)
  \/ ListById \/ ListSelected \/ ListOne \/ ListEnd
  \/ NextArticle \/ LastArticle \/ StepLoad

Get ==
  \/ \E n \in Num : RetrieveNumber(n)
  \/ RetrieveCurrent \/ RetrieveById \/ Find \/ LoadArticle \/ SendArticle \/ Restore

Submit == Post \/ PostCheck \/ PostArticle \/ \E g \in Group, u \in User \cup {NoUser} : BodyRead(g, u)

\* The client has given all its commands (bound MaxCmds).
Quiet == pc = "command" /\ left = 0 /\ UNCHANGED vars

Next ==
  \/ Others
  \/ Login \/ Select \/ Browse \/ Get
  \/ ListGroups \/ SendGroup \/ GroupsEnd
  \/ Submit
  \/ Quiet

Spec == Init /\ [][Next]_vars

-----------------------------------------------------------------------------
(* Properties.                                                             *)

Command == [op : {"none", "pass", "simple", "group", "list", "over", "header", "step",
                  "article", "groups", "post"},
            user : User \cup {NoUser}, group : Group \cup {NoGroup}, range : Request(Num),
            start : Num, end : Num, num : 0..Top + 1, last : Num, back : BOOLEAN,
            todo : SUBSET Group]
Label == {"command", "simple", "resolve", "select", "first", "check", "list", "step",
          "load", "find", "send", "restore", "groups", "body", "postcheck", "post"}

\* Type correctness of the connection and what it uses; the number that a
\* command is at goes beyond the numbers there are only at the end of a listing.
TypeOK ==
  /\ store \in Stores \cup {NoStore}
  /\ articles \in [Group -> SUBSET (1..Top)]
  /\ loadable \in [Group -> SUBSET Num] /\ \A g \in Group : loadable[g] \subseteq articles[g]
  /\ info \in [Group -> [start : Num, end : Num, total : Nat]]
  /\ pc \in Label /\ cmd \in Command
  /\ cmd.num = Top + 1 => pc = "list"
  /\ session \in [user : User \cup {NoUser}, groups : SUBSET Group]
  /\ authUser \in User \cup {NoUser}
  /\ curGroup \in [name : Group \cup {NoGroup}, start : Num, end : Num]
  /\ curArticle \in [group : Group \cup {NoGroup}, num : Num, valid : BOOLEAN]
  /\ shown \subseteq Num /\ steady \subseteq Num
  /\ entitled \subseteq Group \X Flag
  /\ left \in Nat /\ changes \in Nat

\* Whatever is sent of a group, the row that the group had in some store since the
\* command was given grants it to the connection (Granted): a selection and a list
\* of groups made under an earlier store give nothing away, and "Archived groups
\* cannot be accessed by clients" (manuals/USAGE.md:289) once the reload is over.
\* It says nothing of auth.mode, nor of memberships lost since the login.
ReadsEntitled ==
  /\ pc \in {"first", "check", "list", "step", "find", "load", "send"} =>
       <<curGroup.name, "r">> \in entitled
  /\ pc = "groups" => \A g \in cmd.todo : <<g, "r">> \in entitled

\* An article is stored only if the row of its group granted the connection to post
\* when its body had come, or after; as above, whatever auth.mode is.
PostsEntitled == pc = "post" => <<cmd.group, "w">> \in entitled

\* The current article, when there is one, is of the current group and in the
\* range that the connection knows, whichever loads failed and whoever cancelled
\* what in between.
CurrentInGroup ==
  curArticle.valid /\ pc # "first" =>
    curArticle.group = curGroup.name /\ InRange(curArticle.num)

\* LISTGROUP sends every article that was asked for and was there from beginning to
\* end, OVER every such article that can be loaded, and no listing goes through a
\* number outside the group.
ListingComplete ==
  /\ pc = "list" => curGroup.start <= cmd.num /\ cmd.last <= curGroup.end
  /\ pc = "list" /\ cmd.num > cmd.last => steady \subseteq shown

Meant == {m \in Strings \X Group : Means(m[1], m[2])}

\* Whatever the store and the session are when the next command comes, and
\* whatever its pattern is, LIST and NEWNEWS go through the groups that the
\* session is granted to read and whose name the pattern means, and no others:
\* nothing is lost between two filters that know nothing of each other.
ListedAsMeant ==
  pc = "command" /\ left > 0 =>
    \A pattern \in Strings :
      Listed(pattern) = {g \in Group : /\ "r" \in Granted(store, session, g)
                                      /\ <<pattern, g>> \in Meant}

-----------------------------------------------------------------------------
(* The inductive invariant of SessionProofs.                               *)

\* What a command needs of its own state at each label.
CommandShape ==
  /\ pc = "resolve" => cmd.user \in User
  /\ pc \in {"select", "postcheck", "post"} => cmd.group \in Group
  /\ pc = "select" => cmd.start <= cmd.end
  /\ pc = "post" => <<cmd.group, "w">> \in entitled

\* A current group, whenever one is used, with its range the right way round.
GroupShape ==
  /\ pc \in {"first", "check", "list", "step", "find", "load", "send", "restore"} =>
       curGroup.name \in Group
  /\ curGroup.start <= curGroup.end
  /\ \A g \in Group : info[g].start <= info[g].end

\* Rights only accumulate between command and reply, so that what was checked
\* stays in entitled; nobody logged in is a member of anything.
RightsKept ==
  /\ pc # "command" => Rights(store, session) \subseteq entitled
  /\ session.user = NoUser => session.groups = {}

\* The current article, there or not, the one that NEXT, LAST or a retrieval is
\* about to load, and the one that Restore will load again are in the range.
TargetInGroup ==
  /\ InGroup /\ pc # "first" => InRange(curArticle.num)
  /\ pc \in {"step", "load"} => InRange(cmd.num)
  /\ pc \in {"find", "load", "send"} /\ cmd.back => InRange(cmd.last)
  /\ pc = "restore" => InRange(cmd.last)

\* What a listing has passed and was there all the time, it has sent.
ListedSoFar ==
  /\ pc # "list" => steady = {}
  /\ pc = "list" =>
    /\ curGroup.start <= cmd.num /\ cmd.last <= curGroup.end
    /\ steady \subseteq Listable(cmd.op)
    /\ \A n \in steady : n <= cmd.last /\ (n < cmd.num => n \in shown)

IndInv ==
  /\ TypeOK /\ CommandShape /\ GroupShape /\ RightsKept /\ TargetInGroup /\ ListedSoFar
  /\ ReadsEntitled /\ CurrentInGroup

=============================================================================
