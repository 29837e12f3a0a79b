---------------------------- MODULE MCSubmission ----------------------------
(***************************************************************************)
(* The instance of Submission for TLC.                                     *)
(***************************************************************************)
EXTENDS Submission

\* Lines that are empty, dots, begin with dots, look like commands or headers,
\* or are one character too long for something.
BodyLine ==
  {<< >>, <<Dot>>, <<Dot, Dot>>, <<Dot, "a">>, <<POST>>, <<From>>,
   <<"a", "a", "a">>, <<Dot, "a", "a", "a">>}

Body == {<< >>} \cup {<<l>> : l \in BodyLine} \cup {<<l, m>> : l, m \in BodyLine}

\* Headers that cannot be loaded again.
Incomplete == {<< <<"a">> >>, << <<From>>, <<EmptyID>> >>, << <<From>>, <<"a", "a", "a", "a">> >>}

\* With and without Newsgroups; a text without a body.
Text ==
  {<< <<Newsgroups>>, <<From>>, << >> >> \o b : b \in Body}
    \cup {<< <<Newsgroups>> >> \o h \o << << >>, <<From>> >> : h \in Incomplete}
    \cup {<< <<"a">>, << >>, <<Newsgroups>> >>, << <<Newsgroups>>, <<From>> >>}

Big == << <<Newsgroups>>, << >>, <<"a", "a", "a">>, <<"a", "a", "a">>, <<POST>>, <<"a">> >>

Item(command, text) == [command |-> command, text |-> text]

MCTalks ==
  {<<Item(POST, t), Item(GROUP, << >>), Item(POST, t)>> : t \in Text \cup {Big}}

MCMails ==
  {<< <<From>>, << >> >> \o b : b \in Body}
    \cup {h \o << << >>, <<From>> >> : h \in Incomplete} \cup {<< <<From>> >>, Big}

=============================================================================
