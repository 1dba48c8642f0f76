-------------------------- MODULE MCHttpConnector --------------------------
(***************************************************************************)
(* Requests and file systems for TLC.                                      *)
(***************************************************************************)
EXTENDS HttpConnector

Line(method, target) == [kind |-> "request", method |-> method, target |-> target]
Header(ctype) == [kind |-> "header", ctype |-> ctype]
Word(kind) == [kind |-> kind]
Text(text) == [kind |-> "tail", text |-> text]
Bare(parts) == [parts |-> parts, sent |-> None]

Targets == {<<"/">>, <<"/page">>, <<"/dir">>, <<"/login">>}
Logins == {<<(<<"a">>), (<<" ", "b">>)>>, <<(<<>>), (<<>>)>>}

Form(front, login) ==
    [parts |-> <<Line("POST", <<"/login">>), Header("form"), Word("blank"),
                 Text(FormText(front, login))>>,
     sent |-> login]

Get(t) == <<Line("GET", t), Header(None), Word("blank")>>

\* Complete requests; one without headers, with a body of one or two bytes, without
\* the blank line, cut in a line, not understood, and two in one segment.
MCRequests ==
    {Bare(Get(t)) : t \in Targets}
      \cup {Form(<<>>, login) : login \in Logins}
      \cup {Form(<<"x", "=", "%", "3", "d", "&">>, <<(<<"a">>), (<<" ", "b">>)>>)}
      \cup {Bare(<<Line("GET", <<"/page">>), Header(None), Word("blank"), Text(b)>>) :
              b \in {<<"x">>, <<"x", "=">>, <<"p", "=", "a">>}}
      \cup {Bare(s) : s \in {
              <<Line("GET", <<"/page">>), Word("blank")>>,
              <<Line("GET", <<"/page">>), Header(None)>>,
              <<Line("GET", <<"/page">>), Header(None), Text(<<"x", "x", "x">>)>>,
              <<Line("GET", <<"/page">>)>>, <<Text(<<"x", "x", "x">>)>>,
              <<Line("POST", <<"/page">>), Header("other"), Word("garbage"), Word("blank")>>,
              <<Word("garbage"), Header(None), Word("blank")>>,
              Get(<<"/page">>) \o Get(<<"/">>)}}

\* Behind a blank line these are fewer than two bytes and more than two; behind a form
\* the second ends inside an escape.
MCJunks == {<<"x">>, <<"x", "x", "%">>}

In(name) == SRC_DIR \o name
Site ==
    [p \in {In(<<"/", "index.html">>), In(<<"/404.html">>), In(<<"/penetration.html">>),
            In(<<"/mysqlerror.html">>)} |-> "file"]
MCFileSystems ==
    {Put(Put(Site, In(<<"/dir">>), "dir"), In(<<"/dir", "/", "index.html">>), "file"),
     Put(Put(Site, In(<<"/page">>), "exec"), In(<<"/dir">>), "dir")}
=============================================================================
