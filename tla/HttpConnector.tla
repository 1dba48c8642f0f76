--------------------------- MODULE HttpConnector ---------------------------
(***************************************************************************)
(* HttpConnector::Process: HttpRequest parses what the read buffer holds,  *)
(* HttpResponse chooses a file or a login page, and the file is loaded for *)
(* Write.  An HttpConnector belongs to a descriptor and serves one request *)
(* after the other, of one client or of several; what HttpRequest keeps    *)
(* between two requests is the subject here.  WebServer shows that one     *)
(* thread at a time does this.  The file system may change at any moment.  *)
(*                                                                         *)
(* Received bytes are a sequence of parts: lines with their CRLF, and last *)
(* perhaps a "tail" without one.  Of their lengths the code only compares  *)
(* with two: a blank line is two bytes, every other line is longer.  Paths *)
(* are sequences of name pieces, the text of a form is one of characters.  *)
(***************************************************************************)
EXTENDS Integers, Sequences, SequencesExt

CONSTANTS Requests,     \* what clients send: [parts, sent]; sent is the user
                        \* name and password of its form, or None
          Junks,        \* what Read_FD may append to a request
          FileSystems,  \* contents the file system may have
          None

\* Parts the way they arrive: only the last one may be a tail.
Message(p) ==
    /\ p \in Seq(ToSet(p)) /\ p # <<>>
    /\ \A i \in DOMAIN p :
         /\ p[i].kind = "request" => p[i].target \in Seq(STRING)
         /\ p[i].kind = "tail" => i = Len(p) /\ p[i].text \in Seq(STRING) \ {<<>>}

ASSUME RequestAssumption == \A r \in Requests : Message(r.parts)

\* A CRLF in it could only matter behind a request that ends inside its headers.
ASSUME JunkAssumption == Junks \subseteq Seq(STRING) \ {<<>>}

ASSUME NoneAssumption == None \notin STRING

\* What stat reports of a path that exists.
ASSUME FileAssumption ==
    \A f \in FileSystems : \A path \in DOMAIN f : f[path] \in {"dir", "file", "exec"}

VARIABLES pc,        \* where Process is, "wait" between two requests
          buff,      \* _read_buffer
          request,   \* _request, an HttpRequest
          response,  \* _reponse, an HttpResponse
          fs,        \* the files under SRC_DIR
          input,     \* history: the request being processed
          asked,     \* history: the name and password _Login looked up, or None
          touched    \* history: fs has changed since the request arrived

vars == <<pc, buff, request, response, fs, input, asked, touched>>
history == <<input, asked, touched>>

\* httpdata.cpp, and the members of HTTP_CODE that occur.
Codes == {"FILE_REQUEST", "BAD_REQUEST", "NO_RESOURCE"}
tasks == {<<"/login">>}
SRC_DIR == <<"../wwwroot">>
HOME_PAGE == <<"index.html">>

User == <<"u">>      \* the form's keys "username" and "pwd"
Pwd == <<"p">>

Init ==
    /\ pc = "wait" /\ buff = <<>>
    /\ request = [status |-> "REQUEST_LINE", code |-> "FILE_REQUEST", method |-> "",
                  path |-> <<>>, ctype |-> "", form |-> << >>,
                  tasks |-> FALSE, cgi |-> FALSE]
    /\ response = [code |-> "FILE_REQUEST", path |-> <<>>]
    /\ fs \in FileSystems
    /\ input = None /\ asked = None /\ touched = FALSE

\* The literals below are strings, which the prover does not know by itself.
ASSUME StringAssumption ==
    {"?", "%", " ", "+", "u", "p", "=", "&", "/", "../wwwroot", "index.html", "/404.html",
     "/penetration.html", "/mysqlerror.html", "/login", "form"} \subseteq STRING

-----------------------------------------------------------------------------
(* HttpRequest: one action per turn of the loop of Read_Buff.              *)

\* Fault: the flag of a special request survives.
FaultInitKeepsTasks(r) ==
    [r EXCEPT !.status = "REQUEST_LINE", !.cgi = FALSE, !.code = "FILE_REQUEST"]

\* HttpRequest::Init; method, path, headers and form keep their values.
InitRequest(r) ==
    [r EXCEPT !.status = "REQUEST_LINE", !.tasks = FALSE, !.cgi = FALSE,
              !.code = "FILE_REQUEST"]

\* Read_FD adds buff2 as well as buff1 when a request does not fit into the free
\* space: as many bytes that nobody sent as are beyond it.  See Buffer.
Received(p, junk) ==
    CASE junk = <<>> -> p
      [] junk # <<>> /\ Last(p).kind = "tail" ->
           [p EXCEPT ![Len(p)] = [kind |-> "tail", text |-> Last(p).text \o junk]]
      [] OTHER -> Append(p, [kind |-> "tail", text |-> junk])

\* Process begins with received bytes; junk is empty for a request that fitted.
Receive(r, junk) ==
    /\ pc = "wait" /\ pc' = "parse"
    /\ buff' = Received(r.parts, junk)
    /\ request' = InitRequest(request)
    /\ input' = [parts |-> Received(r.parts, junk), junk |-> junk, sent |-> r.sent,
                 known |-> DOMAIN request.form]
    /\ UNCHANGED <<response, fs, asked, touched>>

Reading(status) == pc = "parse" /\ request.status = status /\ buff # <<>>

\* An assertion fails, or an exception leaves the thread function.
Die(how) == pc' = how /\ UNCHANGED <<buff, request, response, fs, history>>

\* No CRLF: Update_Readp(line.size() + 2) is more than there is.
LineCut ==
    /\ Reading("REQUEST_LINE") \/ Reading("HEADERS")
    /\ Head(buff).kind = "tail"
    /\ Die("aborted")

RequestLine ==
    /\ Reading("REQUEST_LINE") /\ Head(buff).kind = "request"
    /\ request' = [request EXCEPT !.method = Head(buff).method, !.status = "HEADERS",
                                  !.path = Head(buff).target]
    /\ buff' = Tail(buff)
    /\ UNCHANGED <<pc, response, fs, history>>

\* Read_Buff returns without _Handle_Path; Process empties the buffer.
BadRequestLine ==
    /\ Reading("REQUEST_LINE") /\ Head(buff).kind \notin {"request", "tail"}
    /\ request' = [request EXCEPT !.code = "BAD_REQUEST"]
    /\ buff' = <<>>
    /\ pc' = "respond"
    /\ UNCHANGED <<response, fs, history>>

\* _Read_Header_Line: a line without a colon, blank or not, ends the headers.
ReadHeaderLine(line) ==
    IF line.kind = "header"
    THEN [request EXCEPT !.ctype = IF line.ctype = None THEN @ ELSE line.ctype]
    ELSE [request EXCEPT !.status = "BODY"]

\* What follows the header line is n bytes long, for n <= 2.
Bytes(b, n) ==
    IF n = 0 THEN b = <<>>
    ELSE /\ Len(b) = 1
         /\ n = IF b[1].kind = "tail" THEN Len(b[1].text) ELSE IF b[1].kind = "blank" THEN 2 ELSE 3

\* Fault: < 2 instead of <= 2.
FaultShort(b) == \E n \in 0..1 : Bytes(b, n)

\* Readable_Size() <= 2.
Short(b) == \E n \in 0..2 : Bytes(b, n)

\* Fault: the line stays in the buffer.
FaultHeaderKept ==
    /\ Reading("HEADERS") /\ Head(buff).kind # "tail" /\ ~Short(Tail(buff))
    /\ request' = ReadHeaderLine(Head(buff))
    /\ UNCHANGED <<pc, buff, response, fs, history>>

HeaderLine ==
    /\ Reading("HEADERS") /\ Head(buff).kind # "tail" /\ ~Short(Tail(buff))
    /\ request' = ReadHeaderLine(Head(buff))
    /\ buff' = Tail(buff)
    /\ UNCHANGED <<pc, response, fs, history>>

\* Two bytes are left, taken for the CRLF of an empty body.
LastHeaderLine ==
    /\ Reading("HEADERS") /\ Head(buff).kind # "tail"
    /\ Short(Tail(buff)) /\ Bytes(Tail(buff), 2)
    /\ request' = [ReadHeaderLine(Head(buff)) EXCEPT !.status = "FINISHED"]
    /\ buff' = <<>>
    /\ UNCHANGED <<pc, response, fs, history>>

\* Fewer are left: Update_Readp(2) fails its assertion.
HeaderLineOverrun ==
    /\ Reading("HEADERS") /\ Head(buff).kind # "tail"
    /\ Short(Tail(buff)) /\ ~Bytes(Tail(buff), 2)
    /\ Die("aborted")

Put(f, k, v) == [x \in DOMAIN f \cup {k} |-> IF x = k THEN v ELSE f[x]]

\* Fault: the next key begins with the text of the last value.
FaultEndPair(s) == [s EXCEPT !.form = Put(@, s.key, s.text)]

EndPair(s) == [s EXCEPT !.form = Put(@, s.key, s.text), !.text = <<>>]

\* One turn of the loop of _Handle_Form; text is body[j..i-1].  An escape keeps its
\* % and its two digits are overwritten: ConverHex returns the character code of a
\* digit and the result is written in decimal, so "?" is not the encoded character.
FormChar(s, ch) ==
    CASE s.skip > 0 -> [s EXCEPT !.text = Append(@, "?"), !.skip = @ - 1]
      [] s.skip = 0 /\ ch = "=" -> [s EXCEPT !.key = s.text, !.text = <<>>]
      [] s.skip = 0 /\ ch = "&" -> EndPair(s)
      [] s.skip = 0 /\ ch = "%" -> [s EXCEPT !.text = Append(@, "%"), !.skip = 2]
      [] OTHER -> [s EXCEPT !.text = Append(@, IF ch = "+" THEN " " ELSE ch)]

\* The loop after each of its turns.
FormLoop(form, body) ==
    LET loop[i \in 0..Len(body)] ==
            IF i = 0 THEN [key |-> <<>>, text |-> <<>>, skip |-> 0, form |-> form]
                     ELSE CHOOSE r \in {FormChar(s, body[i]) : s \in {loop[i - 1]}} : TRUE
    IN loop

\* The last value is stored only under a key that the form does not have yet.
HandleForm(form, body) ==
    LET end == FormLoop(form, body)[Len(body)]
    IN IF end.key \notin DOMAIN end.form /\ end.text # <<>>
       THEN Put(end.form, end.key, end.text) ELSE end.form

\* The text of the rest of the buffer.  Lines are not form data: they only become
\* part of a key that nobody looks up.
BodyText(b) == (IF Len(b) > 1 THEN <<"?">> ELSE <<>>)
                 \o (IF Last(b).kind = "tail" THEN Last(b).text ELSE <<"?">>)

IsPost == request.method = "POST" /\ request.ctype = "form"

BodyLine ==
    /\ Reading("BODY")
    /\ request' = [request EXCEPT !.status = "FINISHED",
                                  !.form = IF IsPost THEN HandleForm(@, BodyText(buff)) ELSE @]
    /\ buff' = <<>>
    /\ UNCHANGED <<pc, response, fs, history>>

\* The body ends inside an escape: its digits are read and written beyond the end of
\* the string, which is undefined, and may as well go unnoticed as in BodyLine.
BodyOverrun ==
    /\ Reading("BODY") /\ IsPost
    /\ LET body == BodyText(buff) IN FormLoop(request.form, body)[Len(body)].skip > 0
    /\ Die("aborted")

\* Fault: what stat says of the path is not looked at.
FaultLocated(path) ==
    [request EXCEPT !.path = IF Last(path) = "/" THEN path \o HOME_PAGE ELSE path]

\* The path under SRC_DIR and the status code, by what stat says of it.
Located(path) ==
    CASE Last(path) = "/" -> [request EXCEPT !.path = path \o HOME_PAGE]
      [] Last(path) # "/" /\ path \notin DOMAIN fs ->
           [request EXCEPT !.path = SRC_DIR \o <<"/404.html">>, !.code = "NO_RESOURCE"]
      [] OTHER ->
           [request EXCEPT !.path = IF fs[path] = "dir" THEN path \o <<"/">> \o HOME_PAGE
                                                        ELSE path,
                           !.cgi = (@ \/ fs[path] = "exec"),
                           !.code = "FILE_REQUEST"]

\* The loop ends and _Handle_Path follows; Process empties the buffer.
HandlePath ==
    /\ pc = "parse" /\ (buff = <<>> \/ request.status = "FINISHED")
    /\ LET path == IF request.code = "BAD_REQUEST" THEN SRC_DIR \o <<"400.html">>
                                                   ELSE request.path
       IN request' = IF path \in tasks
                     THEN [request EXCEPT !.path = path, !.tasks = TRUE,
                                          !.code = "FILE_REQUEST"]
                     ELSE Located(SRC_DIR \o path)
    /\ buff' = <<>> /\ pc' = "respond"
    /\ UNCHANGED <<response, fs, history>>

-----------------------------------------------------------------------------
(* HttpResponse and the loading of the file.                               *)

Respond(path) ==
    /\ pc = "respond" /\ pc' = "length"
    /\ response' = [response EXCEPT !.code = request.code, !.path = path]

RespondFile ==
    /\ ~request.tasks
    /\ Respond(request.path)
    /\ UNCHANGED <<buff, request, fs, history>>

\* Fault: find() is not asked whether there is such a key, and what stands behind the
\* last one is no string.
FaultSelectNone(form, k) == IF k \in DOMAIN form THEN form ELSE Put(form, k, None)

\* Select_Form inserts an empty value under a key the form does not have.
SelectForm(form, k) == IF k \in DOMAIN form THEN form ELSE Put(form, k, <<>>)

\* _Login, see SQLPool; the database may say yes or no.
RespondLogin(ok) ==
    LET form == SelectForm(SelectForm(request.form, User), Pwd) IN
    /\ request.tasks
    /\ Respond(SRC_DIR \o <<IF ok THEN "/penetration.html" ELSE "/mysqlerror.html">>)
    /\ request' = [request EXCEPT !.form = form]
    /\ asked' = <<form[User], form[Pwd]>>
    /\ UNCHANGED <<buff, fs, input, touched>>

RegularIn(files, path) == path \in DOMAIN files /\ files[path] # "dir"
Regular(path) == RegularIn(fs, path)

\* Set_ContentLength_From_File; the number is left out.
SetContentLength ==
    /\ pc = "length" /\ Regular(response.path)
    /\ pc' = "load"
    /\ UNCHANGED <<buff, request, response, fs, history>>

\* Set_ContentLength_From_File or ReadFileToSharedCharArray throws: there is no such
\* file.
FileThrows ==
    /\ pc \in {"length", "load"} /\ ~Regular(response.path)
    /\ Die("threw")

\* ReadFileToSharedCharArray throws although there is one: no descriptor is left, or
\* no permission given.
OpenFails ==
    /\ pc = "load" /\ Regular(response.path)
    /\ Die("unopened")

ReadFileToSharedCharArray ==
    /\ pc = "load" /\ Regular(response.path)
    /\ pc' = "reply"
    /\ UNCHANGED <<buff, request, response, fs, history>>

\* Write has sent everything, see WebServer: the client has taken it.
Written ==
    /\ pc = "reply" /\ pc' = "wait"
    /\ input' = None /\ asked' = None /\ touched' = FALSE
    /\ UNCHANGED <<buff, request, response, fs>>

-----------------------------------------------------------------------------
\* Somebody changes the files the server offers.
Deploy(files) ==
    /\ files # fs /\ fs' = files
    /\ touched' = (touched \/ pc # "wait")
    /\ UNCHANGED <<pc, buff, request, response, input, asked>>

ProcessStep ==
    \/ LineCut \/ RequestLine \/ BadRequestLine
    \/ HeaderLine \/ LastHeaderLine \/ HeaderLineOverrun \/ BodyLine \/ BodyOverrun
    \/ HandlePath \/ RespondFile \/ (\E ok \in BOOLEAN : RespondLogin(ok))
    \/ SetContentLength \/ FileThrows \/ OpenFails \/ ReadFileToSharedCharArray

Ended == {"aborted", "threw", "unopened"}

Next ==
    \/ ProcessStep
    \/ \E r \in Requests, junk \in Junks \cup {<<>>} : Receive(r, junk)
    \/ Written
    \/ pc \notin Ended /\ \E files \in FileSystems : Deploy(files)

SafeSpec == Init /\ [][Next]_vars

\* The thread that executes the task keeps running; clients owe nothing, neither a
\* request nor the room for a reply.
Spec == SafeSpec /\ WF_vars(ProcessStep)

-----------------------------------------------------------------------------
(* Properties.                                                             *)

\* Every variable has its type.
TypeOK ==
    /\ pc \in {"wait", "parse", "respond", "length", "load", "reply"} \cup Ended
    /\ request.status \in {"REQUEST_LINE", "HEADERS", "BODY", "FINISHED"}
    /\ request.code \in Codes /\ response.code \in Codes
    /\ request.tasks \in BOOLEAN /\ request.cgi \in BOOLEAN
    /\ \A k \in DOMAIN request.form : request.form[k] \in Seq(STRING)
    /\ request.path \in Seq(STRING) /\ response.path \in Seq(STRING)
    /\ fs \in FileSystems /\ touched \in BOOLEAN

\* The headers of p end with its n-th part, and a body may follow.
EndsAt(p, n) ==
    /\ p[1].kind = "request"
    /\ \A i \in 2..(n - 1) : p[i].kind = "header"
    /\ p[n].kind = "blank"
    /\ n = Len(p) \/ (n = Len(p) - 1 /\ p[n + 1].kind = "tail")

\* A request the way clients send it: a request line, headers and a blank line.
WellFormed(p) == \E n \in 3..Len(p) : EndsAt(p, n)

\* The text of a form whose last fields are a user name and a password.
Quote(word) == [i \in DOMAIN word |-> IF word[i] = " " THEN "+" ELSE word[i]]
FormText(front, login) ==
    front \o <<"u", "=">> \o Quote(login[1]) \o <<"&", "p", "=">> \o Quote(login[2])

\* A word in which only spaces are encoded.
Plain(word) ==
    /\ word \in Seq(STRING)
    /\ \A i \in DOMAIN word : word[i] \notin {"=", "&", "+", "%"}

\* Fields before them: each ends in &, with complete escapes, none has the key p.
OtherFields(front) ==
    /\ front # <<>> => Last(front) = "&"
    /\ \A i \in DOMAIN front : front[i] = "%" => i + 2 < Len(front)
    /\ \A i \in DOMAIN front :
         front[i] = "p" /\ (i = 1 \/ front[i - 1] \in {"=", "&"}) => front[i + 1] # "="

\* A well-formed request that posts such a form; the last Content-Type counts.
Posts(p, login) ==
    LET n == Len(p) - 1
        text == p[n + 1].text
    IN /\ n >= 3 /\ EndsAt(p, n) /\ p[1].method = "POST"
       /\ \E j \in 2..(n - 1) : /\ p[j].ctype = "form"
                                /\ \A i \in (j + 1)..(n - 1) : p[i].ctype = None
       /\ Len(text) > 2 /\ Plain(login[1]) /\ Plain(login[2])
       /\ \E k \in 0..Len(text) : LET front == SubSeq(text, 1, k) IN
             OtherFields(front) /\ text = FormText(front, login)

\* What it means that a client sends a user name and a password without characters
\* that need an escape.
ASSUME SentAssumption ==
    \A r \in Requests :
        r.sent # None /\ Plain(r.sent[1]) /\ Plain(r.sent[2]) => Posts(r.parts, r.sent)

\* One of the last two characters begins an escape.
CutEscape(text) == \E i \in DOMAIN text : text[i] = "%" /\ i + 2 > Len(text)

\* A well-formed request makes an assertion fail, or writes where it must not, in two
\* cases only: a single byte follows its blank line, sent as a body or put there by
\* Read_FD, or what was received ends inside an escape.  No order of headers, no
\* other length and nothing that an earlier request has left behind does.
Survives ==
    pc = "aborted" /\ WellFormed(input.parts) =>
        LET last == Last(input.parts) IN
        last.kind = "tail" /\ (Len(last.text) = 1 \/ CutEscape(last.text))

Pages == {SRC_DIR \o <<"/penetration.html">>, SRC_DIR \o <<"/mysqlerror.html">>}

\* The status code and the file that answer a target which is not a task: an index
\* for a directory, named as one or found to be one.
Answer(target) ==
    LET file == SRC_DIR \o target IN
    CASE Last(file) = "/" -> <<"FILE_REQUEST", file \o HOME_PAGE>>
      [] Last(file) # "/" /\ Regular(file) -> <<"FILE_REQUEST", file>>
      [] Last(file) # "/" /\ file \in DOMAIN fs /\ ~Regular(file) ->
           <<"FILE_REQUEST", file \o <<"/">> \o HOME_PAGE>>
      [] OTHER -> <<"NO_RESOURCE", SRC_DIR \o <<"/404.html">> >>

\* A request line that is understood, and is not a login, is answered from its target
\* and the file system alone: the path, flags, headers and form that earlier requests
\* left on the connector do not show.  A login is answered with one of its two pages;
\* which one is the database's choice.
AnswerOfRequest ==
    pc = "reply" /\ ~touched /\ input.parts[1].kind = "request" =>
        IF input.parts[1].target \in tasks
        THEN response.code = "FILE_REQUEST" /\ response.path \in Pages
        ELSE <<response.code, response.path>> = Answer(input.parts[1].target)

\* Nobody catches what Set_ContentLength_From_File throws.  It only throws for a
\* missing page of the site: an index, the 404 page or a page of the login.  A file
\* that is there is always served, and a target that is not never ends the process.
OnlyMissingPages ==
    pc = "threw" /\ ~touched /\ input.parts[1].kind = "request" =>
        IF input.parts[1].target \in tasks
        THEN \E page \in Pages : ~Regular(page)
        ELSE ~Regular(Answer(input.parts[1].target)[2])

\* Only a request for /login logs in.  One whose request line is not understood is
\* answered from the state of the request before, but does not repeat its login.
LoginOnlyWhenAsked ==
    asked # None => input.parts[1].kind = "request" /\ input.parts[1].target \in tasks

\* The form being processed has such words, and no junk was added to it.
PlainlySent ==
    /\ input.sent # None /\ input.junk = <<>>
    /\ Plain(input.sent[1]) /\ Plain(input.sent[2])

\* Words without characters that need an escape are read exactly, whatever other
\* fields and escapes stand before them, as long as Read_FD adds nothing: the user
\* name always, the password unless the connector has seen one before.
FormDecoded ==
    asked # None /\ PlainlySent =>
        /\ asked[1] = input.sent[1]
        /\ Pwd \notin input.known => asked[2] = input.sent[2]

\* What is left of a request: parts to be parsed and stages of Process.
Left == Len(buff) + CASE pc = "parse" -> 4 [] pc = "respond" -> 3 [] pc = "length" -> 2
                      [] pc = "load" -> 1 [] OTHER -> 0

\* Every step of Process uses some of it up, so a request of n parts takes at most
\* n + 4 steps: no input keeps the loop of Read_Buff busy.
Advances == [][ProcessStep => Left' < Left]_vars

\* Every request that arrived gets as far as a reply, which the client need not take,
\* unless it ends the process: no input keeps the thread that executes it for ever.
RequestEnds == pc # "wait" ~> (pc \in {"wait", "reply"} \cup Ended)

\* httprequest.hpp:32: Read_Buff turns the content of the buffer into the request,
\* so a login is decided on what the client has just sent.
LoginOfRequest ==
    asked # None => asked = IF input.sent = None THEN <<(<<>>), (<<>>)>> ELSE input.sent
=============================================================================
