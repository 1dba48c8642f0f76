------------------------ MODULE HttpConnector_proofs ------------------------
(***************************************************************************)
(* Proofs about HttpConnector for any requests, junk and file systems:     *)
(* what an understood request is answered with, that only a request for a  *)
(* login logs in, when a well-formed request can end the process and over  *)
(* which files one can, and that forms without escapes are decoded.        *)
(* ConnInv follows a request through Process and leaves the form alone;    *)
(* TypeInv, SurvInv and PostInv build on it.  What _Handle_Form computes   *)
(* is proved by induction over the body.                                   *)
(***************************************************************************)
EXTENDS HttpConnector, SequenceLemmas, TLAPS

\* The members of the two objects that the proofs look at.
Fields ==
    /\ {"status", "code", "method", "path", "ctype", "form", "tasks", "cgi"} = DOMAIN request
    /\ {"code", "path"} = DOMAIN response
    /\ fs \in FileSystems

\* While it parses, the request is fresh, and once its first line is read it has
\* the path of that line.
Parsing ==
    pc = "parse" =>
        /\ Message(input.parts)
        /\ request.code = "FILE_REQUEST" /\ request.tasks = FALSE
        /\ IF request.status = "REQUEST_LINE" THEN buff = input.parts
           ELSE input.parts[1].kind = "request" /\ request.path = input.parts[1].target

\* b is what p holds from its k-th part on.
Rest(b, p, k) ==
    /\ b \in Seq(ToSet(p)) /\ Len(b) = Len(p) + 1 - k
    /\ \A i \in 1..Len(b) : b[i] = p[k - 1 + i]

\* In the headers of a well-formed request there are still more of its lines to come,
\* and the blank line is not the last of all parts.
HeadersLeft ==
    pc = "parse" /\ request.status = "HEADERS" /\ WellFormed(input.parts) =>
        \E n \in 3..Len(input.parts) :
            /\ EndsAt(input.parts, n)
            /\ \E k \in 2..n : Rest(buff, input.parts, k) /\ (k = n => n # Len(input.parts))

\* After _Handle_Path the request says what is to be answered.
Parsed ==
    pc = "respond" =>
        /\ request.tasks \in BOOLEAN
        /\ request.tasks = TRUE =>
             input.parts[1].kind = "request" /\ input.parts[1].target \in tasks
        /\ ~touched /\ input.parts[1].kind = "request" =>
             IF input.parts[1].target \in tasks
             THEN request.tasks = TRUE /\ request.code = "FILE_REQUEST"
             ELSE /\ request.tasks = FALSE
                  /\ <<request.code, request.path>> = Answer(input.parts[1].target)

\* From then on the response does.
Responded ==
    pc \in {"length", "load", "reply", "threw"} /\ ~touched /\ input.parts[1].kind = "request" =>
        IF input.parts[1].target \in tasks
        THEN response.code = "FILE_REQUEST" /\ response.path \in Pages
        ELSE <<response.code, response.path>> = Answer(input.parts[1].target)

\* A login is looked up between the two.
Login ==
    /\ pc \in {"wait", "parse", "respond"} => asked = None
    /\ LoginOnlyWhenAsked

\* An exception is about a file that is not there.
Missing == pc = "threw" => ~Regular(response.path)

\* The inductive invariant.
ConnInv ==
    /\ Fields /\ Parsing /\ HeadersLeft /\ Parsed /\ Responded
    /\ Login /\ Missing

\* The values of a form are strings.
IsForm(form) == \A k \in DOMAIN form : form[k] \in Seq(STRING)

\* The types of TypeOK, by variable.
RequestOK ==
    /\ request.status \in {"REQUEST_LINE", "HEADERS", "BODY", "FINISHED"}
    /\ request.code \in Codes /\ request.tasks \in BOOLEAN /\ request.cgi \in BOOLEAN
    /\ IsForm(request.form) /\ request.path \in Seq(STRING)

ResponseOK ==
    /\ response.code \in Codes /\ response.path \in Seq(STRING)

\* The buffer holds what is left of the request.
Unread ==
    /\ Len(buff) \in Nat
    /\ pc = "parse" => \E k \in 1..(Len(input.parts) + 1) : Rest(buff, input.parts, k)

\* Types are kept together with it, since a path and a form come from the buffer.
TypeInv ==
    /\ pc \in {"wait", "parse", "respond", "length", "load", "reply"} \cup Ended
    /\ RequestOK /\ ResponseOK /\ Unread
    /\ fs \in FileSystems /\ touched \in BOOLEAN

\* Behind the headers of a well-formed request there is nothing but the body left.
BodyLeft ==
    pc = "parse" /\ request.status = "BODY" /\ WellFormed(input.parts) =>
        /\ Rest(buff, input.parts, Len(input.parts))
        /\ input.parts[Len(input.parts)].kind = "tail"

\* The invariant about requests that end the process.
SurvInv == BodyLeft /\ Survives

\* A request is being processed that posts a user name and a password, to be read
\* exactly.
Posting == pc # "wait" /\ PlainlySent

\* What the request says of itself is so, and known are the keys before its body.
Posted ==
    /\ Posting => Posts(input.parts, input.sent)
    /\ pc = "parse" /\ request.status # "FINISHED" => input.known = DOMAIN request.form

\* b are headers of p from part k on, and a form was announced if its last Content-Type
\* has been read.
HeadersAt(b, p, ctype) ==
    \E k \in 2..(Len(p) - 1), j \in 2..(Len(p) - 2) :
        /\ Rest(b, p, k) /\ p[j].ctype = "form"
        /\ \A i \in (j + 1)..(Len(p) - 2) : p[i].ctype = None
        /\ k > j => ctype = "form"

PostHeaders ==
    pc = "parse" /\ request.status = "HEADERS" /\ Posting =>
        request.method = "POST" /\ HeadersAt(buff, input.parts, request.ctype)

\* In its body there is nothing but the form left.
PostBody ==
    pc = "parse" /\ request.status = "BODY" /\ Posting =>
        /\ request.method = "POST" /\ request.ctype = "form"
        /\ Rest(buff, input.parts, Len(input.parts))

\* Thereafter the form has what was sent.
Decoded(form, login) ==
    /\ User \in DOMAIN form /\ form[User] = login[1]
    /\ Pwd \notin input.known =>
         IF Pwd \in DOMAIN form THEN form[Pwd] = login[2] ELSE login[2] = <<>>

PostRead ==
    Posting /\ (pc = "respond" \/ (pc = "parse" /\ request.status = "FINISHED")) =>
        Decoded(request.form, input.sent)

\* The invariant about forms.
PostInv == Posted /\ PostHeaders /\ PostBody /\ PostRead /\ FormDecoded

-----------------------------------------------------------------------------
(* The parser.                                                             *)

\* A request that arrived is a sequence of parts and not empty.
LEMMA PartsAre ==
  ASSUME Parsing, pc = "parse"
  PROVE  input.parts \in Seq(ToSet(input.parts)) /\ input.parts # <<>>
  BY DEF Parsing, Message

\* A sequence is one over its own elements.
LEMMA OwnSet ==
  ASSUME NEW T, NEW q \in Seq(T)
  PROVE  q \in Seq(ToSet(q))
  <1>1. PICK n \in Nat : n = Len(q) /\ q \in [1..n -> T] /\ DOMAIN q = 1..n
    BY LenProperties
  <1>2. \A i \in 1..n : q[i] \in ToSet(q)
    BY <1>1 DEF ToSet
  <1>3. q \in [1..n -> ToSet(q)]
    BY <1>1, <1>2
  <1> QED
    BY <1>1, <1>3, SeqDef

\* What Read_FD makes of a request: only its last part may have changed, or one is new.
LEMMA ReceivedIs ==
  ASSUME NEW p, Message(p), NEW junk \in Seq(STRING), NEW q, q = Received(p, junk)
  PROVE  Message(q) /\ (junk = <<>> => q = p)
  <1>1. CASE junk = <<>>
    BY <1>1 DEF Received
  <1>2. CASE junk # <<>>
    <2>1. PICK len \in Nat : len = Len(p) /\ len >= 1 /\ DOMAIN p = 1..len
      <3>1. Len(p) \in Nat /\ Len(p) # 0 /\ DOMAIN p = 1..Len(p)
        BY LenProperties, EmptySeq DEF Message
      <3>2. PICK l \in Nat : l = Len(p)
        BY <3>1
      <3>3. l >= 1
        BY <3>1, <3>2
      <3> QED
        BY <3>1, <3>2, <3>3
    <2>2. Last(p) = p[len]
      BY <2>1 DEF Last
    <2>3. PICK S : S = ToSet(p) /\ p \in Seq(S)
      BY DEF Message
    <2>4. ASSUME NEW new, NEW text, new.kind = "tail", new.text = text,
                 text \in Seq(STRING), text # <<>>, NEW n \in Nat, n >= 1, q # <<>>,
                 q \in Seq(S \cup {new}), Len(q) = n, n - 1 <= len, q[n] = new,
                 n = len \/ p[len].kind # "tail",
                 \A i \in 1..n : i # n => q[i] = p[i]
          PROVE  Message(q)
      <3>1. q \in Seq(ToSet(q)) /\ DOMAIN q = 1..n
        BY <2>4, OwnSet, LenProperties
      <3>2. ASSUME NEW i \in 1..n
            PROVE  /\ q[i].kind = "request" => q[i].target \in Seq(STRING)
                   /\ q[i].kind = "tail" => i = n /\ q[i].text \in Seq(STRING) \ {<<>>}
        <4>1. CASE i = n
          BY <2>4, <4>1
        <4>2. CASE i # n
          <5>1. i \in 1..len /\ q[i] = p[i]
            BY <2>1, <2>4, <3>2, <4>2
          <5>2. /\ p[i].kind = "request" => p[i].target \in Seq(STRING)
                /\ p[i].kind = "tail" => i = len
            BY <2>1, <5>1 DEF Message
          <5>3. p[i].kind # "tail"
            BY <2>1, <2>4, <4>2, <5>2
          <5> QED
            BY <5>1, <5>2, <5>3
        <4> QED
          BY <4>1, <4>2
      <3> QED
        BY <2>4, <3>1, <3>2 DEF Message
    <2>5. CASE Last(p).kind = "tail"
      <3>1. p[len].text \in Seq(STRING) /\ p[len].kind = "tail" /\ len \in 1..len
        BY <2>1, <2>2, <2>5 DEF Message
      <3>2. PICK text : text = p[len].text \o junk
        OBVIOUS
      <3>3. text \in Seq(STRING) /\ text # <<>>
        <4>1. PICK a \in Nat, b \in Nat : a = Len(p[len].text) /\ b = Len(junk) /\ b # 0
          BY <1>2, <3>1, LenProperties, EmptySeq
        <4>2. text \in Seq(STRING) /\ Len(text) = a + b
          BY <3>1, <3>2, <4>1, JoinIs
        <4>3. a + b # 0
          BY <4>1
        <4> QED
          BY <4>2, <4>3
      <3>4. PICK new : new = [kind |-> "tail", text |-> text]
        OBVIOUS
      <3>5. q = [p EXCEPT ![len] = new]
        BY <1>2, <2>1, <2>2, <2>5, <3>2, <3>4 DEF Received
      <3>6. p \in [1..len -> S]
        BY <2>1, <2>3, LenProperties
      <3>7. /\ q \in [1..len -> S \cup {new}] /\ q[len] = new
            /\ \A i \in 1..len : i # len => q[i] = p[i]
        BY <3>1, <3>5, <3>6
      <3>8. q \in Seq(S \cup {new})
        BY <2>1, <3>7, SeqDef
      <3>9. Len(q) = len
        BY <2>1, <3>7, <3>8, LenProperties
      <3>10. q # <<>> /\ new.kind = "tail" /\ new.text = text
        BY <2>1, <3>4, <3>9
      <3>11. Message(q)
        <4>1. len - 1 <= len
          BY <2>1
        <4> QED
          BY <2>1, <2>4, <3>3, <3>7, <3>8, <3>9, <3>10, <4>1
      <3> QED
        BY <1>2, <3>11
    <2>6. CASE Last(p).kind # "tail"
      <3>1. PICK new : new = [kind |-> "tail", text |-> junk]
        OBVIOUS
      <3>2. q = Append(p, new)
        BY <1>2, <2>6, <3>1 DEF Received
      <3>3. p \in Seq(S \cup {new})
        <4>1. p \in [1..len -> S]
          BY <2>1, <2>3, LenProperties
        <4>2. p \in [1..len -> S \cup {new}]
          BY <4>1
        <4> QED
          BY <2>1, <4>2, SeqDef
      <3>4. /\ q \in Seq(S \cup {new}) /\ Len(q) = len + 1 /\ q[len + 1] = new
            /\ \A i \in 1..len : q[i] = p[i]
        BY <2>1, <3>2, <3>3, AppendProperties
      <3>5. PICK n \in Nat : n = len + 1 /\ n >= 1 /\ n - 1 <= len
        BY <2>1
      <3>6. \A i \in 1..n : i # n => i \in 1..len
        BY <2>1, <3>5
      <3>7. q # <<>> /\ new.kind = "tail" /\ new.text = junk
        BY <3>1, <3>4, <3>5
      <3>8. Message(q)
        BY <1>2, <2>1, <2>2, <2>4, <2>6, <3>4, <3>5, <3>6, <3>7
      <3> QED
        BY <1>2, <3>8
    <2> QED
      BY <2>5, <2>6
  <1> QED
    BY <1>1, <1>2

\* Junk, or none, is a text.
LEMMA JunkIs ==
  ASSUME NEW junk \in Junks \cup {<<>>}
  PROVE  junk \in Seq(STRING)
  BY JunkAssumption, EmptySeq

\* Taking a part off the front.
LEMMA RestIs ==
  ASSUME NEW p, p \in Seq(ToSet(p)), NEW k \in Nat, 1 <= k, k <= Len(p),
         NEW b, Rest(b, p, k), NEW t, t = Tail(b)
  PROVE  Head(b) = p[k] /\ Rest(t, p, k + 1)
  <1>1. PICK S : S = ToSet(p)
    OBVIOUS
  <1>2. PICK len \in Nat : len = Len(p) /\ k <= len
    BY LenProperties
  <1>3. PICK l \in Nat : l = len - k
    <2>1. len - k \in Nat
      BY <1>2
    <2> QED
      BY <2>1
  <1>4. b \in Seq(S) /\ Len(b) = l + 1 /\ \A i \in 1..(l + 1) : b[i] = p[k - 1 + i]
    BY <1>1, <1>2, <1>3 DEF Rest
  <1>5. b # <<>> /\ b[1] = p[k]
    BY <1>3, <1>4
  <1>6. /\ Head(b) = b[1] /\ t \in Seq(S) /\ Len(t) = l
        /\ \A i \in 1..l : t[i] = b[i + 1]
    BY <1>4, <1>5, HeadTailProperties
  <1>7. \A i \in 1..l : t[i] = p[(k + 1) - 1 + i]
    BY <1>4, <1>6
  <1>8. l = Len(p) + 1 - (k + 1)
    BY <1>2, <1>3
  <1>9. Rest(t, p, k + 1)
    BY <1>1, <1>6, <1>7, <1>8 DEF Rest
  <1> QED
    BY <1>5, <1>6, <1>9

\* More than two bytes: several parts, or a tail of that length.
LEMMA LongIs ==
  ASSUME NEW t, Len(t) \in Nat,
         Len(t) >= 2 \/ (Len(t) = 1 /\ t[1].kind = "tail" /\ Len(t[1].text) > 2)
  PROVE  ~Short(t)
  <1>1. SUFFICES ASSUME NEW i \in 0..2, Bytes(t, i) PROVE FALSE
    BY DEF Short
  <1>2. CASE i = 0
    <2>1. t = <<>>
      BY <1>1, <1>2 DEF Bytes
    <2>2. Len(t) = 0
      BY <2>1
    <2> QED
      BY <2>2
  <1>3. CASE i # 0
    <2>1. Len(t) = 1 /\ i = IF t[1].kind = "tail" THEN Len(t[1].text)
                            ELSE IF t[1].kind = "blank" THEN 2 ELSE 3
      BY <1>1, <1>3, Zenon DEF Bytes
    <2>2. t[1].kind = "tail" /\ Len(t[1].text) > 2
      BY <2>1
    <2>3. i = Len(t[1].text)
      BY <2>1, <2>2
    <2>4. i > 2
      BY <2>2, <2>3, Zenon
    <2> QED
      BY <2>4
  <1> QED
    BY <1>2, <1>3

\* The body is a single byte.
SingleByte(p) == Last(p).kind = "tail" /\ Len(Last(p).text) = 1

\* In the headers of a well-formed request: the next part is a line, two bytes are
\* left behind the last of them that is read unless the body is a single one, and
\* another line follows otherwise, or the body.
LEMMA HeadersAre ==
  ASSUME Parsing, HeadersLeft, pc = "parse", request.status = "HEADERS",
         WellFormed(input.parts)
  PROVE  /\ Head(buff).kind # "tail"
         /\ Short(Tail(buff)) => Bytes(Tail(buff), 2) \/ SingleByte(input.parts)
         /\ Head(buff).kind = "header" /\ ~Short(Tail(buff)) =>
              \E n \in 3..Len(input.parts) :
                  /\ EndsAt(input.parts, n)
                  /\ \E k \in 2..n : Rest(Tail(buff), input.parts, k)
                                     /\ (k = n => n # Len(input.parts))
         /\ Head(buff).kind # "header" =>
              /\ Rest(Tail(buff), input.parts, Len(input.parts))
              /\ input.parts[Len(input.parts)].kind = "tail"
  <1>1. PICK p : p = input.parts
    OBVIOUS
  <1>2. p \in Seq(ToSet(p)) /\ Message(p)
    BY <1>1, PartsAre DEF Parsing
  <1>3. PICK len \in Nat : len = Len(p)
    BY <1>2, LenProperties
  <1>4. PICK n \in 3..len : /\ EndsAt(p, n)
                            /\ \E k \in 2..n : Rest(buff, p, k) /\ (k = n => n # len)
    BY <1>1, <1>3 DEF HeadersLeft
  <1>5. PICK k \in 2..n : Rest(buff, p, k) /\ (k = n => n # len)
    BY <1>4
  <1>6. n \in Nat /\ 3 <= n /\ n <= len /\ k \in Nat /\ 2 <= k /\ k <= n
    BY <1>3, <1>4, <1>5
  <1>7. PICK t : t = Tail(buff)
    OBVIOUS
  <1>8. /\ Head(buff) = p[k] /\ Rest(t, p, k + 1) /\ Len(t) = len - k
        /\ k < len => t[1] = p[k + 1]
    <2>1. k \in Nat /\ 1 <= k /\ k <= Len(p)
      BY <1>3, <1>6
    <2>2. Head(buff) = p[k] /\ Rest(t, p, k + 1)
      BY <1>2, <1>5, <1>7, <2>1, RestIs
    <2>3. Len(t) = len - k /\ \A i \in 1..(len - k) : t[i] = p[(k + 1) - 1 + i]
      <3>1. len + 1 - (k + 1) = len - k
        BY <1>3, <1>6
      <3> QED
        BY <1>3, <2>2, <3>1 DEF Rest
    <2>4. (k < len => 1 \in 1..(len - k)) /\ (k + 1) - 1 + 1 = k + 1
      BY <1>3, <1>6
    <2> QED
      BY <2>2, <2>3, <2>4
  <1>9. Len(t) = len - k
    BY <1>8
  <1>10. /\ \A i \in 2..(n - 1) : p[i].kind = "header"
         /\ p[n].kind = "blank"
         /\ n = len \/ (n = len - 1 /\ p[n + 1].kind = "tail")
    BY <1>3, <1>4 DEF EndsAt
  <1>11. k < n => p[k].kind = "header"
    BY <1>6, <1>10
  <1>12. p[k].kind # "tail"
    BY <1>6, <1>10, <1>11
  <1>13. CASE k = n
    <2>0. n = len - 1 /\ k < len /\ len - k = 1
      BY <1>3, <1>5, <1>6, <1>10, <1>13
    <2>1. Len(t) = 1 /\ t[1] = p[len] /\ p[len].kind = "tail" /\ k + 1 = len
      BY <1>3, <1>6, <1>8, <1>9, <1>10, <1>13, <2>0
    <2>2. PICK m \in Nat : m = Len(p[len].text) /\ m # 0
      <3>1. p[len].text \in Seq(STRING) /\ p[len].text # <<>>
        <4>1. len \in DOMAIN p
          BY <1>2, <1>3, <1>6, LenProperties
        <4> QED
          BY <1>2, <2>1, <4>1 DEF Message
      <3> QED
        BY <3>1, LenProperties, EmptySeq
    <2>3. Short(t) => Bytes(t, 2) \/ SingleByte(p)
      <3>1. CASE m = 1
        BY <1>3, <2>1, <2>2, <3>1 DEF SingleByte, Last
      <3>2. CASE m = 2
        BY <2>1, <2>2, <3>2 DEF Bytes
      <3>3. CASE m > 2
        <4>1. Len(t) \in Nat /\ Len(t) = 1 /\ t[1].kind = "tail" /\ Len(t[1].text) > 2
          BY <2>1, <2>2, <3>3
        <4> QED
          BY <4>1, LongIs
      <3>4. \A i \in Nat : i # 0 => i = 1 \/ i = 2 \/ i > 2
        OBVIOUS
      <3> QED
        BY <2>2, <3>1, <3>2, <3>3, <3>4, Zenon
    <2>4. p[k].kind # "header"
      BY <1>10, <1>13
    <2>5. Rest(t, p, len)
      BY <1>8, <2>1
    <2> QED
      BY <1>1, <1>3, <1>7, <1>8, <1>12, <2>1, <2>3, <2>4, <2>5
  <1>14. CASE k < n
    <2>1. CASE k + 1 = len
      <3>1. n = len /\ Len(t) = 1 /\ t[1].kind = "blank"
        BY <1>3, <1>6, <1>8, <1>9, <1>10, <1>14, <2>1
      <3>2. Bytes(t, 2)
        BY <3>1 DEF Bytes
      <3>3. Short(t)
        BY <3>2 DEF Short
      <3> QED
        BY <1>7, <1>8, <1>11, <1>12, <1>14, <3>2, <3>3
    <2>2. CASE k + 1 # len
      <3>1. PICK l \in Nat : l = Len(t) /\ l >= 2
        <4>1. len - k \in Nat /\ len - k >= 2
          BY <1>3, <1>6, <1>14, <2>2
        <4> QED
          BY <1>9, <4>1
      <3>2. ~Short(t)
        BY <3>1, LongIs
      <3>3. k + 1 \in 2..n /\ (k + 1 = n => n # len)
        BY <1>3, <1>6, <1>14, <2>2
      <3> QED
        BY <1>1, <1>3, <1>4, <1>7, <1>8, <1>11, <1>12, <1>14, <3>2, <3>3
    <2> QED
      BY <2>1, <2>2
  <1> QED
    BY <1>6, <1>13, <1>14

\* What stat decides is the answer.
LEMMA LocatedIs ==
  ASSUME Fields, request.code = "FILE_REQUEST", NEW target, NEW l,
         l = Located(SRC_DIR \o target)
  PROVE  /\ <<l.code, l.path>> = Answer(target)
         /\ l.tasks = request.tasks /\ DOMAIN l = DOMAIN request
  <1>1. PICK file : file = SRC_DIR \o target
    OBVIOUS
  <1>2. CASE Last(file) = "/"
    <2>1. l = [request EXCEPT !.path = file \o HOME_PAGE]
      BY <1>1, <1>2, Zenon DEF Located
    <2>2. Answer(target) = <<"FILE_REQUEST", file \o HOME_PAGE>>
      BY <1>1, <1>2, Zenon DEF Answer
    <2> QED
      BY <2>1, <2>2 DEF Fields
  <1>3. CASE Last(file) # "/" /\ file \notin DOMAIN fs
    <2>1. l = [request EXCEPT !.path = SRC_DIR \o <<"/404.html">>, !.code = "NO_RESOURCE"]
      BY <1>1, <1>3 DEF Located
    <2>2. Answer(target) = <<"NO_RESOURCE", SRC_DIR \o <<"/404.html">> >>
      BY <1>1, <1>3 DEF Answer, Regular, RegularIn
    <2> QED
      BY <2>1, <2>2 DEF Fields
  <1>4. CASE Last(file) # "/" /\ file \in DOMAIN fs
    <2>1. l = [request EXCEPT !.path = IF fs[file] = "dir" THEN file \o <<"/">> \o HOME_PAGE
                                                           ELSE file,
                              !.cgi = (request.cgi \/ fs[file] = "exec"),
                              !.code = "FILE_REQUEST"]
      BY <1>1, <1>4 DEF Located
    <2>2. Answer(target) = <<"FILE_REQUEST", IF fs[file] = "dir"
                                             THEN file \o <<"/">> \o HOME_PAGE ELSE file>>
      BY <1>1, <1>4 DEF Answer, Regular, RegularIn
    <2> QED
      BY <2>1, <2>2 DEF Fields
  <1> QED
    BY <1>2, <1>3, <1>4

-----------------------------------------------------------------------------
(* Every action keeps the invariant.                                       *)

\* A connector that has not seen a request.
LEMMA InvInit == Init => ConnInv
  <1> SUFFICES ASSUME Init PROVE ConnInv
    OBVIOUS
  <1>1. pc = "wait" /\ asked = None
    BY DEF Init
  <1>2. Fields
    BY DEF Init, Fields
  <1>3. Parsing /\ HeadersLeft /\ Parsed /\ Responded
    BY <1>1 DEF Parsing, HeadersLeft, Parsed, Responded
  <1>4. Login /\ Missing
    BY <1>1 DEF Login, Missing, LoginOnlyWhenAsked
  <1> QED
    BY <1>2, <1>3, <1>4 DEF ConnInv

\* A request arrives.
LEMMA ReceiveInv ==
  ASSUME ConnInv, NEW r \in Requests, NEW junk \in Junks \cup {<<>>}, Receive(r, junk)
  PROVE  ConnInv'
  <1>1. /\ pc = "wait" /\ pc' = "parse" /\ buff' = input'.parts
        /\ response' = response /\ fs' = fs /\ asked' = asked
        /\ Message(input'.parts)
    <2>1. Message(Received(r.parts, junk))
      BY JunkIs, ReceivedIs, RequestAssumption
    <2> QED
      BY <2>1 DEF Receive
  <1>2. request' = [request EXCEPT !.status = "REQUEST_LINE", !.tasks = FALSE,
                                   !.cgi = FALSE, !.code = "FILE_REQUEST"]
    BY DEF Receive, InitRequest
  <1>3. /\ request'.status = "REQUEST_LINE" /\ request'.tasks = FALSE
        /\ request'.code = "FILE_REQUEST" /\ Fields'
    BY <1>1, <1>2 DEF ConnInv, Fields
  <1>4. Parsing' /\ HeadersLeft' /\ Parsed' /\ Responded'
    BY <1>1, <1>3 DEF Parsing, HeadersLeft, Parsed, Responded
  <1>5. Login' /\ Missing'
    <2>1. asked = None
      BY <1>1 DEF ConnInv, Login
    <2> QED
      BY <1>1, <2>1 DEF Login, Missing, LoginOnlyWhenAsked
  <1> QED
    BY <1>3, <1>4, <1>5 DEF ConnInv

\* A turn of the loop of Read_Buff that reads a line.
LEMMA LineInv ==
  ASSUME ConnInv, pc = "parse", pc' = pc, UNCHANGED <<response, fs, history>>,
         DOMAIN request' = DOMAIN request, request'.code = request.code,
         request'.tasks = request.tasks, request'.status # "REQUEST_LINE",
         input.parts[1].kind = "request", request'.path = input.parts[1].target,
         HeadersLeft'
  PROVE  ConnInv'
  <1>1. /\ pc' = "parse" /\ response' = response /\ fs' = fs
        /\ input' = input /\ asked' = asked /\ touched' = touched
    BY DEF history
  <1>2. Fields'
    BY <1>1 DEF ConnInv, Fields
  <1>3. Parsing'
    BY <1>1 DEF ConnInv, Parsing
  <1>4. Parsed' /\ Responded'
    BY <1>1 DEF Parsed, Responded
  <1>5. Login' /\ Missing'
    <2>1. asked = None
      BY DEF ConnInv, Login
    <2> QED
      BY <1>1, <2>1 DEF Login, Missing, LoginOnlyWhenAsked
  <1> QED
    BY <1>2, <1>3, <1>4, <1>5 DEF ConnInv

\* The process ends.
LEMMA DieInv ==
  ASSUME ConnInv, NEW how \in Ended, Die(how),
         how = "threw" => pc \in {"length", "load"} /\ ~Regular(response.path)
  PROVE  ConnInv'
  <1>1. /\ pc' = how /\ request' = request /\ response' = response /\ fs' = fs
        /\ input' = input /\ asked' = asked /\ touched' = touched
    BY DEF Die, history
  <1>2. pc' \notin {"wait", "parse", "respond", "length", "load", "reply"}
    BY <1>1 DEF Ended
  <1>3. Fields'
    BY <1>1 DEF ConnInv, Fields
  <1>4. Parsing' /\ HeadersLeft' /\ Parsed'
    BY <1>2 DEF Parsing, HeadersLeft, Parsed
  <1>5. Responded' /\ Missing'
    <2>1. /\ Answer(input.parts[1].target)' = Answer(input.parts[1].target)
          /\ Regular(response.path)' = Regular(response.path)
      BY <1>1 DEF Answer, Regular, RegularIn
    <2> QED
      BY <1>1, <1>2, <2>1 DEF ConnInv, Responded, Missing
  <1>6. Login'
    BY <1>1, <1>2 DEF ConnInv, Login, LoginOnlyWhenAsked
  <1> QED
    BY <1>3, <1>4, <1>5, <1>6 DEF ConnInv

\* The request line.
LEMMA RequestLineInv ==
  ASSUME ConnInv, RequestLine
  PROVE  ConnInv'
  <1>1. /\ pc = "parse" /\ request.status = "REQUEST_LINE" /\ pc' = pc
        /\ Head(buff).kind = "request" /\ buff' = Tail(buff)
        /\ UNCHANGED <<response, fs, history>> /\ input' = input
    BY DEF RequestLine, Reading, history
  <1>2. request' = [request EXCEPT !.method = Head(buff).method, !.status = "HEADERS",
                                   !.path = Head(buff).target]
    BY DEF RequestLine
  <1>3. PICK p : p = input.parts
    OBVIOUS
  <1>4. buff = p /\ p \in Seq(ToSet(p)) /\ p # <<>>
    BY <1>1, <1>3, PartsAre DEF ConnInv, Parsing
  <1>5. PICK len \in Nat : len = Len(p) /\ 1 <= len
    BY <1>4, LenProperties
  <1>6. PICK one \in Nat : one = 1
    OBVIOUS
  <1>7. Rest(p, p, one)
    <2>1. Len(p) = len + 1 - 1 /\ \A i \in 1..len : 1 - 1 + i = i
      BY <1>5
    <2> QED
      BY <1>4, <1>5, <1>6, <2>1 DEF Rest
  <1>8. Head(p) = p[one] /\ Rest(Tail(p), p, one + 1)
    <2>1. one \in Nat /\ 1 <= one /\ one <= Len(p)
      BY <1>5, <1>6
    <2>2. PICK t : t = Tail(p)
      OBVIOUS
    <2>3. Head(p) = p[one] /\ Rest(t, p, one + 1)
      BY <1>4, <1>7, <2>1, <2>2, RestIs
    <2> QED
      BY <2>2, <2>3
  <1>9. /\ request'.status = "HEADERS" /\ request'.code = request.code
        /\ request'.tasks = request.tasks /\ request'.path = input.parts[1].target
        /\ DOMAIN request' = DOMAIN request /\ input.parts[1].kind = "request"
    BY <1>1, <1>2, <1>3, <1>4, <1>6, <1>8 DEF ConnInv, Fields
  <1>10. HeadersLeft'
    <2>1. SUFFICES ASSUME WellFormed(p)
                   PROVE  \E n \in 3..Len(p) :
                            EndsAt(p, n) /\ \E k \in 2..n : Rest(Tail(p), p, k) /\ (k = n => n # Len(p))
      BY <1>1, <1>3, <1>4 DEF HeadersLeft
    <2>2. PICK n \in 3..Len(p) : EndsAt(p, n)
      BY <2>1 DEF WellFormed
    <2>3. 2 \in 2..n /\ 2 # n /\ Rest(Tail(p), p, 2)
      BY <1>5, <1>6, <1>8, <2>2
    <2> QED
      BY <2>2, <2>3
  <1> QED
    BY <1>1, <1>9, <1>10, LineInv

\* A header line is read.
LEMMA ReadHeaderIs ==
  ASSUME ConnInv, NEW line, NEW h, h = ReadHeaderLine(line)
  PROVE  /\ DOMAIN h = DOMAIN request /\ h.code = request.code /\ h.tasks = request.tasks
         /\ h.path = request.path
         /\ h.status = IF line.kind = "header" THEN request.status ELSE "BODY"
  BY DEF ReadHeaderLine, ConnInv, Fields

\* A header line with more than two bytes behind it.
LEMMA HeaderLineInv ==
  ASSUME ConnInv, HeaderLine
  PROVE  ConnInv'
  <1>1. /\ pc = "parse" /\ request.status = "HEADERS" /\ pc' = pc
        /\ ~Short(Tail(buff)) /\ buff' = Tail(buff)
        /\ UNCHANGED <<response, fs, history>> /\ input' = input
        /\ request' = ReadHeaderLine(Head(buff))
    BY DEF HeaderLine, Reading, history
  <1>2. /\ DOMAIN request' = DOMAIN request /\ request'.code = request.code
        /\ request'.tasks = request.tasks /\ request'.path = request.path
        /\ request'.status = IF Head(buff).kind = "header" THEN request.status ELSE "BODY"
    BY <1>1, ReadHeaderIs
  <1>3. input.parts[1].kind = "request" /\ request.path = input.parts[1].target
    BY <1>1 DEF ConnInv, Parsing
  <1>4. HeadersLeft'
    <2>1. SUFFICES ASSUME WellFormed(input.parts), request'.status = "HEADERS"
                   PROVE  \E n \in 3..Len(input.parts) :
                            /\ EndsAt(input.parts, n)
                            /\ \E k \in 2..n : Rest(Tail(buff), input.parts, k)
                                               /\ (k = n => n # Len(input.parts))
      BY <1>1 DEF HeadersLeft
    <2>2. Head(buff).kind = "header"
      BY <1>2, <2>1
    <2> QED
      BY <1>1, <2>1, <2>2, HeadersAre DEF ConnInv
  <1> QED
    BY <1>1, <1>2, <1>3, <1>4, LineInv

\* The last header line, with the blank line of the request.
LEMMA LastHeaderLineInv ==
  ASSUME ConnInv, LastHeaderLine
  PROVE  ConnInv'
  <1>1. /\ pc = "parse" /\ request.status = "HEADERS" /\ pc' = pc
        /\ UNCHANGED <<response, fs, history>>
        /\ request' = [ReadHeaderLine(Head(buff)) EXCEPT !.status = "FINISHED"]
    BY DEF LastHeaderLine, Reading
  <1>2. PICK h : h = ReadHeaderLine(Head(buff))
    OBVIOUS
  <1>3. /\ DOMAIN h = DOMAIN request /\ h.code = request.code
        /\ h.tasks = request.tasks /\ h.path = request.path
    BY <1>2, ReadHeaderIs
  <1>4. /\ DOMAIN request' = DOMAIN request /\ request'.code = request.code
        /\ request'.tasks = request.tasks /\ request'.path = request.path
        /\ request'.status = "FINISHED"
    BY <1>1, <1>2, <1>3 DEF ConnInv, Fields
  <1>5. input.parts[1].kind = "request" /\ request.path = input.parts[1].target
    BY <1>1 DEF ConnInv, Parsing
  <1>6. HeadersLeft'
    BY <1>4 DEF HeadersLeft
  <1> QED
    BY <1>1, <1>4, <1>5, <1>6, LineInv

\* The body.
LEMMA BodyLineInv ==
  ASSUME ConnInv, BodyLine
  PROVE  ConnInv'
  <1>1. /\ pc = "parse" /\ request.status = "BODY" /\ pc' = pc
        /\ UNCHANGED <<response, fs, history>>
    BY DEF BodyLine, Reading
  <1>2. PICK form : request' = [request EXCEPT !.status = "FINISHED", !.form = form]
    BY DEF BodyLine
  <1>3. /\ DOMAIN request' = DOMAIN request /\ request'.code = request.code
        /\ request'.tasks = request.tasks /\ request'.path = request.path
        /\ request'.status = "FINISHED"
    BY <1>2 DEF ConnInv, Fields
  <1>4. input.parts[1].kind = "request" /\ request.path = input.parts[1].target
    BY <1>1 DEF ConnInv, Parsing
  <1>5. HeadersLeft'
    BY <1>3 DEF HeadersLeft
  <1> QED
    BY <1>1, <1>3, <1>4, <1>5, LineInv

\* The process ends in the parser, over a file that is there, or over one that is not.
LEMMA EndsInv ==
  ASSUME ConnInv, LineCut \/ HeaderLineOverrun \/ BodyOverrun \/ OpenFails \/ FileThrows
  PROVE  ConnInv'
  <1>1. CASE FileThrows
    BY <1>1, DieInv DEF FileThrows, Ended
  <1>2. CASE ~FileThrows
    <2>1. PICK how \in Ended : how # "threw" /\ Die(how)
      BY <1>2 DEF LineCut, HeaderLineOverrun, BodyOverrun, OpenFails, Ended
    <2> QED
      BY <2>1, DieInv
  <1> QED
    BY <1>1, <1>2

\* The parser is done.
LEMMA ParsedInv ==
  ASSUME ConnInv, pc = "parse", pc' = "respond", UNCHANGED <<response, fs, history>>,
         DOMAIN request' = DOMAIN request, Parsed'
  PROVE  ConnInv'
  <1>1. /\ response' = response /\ fs' = fs
        /\ input' = input /\ asked' = asked /\ touched' = touched
    BY DEF history
  <1>2. Fields'
    BY <1>1 DEF ConnInv, Fields
  <1>3. Parsing' /\ HeadersLeft' /\ Responded'
    BY DEF Parsing, HeadersLeft, Responded
  <1>4. Login' /\ Missing'
    <2>1. asked = None
      BY DEF ConnInv, Login
    <2> QED
      BY <1>1, <2>1 DEF Login, Missing, LoginOnlyWhenAsked
  <1> QED
    BY <1>2, <1>3, <1>4 DEF ConnInv

\* A request line that is not understood.
LEMMA BadRequestLineInv ==
  ASSUME ConnInv, BadRequestLine
  PROVE  ConnInv'
  <1>1. /\ pc = "parse" /\ request.status = "REQUEST_LINE" /\ pc' = "respond"
        /\ Head(buff).kind # "request"
        /\ UNCHANGED <<response, fs, history>> /\ input' = input
        /\ request' = [request EXCEPT !.code = "BAD_REQUEST"]
    BY DEF BadRequestLine, Reading, history
  <1>2. PICK p : p = input.parts
    OBVIOUS
  <1>3. buff = p /\ p \in Seq(ToSet(p)) /\ p # <<>>
    BY <1>1, <1>2, PartsAre DEF ConnInv, Parsing
  <1>4. input.parts[1].kind # "request"
    BY <1>1, <1>2, <1>3
  <1>5. request'.tasks = FALSE /\ DOMAIN request' = DOMAIN request
    BY <1>1 DEF ConnInv, Fields, Parsing
  <1>6. Parsed'
    BY <1>1, <1>4, <1>5 DEF Parsed
  <1> QED
    BY <1>1, <1>5, <1>6, ParsedInv

\* _Handle_Path.
LEMMA HandlePathInv ==
  ASSUME ConnInv, HandlePath
  PROVE  ConnInv'
  <1>1. /\ pc = "parse" /\ pc' = "respond" /\ (buff = <<>> \/ request.status = "FINISHED")
        /\ UNCHANGED <<response, fs, history>> /\ input' = input /\ fs' = fs
    BY DEF HandlePath, history
  <1>2. request.code = "FILE_REQUEST" /\ request.tasks = FALSE
    BY <1>1 DEF ConnInv, Parsing
  <1>3. request.status # "REQUEST_LINE"
    BY <1>1, PartsAre DEF ConnInv, Parsing
  <1>4. PICK target : target = request.path /\ input.parts[1].target = target
                      /\ input.parts[1].kind = "request"
    BY <1>1, <1>3 DEF ConnInv, Parsing
  <1>5. request' = IF target \in tasks
                   THEN [request EXCEPT !.path = target, !.tasks = TRUE,
                                        !.code = "FILE_REQUEST"]
                   ELSE Located(SRC_DIR \o target)
    BY <1>2, <1>4 DEF HandlePath
  <1>6. Answer(target)' = Answer(target)
    BY <1>1 DEF Answer, Regular, RegularIn
  <1>7. CASE target \in tasks
    <2>1. /\ request'.tasks = TRUE /\ request'.code = "FILE_REQUEST"
          /\ DOMAIN request' = DOMAIN request
      BY <1>5, <1>7 DEF ConnInv, Fields
    <2>2. Parsed'
      BY <1>1, <1>4, <1>7, <2>1 DEF Parsed
    <2> QED
      BY <1>1, <2>1, <2>2, ParsedInv
  <1>8. CASE target \notin tasks
    <2>1. /\ <<request'.code, request'.path>> = Answer(target)
          /\ request'.tasks = FALSE /\ DOMAIN request' = DOMAIN request
      BY <1>2, <1>5, <1>8, LocatedIs DEF ConnInv
    <2>2. Parsed'
      BY <1>1, <1>4, <1>6, <1>8, <2>1 DEF Parsed
    <2> QED
      BY <1>1, <2>1, <2>2, ParsedInv
  <1> QED
    BY <1>7, <1>8

\* An HttpResponse is made for a path.
LEMMA RespondInv ==
  ASSUME ConnInv, NEW path, Respond(path), UNCHANGED <<fs, input, touched>>,
         DOMAIN request' = DOMAIN request, LoginOnlyWhenAsked', Responded'
  PROVE  ConnInv'
  <1>1. pc = "respond" /\ pc' = "length" /\ fs' = fs
        /\ response' = [response EXCEPT !.code = request.code, !.path = path]
    BY DEF Respond
  <1>2. Fields'
    BY <1>1 DEF ConnInv, Fields
  <1>3. Parsing' /\ HeadersLeft' /\ Parsed'
    BY <1>1 DEF Parsing, HeadersLeft, Parsed
  <1>4. Login' /\ Missing'
    BY <1>1 DEF Login, Missing
  <1> QED
    BY <1>2, <1>3, <1>4 DEF ConnInv

\* The file itself is the answer.
LEMMA RespondFileInv ==
  ASSUME ConnInv, RespondFile
  PROVE  ConnInv'
  <1>1. /\ pc = "respond" /\ Respond(request.path) /\ UNCHANGED <<fs, input, touched>>
        /\ request' = request /\ asked' = asked /\ input' = input /\ touched' = touched
        /\ fs' = fs
    BY DEF RespondFile, Respond, history
  <1>2. request.tasks = FALSE
    <2>1. request.tasks \in BOOLEAN
      BY <1>1 DEF ConnInv, Parsed
    <2> QED
      BY <2>1, Zenon DEF RespondFile
  <1>3. response'.code = request.code /\ response'.path = request.path
    BY <1>1 DEF Respond, ConnInv, Fields
  <1>4. LoginOnlyWhenAsked'
    BY <1>1 DEF ConnInv, Login, LoginOnlyWhenAsked
  <1>5. Responded'
    <2>1. Answer(input.parts[1].target)' = Answer(input.parts[1].target)
      BY <1>1 DEF Answer, Regular, RegularIn
    <2>2. ~touched /\ input.parts[1].kind = "request" =>
            /\ input.parts[1].target \notin tasks
            /\ <<request.code, request.path>> = Answer(input.parts[1].target)
      BY <1>1, <1>2 DEF ConnInv, Parsed
    <2> QED
      BY <1>1, <1>3, <2>1, <2>2 DEF Responded
  <1> QED
    BY <1>1, <1>4, <1>5, RespondInv

\* A login page is the answer.
LEMMA RespondLoginInv ==
  ASSUME ConnInv, NEW ok \in BOOLEAN, RespondLogin(ok)
  PROVE  ConnInv'
  <1>1. PICK path : /\ path = SRC_DIR \o <<IF ok THEN "/penetration.html"
                                                 ELSE "/mysqlerror.html">>
                    /\ Respond(path)
    BY DEF RespondLogin
  <1>2. PICK form : request' = [request EXCEPT !.form = form]
    BY DEF RespondLogin
  <1>3. /\ pc = "respond" /\ input' = input /\ touched' = touched /\ fs' = fs
        /\ DOMAIN request' = DOMAIN request
    BY <1>1, <1>2 DEF RespondLogin, Respond
  <1>4. path \in Pages
    BY <1>1 DEF Pages
  <1>5. request.tasks = TRUE
    <2>1. request.tasks \in BOOLEAN
      BY <1>3 DEF ConnInv, Parsed
    <2> QED
      BY <2>1, Zenon DEF RespondLogin
  <1>6. input.parts[1].kind = "request" /\ input.parts[1].target \in tasks
    BY <1>3, <1>5 DEF ConnInv, Parsed
  <1>7. LoginOnlyWhenAsked'
    BY <1>3, <1>6 DEF LoginOnlyWhenAsked
  <1>8. response'.code = request.code /\ response'.path = path
    BY <1>1 DEF Respond, ConnInv, Fields
  <1>9. Responded'
    <2>1. ~touched => request.code = "FILE_REQUEST"
      BY <1>3, <1>6 DEF ConnInv, Parsed
    <2> QED
      BY <1>3, <1>4, <1>6, <1>8, <2>1 DEF Responded
  <1> QED
    BY <1>1, <1>3, <1>7, <1>9, RespondInv

\* The reply is prepared further.
LEMMA LoadInv ==
  ASSUME ConnInv, pc \in {"length", "load"}, pc' \in {"load", "reply"},
         UNCHANGED <<request, fs, history>>, DOMAIN response' = DOMAIN response,
         response'.code = response.code, response'.path = response.path
  PROVE  ConnInv'
  <1>1. /\ request' = request /\ fs' = fs
        /\ input' = input /\ asked' = asked /\ touched' = touched
    BY DEF history
  <1>2. Fields'
    BY <1>1 DEF ConnInv, Fields
  <1>3. Parsing' /\ HeadersLeft' /\ Parsed'
    BY DEF Parsing, HeadersLeft, Parsed
  <1>4. Responded'
    <2>1. Answer(input.parts[1].target)' = Answer(input.parts[1].target)
      BY <1>1 DEF Answer, Regular, RegularIn
    <2> QED
      BY <1>1, <2>1 DEF ConnInv, Responded
  <1>5. Login' /\ Missing'
    BY <1>1 DEF ConnInv, Login, Missing, LoginOnlyWhenAsked
  <1> QED
    BY <1>2, <1>3, <1>4, <1>5 DEF ConnInv

\* Set_ContentLength_From_File and ReadFileToSharedCharArray.
LEMMA FileInv ==
  ASSUME ConnInv, SetContentLength \/ ReadFileToSharedCharArray
  PROVE  ConnInv'
  <1>1. /\ pc \in {"length", "load"} /\ pc' \in {"load", "reply"}
        /\ UNCHANGED <<request, fs, history>> /\ response' = response
    BY DEF SetContentLength, ReadFileToSharedCharArray
  <1> QED
    BY <1>1, LoadInv

\* The reply is sent.
LEMMA WrittenInv ==
  ASSUME ConnInv, Written
  PROVE  ConnInv'
  <1>1. /\ pc' = "wait" /\ asked' = None /\ request' = request /\ fs' = fs
        /\ response' = response
    BY DEF Written
  <1>2. Fields'
    BY <1>1 DEF ConnInv, Fields
  <1>3. Parsing' /\ HeadersLeft' /\ Parsed' /\ Responded'
    BY <1>1 DEF Parsing, HeadersLeft, Parsed, Responded
  <1>4. Login' /\ Missing'
    BY <1>1 DEF Login, Missing, LoginOnlyWhenAsked
  <1> QED
    BY <1>2, <1>3, <1>4 DEF ConnInv

\* The files change: what was promised of them is void until the next request.
LEMMA DeployInv ==
  ASSUME ConnInv, pc \notin Ended, NEW files \in FileSystems, Deploy(files)
  PROVE  ConnInv'
  <1>1. /\ pc' = pc /\ buff' = buff /\ request' = request /\ response' = response
        /\ input' = input /\ asked' = asked /\ fs' \in FileSystems
    BY DEF Deploy
  <1>2. pc = "wait" \/ touched'
    BY Zenon DEF Deploy
  <1>3. Fields'
    BY <1>1 DEF ConnInv, Fields
  <1>4. Parsing'
    BY <1>1 DEF ConnInv, Parsing
  <1>5. HeadersLeft'
    BY <1>1 DEF ConnInv, HeadersLeft
  <1>6. Parsed' /\ Responded'
    BY <1>1, <1>2 DEF ConnInv, Parsed, Responded
  <1>7. Login' /\ Missing'
    BY <1>1, <1>2 DEF ConnInv, Login, Missing, LoginOnlyWhenAsked, Ended
  <1> QED
    BY <1>3, <1>4, <1>5, <1>6, <1>7 DEF ConnInv

\* Every step keeps the invariant.
LEMMA InvNext == ConnInv /\ [Next]_vars => ConnInv'
  <1> SUFFICES ASSUME ConnInv, [Next]_vars PROVE ConnInv'
    OBVIOUS
  <1>1. CASE ProcessStep
    <2>1. CASE \E ok \in BOOLEAN : RespondLogin(ok)
      BY <2>1, RespondLoginInv
    <2> QED
      BY <1>1, <2>1, RequestLineInv, BadRequestLineInv, HeaderLineInv,
         LastHeaderLineInv, BodyLineInv, HandlePathInv, RespondFileInv, FileInv, EndsInv
         DEF ProcessStep
  <1>2. CASE \E r \in Requests, junk \in Junks \cup {<<>>} : Receive(r, junk)
    BY <1>2, ReceiveInv
  <1>5. CASE Written
    BY <1>5, WrittenInv
  <1>3. CASE pc \notin Ended /\ \E files \in FileSystems : Deploy(files)
    BY <1>3, DeployInv
  <1>4. CASE UNCHANGED vars
    <2>1. /\ pc' = pc /\ buff' = buff /\ request' = request /\ response' = response
          /\ fs' = fs /\ input' = input /\ asked' = asked /\ touched' = touched
      BY <1>4 DEF vars
    <2>2. Fields' /\ Parsing' /\ HeadersLeft'
      BY <2>1 DEF ConnInv, Fields, Parsing, HeadersLeft
    <2>3. Parsed' /\ Responded'
      <3>1. Answer(input.parts[1].target)' = Answer(input.parts[1].target)
        BY <2>1 DEF Answer, Regular, RegularIn
      <3> QED
        BY <2>1, <3>1 DEF ConnInv, Parsed, Responded
    <2>4. Login' /\ Missing'
      BY <2>1 DEF ConnInv, Login, Missing, LoginOnlyWhenAsked, Regular, RegularIn
    <2> QED
      BY <2>2, <2>3, <2>4 DEF ConnInv
  <1> QED
    BY <1>1, <1>2, <1>3, <1>4, <1>5 DEF Next

-----------------------------------------------------------------------------
(* What _Handle_Form makes of a text.                                      *)

\* The local variables of _Handle_Form.
FormState(s) ==
    /\ DOMAIN s = {"key", "text", "skip", "form"}
    /\ s.key \in Seq(STRING) /\ s.text \in Seq(STRING) /\ s.skip \in 0..2
    /\ IsForm(s.form)

\* The recursive function is well-defined: it is the loop, turn by turn.
LEMMA LoopIs ==
  ASSUME NEW form, NEW body, Len(body) \in Nat, NEW l, l = FormLoop(form, body)
  PROVE  /\ l[0] = [key |-> <<>>, text |-> <<>>, skip |-> 0, form |-> form]
         /\ \A i \in 1..Len(body) : l[i] = FormChar(l[i - 1], body[i])
  <1> DEFINE base == [key |-> <<>>, text |-> <<>>, skip |-> 0, form |-> form]
             Turn(g, i) == IF i = 0 THEN base
                           ELSE CHOOSE r \in {FormChar(s, body[i]) : s \in {g[i - 1]}} : TRUE
             Loop(g, n) == g = [i \in 0..n |-> Turn(g, i)]
             S == {n \in Nat : \E g : Loop(g, n)}
  <1>1. ASSUME NEW g, NEW i
        PROVE  Turn(g, i) = IF i = 0 THEN base ELSE FormChar(g[i - 1], body[i])
    <2> HIDE DEF base
    <2> QED
      OBVIOUS
  <1>2. Nat \subseteq S
    <2>1. 0 \in S
      <3> DEFINE g == [i \in 0..0 |-> base]
      <3>1. g = [i \in 0..0 |-> Turn(g, i)]
        <4>1. \A i \in 0..0 : i = 0
          OBVIOUS
        <4>2. \A i \in 0..0 : base = Turn(g, i)
          BY <4>1
        <4> HIDE DEF Turn, base
        <4> QED
          BY <4>2
      <3> QED
        BY <3>1
    <2>2. ASSUME NEW n \in Nat, n \in S PROVE n + 1 \in S
      <3>1. PICK g : Loop(g, n)
        BY <2>2
      <3> DEFINE h == [i \in 0..(n + 1) |-> IF i <= n THEN g[i] ELSE FormChar(g[n], body[n + 1])]
      <3>2. \A i \in 0..(n + 1) : h[i] = Turn(h, i)
        <4> SUFFICES ASSUME NEW i \in 0..(n + 1) PROVE h[i] = Turn(h, i)
          OBVIOUS
        <4>1. CASE i = 0
          BY <3>1, <4>1
        <4>2. CASE i # 0 /\ i <= n
          <5>1. h[i] = g[i] /\ h[i - 1] = g[i - 1] /\ i \in 0..n
            BY <4>2
          <5>2. g[i] = Turn(g, i)
            BY <3>1, <5>1
          <5> HIDE DEF h, Turn
          <5> QED
            BY <1>1, <4>2, <5>1, <5>2
        <4>3. CASE i = n + 1
          <5>1. h[i] = FormChar(g[n], body[i]) /\ h[i - 1] = g[n] /\ i # 0
            BY <4>3
          <5> HIDE DEF h, Turn
          <5> QED
            BY <1>1, <5>1
        <4> QED
          BY <4>1, <4>2, <4>3
      <3>3. h = [i \in 0..(n + 1) |-> Turn(h, i)]
        <4>1. DOMAIN h = 0..(n + 1) /\ h = [i \in 0..(n + 1) |-> h[i]]
          OBVIOUS
        <4> HIDE DEF h, Turn
        <4> QED
          BY <3>2, <4>1
      <3>4. Loop(h, n + 1)
        BY <3>3
      <3> HIDE DEF Loop, h
      <3> QED
        BY <3>4
    <2> HIDE DEF S
    <2> QED
      BY <2>1, <2>2, NatSetInduction
  <1>3. \E g : Loop(g, Len(body))
    BY <1>2
  <1>4. Loop(l, Len(body))
    BY <1>3 DEF FormLoop
  <1> QED
    BY <1>1, <1>4

\* What a turn of the loop does with the character ch.
Turned(s, ch, t) ==
    /\ s.skip # 0 => /\ t.text = Append(s.text, "?") /\ t.skip = s.skip - 1
                     /\ t.key = s.key /\ t.form = s.form
    /\ s.skip = 0 /\ ch = "=" =>
         t.key = s.text /\ t.text = <<>> /\ t.skip = 0 /\ t.form = s.form
    /\ s.skip = 0 /\ ch = "&" => /\ t.key = s.key /\ t.text = <<>> /\ t.skip = 0
                                 /\ t.form = Put(s.form, s.key, s.text)
    /\ s.skip = 0 /\ ch = "%" => /\ t.text = Append(s.text, "%") /\ t.skip = 2
                                 /\ t.key = s.key /\ t.form = s.form
    /\ s.skip = 0 /\ ch \notin {"=", "&", "%"} =>
         /\ t.text = Append(s.text, IF ch = "+" THEN " " ELSE ch) /\ t.skip = 0
         /\ t.key = s.key /\ t.form = s.form

\* One turn of the loop.
LEMMA CharIs ==
  ASSUME NEW s, FormState(s), NEW ch \in STRING, NEW t, t = FormChar(s, ch)
  PROVE  FormState(t) /\ Turned(s, ch, t)
  <1>1. /\ DOMAIN s = {"key", "text", "skip", "form"}
        /\ s.key \in Seq(STRING) /\ s.text \in Seq(STRING) /\ s.skip \in 0..2
        /\ IsForm(s.form)
    BY DEF FormState
  <1>0. <<>> \in Seq(STRING) /\ "?" \in STRING /\ "%" \in STRING /\ " " \in STRING
    <2>1. "?" \in STRING /\ "%" \in STRING /\ " " \in STRING
      BY StringAssumption, Zenon
    <2> QED
      BY <2>1, EmptySeq
  <1>2. ASSUME NEW u, DOMAIN u = DOMAIN s, u.key \in Seq(STRING), u.text \in Seq(STRING),
               u.skip \in 0..2, IsForm(u.form)
        PROVE  FormState(u)
    BY <1>1, <1>2 DEF FormState
  <1>3. CASE s.skip # 0
    <2>1. PICK a : a = Append(s.text, "?")
      OBVIOUS
    <2>2. a \in Seq(STRING)
      BY <1>0, <1>1, <2>1, AppendProperties
    <2>3. s.skip > 0 /\ s.skip - 1 \in 0..2
      BY <1>1, <1>3
    <2>4. t = [s EXCEPT !.text = a, !.skip = s.skip - 1]
      BY <1>3, <2>1, <2>3, Zenon DEF FormChar
    <2>5. /\ t.text = a /\ t.skip = s.skip - 1 /\ t.key = s.key /\ t.form = s.form
          /\ DOMAIN t = DOMAIN s
      BY <1>1, <2>4
    <2>6. FormState(t)
      BY <1>1, <1>2, <2>2, <2>3, <2>5
    <2> QED
      BY <1>3, <2>1, <2>5, <2>6 DEF Turned
  <1>4. CASE s.skip = 0 /\ ch = "="
    <2>1. t = [s EXCEPT !.key = s.text, !.text = <<>>]
      BY <1>4 DEF FormChar
    <2>2. /\ t.key = s.text /\ t.text = <<>> /\ t.skip = s.skip /\ t.form = s.form
          /\ DOMAIN t = DOMAIN s
      BY <1>1, <2>1
    <2>3. FormState(t)
      BY <1>0, <1>1, <1>2, <2>2
    <2> QED
      BY <1>4, <2>2, <2>3 DEF Turned
  <1>5. CASE s.skip = 0 /\ ch = "&"
    <2>1. PICK f : f = Put(s.form, s.key, s.text)
      OBVIOUS
    <2>2. t = [s EXCEPT !.form = f, !.text = <<>>]
      BY <1>5, <2>1 DEF FormChar, EndPair
    <2>3. IsForm(f)
      BY <1>1, <2>1 DEF IsForm, Put
    <2>4. /\ t.key = s.key /\ t.text = <<>> /\ t.skip = s.skip /\ t.form = f
          /\ DOMAIN t = DOMAIN s
      BY <1>1, <2>2
    <2>5. FormState(t)
      BY <1>0, <1>1, <1>2, <2>3, <2>4
    <2> QED
      BY <1>5, <2>1, <2>4, <2>5 DEF Turned
  <1>6. CASE s.skip = 0 /\ ch = "%"
    <2>1. PICK a : a = Append(s.text, "%")
      OBVIOUS
    <2>2. a \in Seq(STRING)
      BY <1>0, <1>1, <2>1, AppendProperties
    <2>3. t = [s EXCEPT !.text = a, !.skip = 2]
      BY <1>6, <2>1 DEF FormChar
    <2>4. /\ t.text = a /\ t.skip = 2 /\ t.key = s.key /\ t.form = s.form
          /\ DOMAIN t = DOMAIN s
      BY <1>1, <2>3
    <2>5. FormState(t)
      BY <1>1, <1>2, <2>2, <2>4
    <2> QED
      BY <1>6, <2>1, <2>4, <2>5 DEF Turned
  <1>7. CASE s.skip = 0 /\ ch \notin {"=", "&", "%"}
    <2>1. PICK c \in STRING : c = IF ch = "+" THEN " " ELSE ch
      BY <1>0
    <2>2. PICK a : a = Append(s.text, c)
      OBVIOUS
    <2>3. a \in Seq(STRING)
      BY <1>1, <2>1, <2>2, AppendProperties
    <2>4. t = [s EXCEPT !.text = a]
      <3>1. ~(s.skip > 0)
        BY <1>7
      <3> QED
        BY <1>7, <2>1, <2>2, <3>1, Zenon DEF FormChar
    <2>5. /\ t.text = a /\ t.skip = s.skip /\ t.key = s.key /\ t.form = s.form
          /\ DOMAIN t = DOMAIN s
      BY <1>1, <2>4
    <2>6. FormState(t)
      BY <1>1, <1>2, <2>3, <2>5
    <2> QED
      BY <1>7, <2>1, <2>2, <2>5, <2>6 DEF Turned
  <1> QED
    BY <1>3, <1>4, <1>5, <1>6, <1>7

\* The local variables have their types after every turn.
LEMMA LoopTyped ==
  ASSUME NEW form, IsForm(form), NEW body \in Seq(STRING), NEW l, l = FormLoop(form, body)
  PROVE  \A i \in 0..Len(body) : FormState(l[i])
  <1> DEFINE S == {i \in Nat : i <= Len(body) => FormState(l[i])}
  <1>1. /\ l[0] = [key |-> <<>>, text |-> <<>>, skip |-> 0, form |-> form]
        /\ \A i \in 1..Len(body) : l[i] = FormChar(l[i - 1], body[i])
    BY LoopIs, LenProperties
  <1>2. 0 \in S
    <2>1. FormState(l[0])
      BY <1>1, EmptySeq DEF FormState
    <2> QED
      BY <2>1
  <1>3. ASSUME NEW n \in Nat, n \in S PROVE n + 1 \in S
    <2> SUFFICES ASSUME n + 1 <= Len(body) PROVE FormState(l[n + 1])
      OBVIOUS
    <2>1. n + 1 \in 1..Len(body) /\ (n + 1) - 1 = n /\ n <= Len(body)
      BY LenProperties
    <2>2. l[n + 1] = FormChar(l[n], body[n + 1])
      BY <1>1, <2>1
    <2>3. body[n + 1] \in STRING
      BY <2>1, ElementOfSeq
    <2>4. FormState(l[n])
      BY <1>3, <2>1
    <2> QED
      BY <2>2, <2>3, <2>4, CharIs
  <1>4. Nat \subseteq S
    <2> HIDE DEF S
    <2> QED
      BY <1>2, <1>3, NatSetInduction
  <1> QED
    BY <1>4, LenProperties

\* _Handle_Form stores strings only.
LEMMA HandleFormTyped ==
  ASSUME NEW form, IsForm(form), NEW body \in Seq(STRING)
  PROVE  IsForm(HandleForm(form, body))
  <1>1. PICK s : s = FormLoop(form, body)[Len(body)]
    OBVIOUS
  <1>2. FormState(s)
    BY <1>1, LoopTyped, LenProperties
  <1>3. IsForm(s.form) /\ s.text \in Seq(STRING)
    BY <1>2 DEF FormState
  <1>4. IsForm(Put(s.form, s.key, s.text))
    BY <1>3 DEF IsForm, Put
  <1> QED
    BY <1>1, <1>3, <1>4 DEF HandleForm

\* Appending to a sequence never makes it empty, and makes it the key p only of that
\* character.
LEMMA AppendedText ==
  ASSUME NEW u \in Seq(STRING), NEW c \in STRING, NEW v, v = Append(u, c)
  PROVE  v # <<>> /\ (v = Pwd => u = <<>> /\ c = "p")
  <1>1. v \in Seq(STRING) /\ Len(v) = Len(u) + 1 /\ v[Len(u) + 1] = c /\ Len(u) \in Nat
    BY AppendProperties, LenProperties
  <1>2. v # <<>>
    BY AppendProperties
  <1>3. ASSUME v = Pwd PROVE u = <<>> /\ c = "p"
    <2>1. Len(v) = 1 /\ v[1] = "p"
      BY <1>3 DEF Pwd
    <2>2. Len(u) = 0
      BY <1>1, <2>1
    <2> QED
      BY <1>1, <2>1, <2>2, EmptySeq
  <1> QED
    BY <1>2, <1>3

\* After fields none of which has the key p, the next one begins afresh.
LEMMA FrontRead ==
  ASSUME NEW form, IsForm(form), NEW body \in Seq(STRING), NEW l, l = FormLoop(form, body),
         NEW a \in Nat, a <= Len(body), a # 0 => body[a] = "&",
         \A i \in 1..a : body[i] = "%" => i + 2 < a,
         \A i \in 1..a : body[i] = "p" /\ (i = 1 \/ body[i - 1] \in {"=", "&"}) =>
                           body[i + 1] # "="
  PROVE  /\ l[a].skip = 0 /\ l[a].text = <<>> /\ l[a].key # Pwd
         /\ Pwd \in DOMAIN l[a].form => Pwd \in DOMAIN form
  <1> DEFINE Keys(i) == l[i].key # Pwd /\ (Pwd \in DOMAIN l[i].form => Pwd \in DOMAIN form)
             Empty(i) == l[i].text = <<>> => i = 0 \/ body[i] \in {"=", "&"}
             Key(i) == l[i].text = Pwd =>
                         i >= 1 /\ body[i] = "p" /\ (i = 1 \/ body[i - 1] \in {"=", "&"})
             Skip(i) == /\ l[i].skip = 2 => i >= 1 /\ body[i] = "%"
                        /\ l[i].skip = 1 => i >= 2 /\ body[i - 1] = "%"
             Closed(i) == i >= 1 /\ body[i] = "&" =>
                            \/ l[i].text = <<>>
                            \/ i >= 2 /\ body[i - 1] = "%"
                            \/ i >= 3 /\ body[i - 2] = "%"
             P(i) == Keys(i) /\ Empty(i) /\ Key(i) /\ Skip(i) /\ Closed(i)
             S == {i \in Nat : i <= a => P(i)}
  <1>1. /\ l[0] = [key |-> <<>>, text |-> <<>>, skip |-> 0, form |-> form]
        /\ \A i \in 1..Len(body) : l[i] = FormChar(l[i - 1], body[i])
    BY LoopIs, LenProperties
  <1>2. \A i \in 0..Len(body) : FormState(l[i])
    BY LoopTyped
  <1>3. Pwd = <<"p">> /\ Pwd # <<>>
    BY DEF Pwd
  <1>4. 0 \in S
    <2>1. l[0].key = <<>> /\ l[0].text = <<>> /\ l[0].skip = 0 /\ l[0].form = form
      BY <1>1
    <2>2. P(0)
      BY <1>3, <2>1
    <2> QED
      BY <2>2
  <1>5. ASSUME NEW n \in Nat, n \in S PROVE n + 1 \in S
    <2> SUFFICES ASSUME n + 1 <= a PROVE P(n + 1)
      OBVIOUS
    <2>1. /\ n + 1 \in 1..Len(body) /\ (n + 1) - 1 = n /\ n \in 0..Len(body)
          /\ n + 1 \in 1..a /\ n <= a /\ (n + 1) - 2 = n - 1 /\ n + 1 >= 1
      BY LenProperties
    <2>2. P(n)
      BY <1>5, <2>1
    <2>3. PICK s : s = l[n]
      OBVIOUS
    <2>4. PICK t : t = l[n + 1]
      OBVIOUS
    <2>5. PICK ch \in STRING : ch = body[n + 1]
      BY <2>1, ElementOfSeq
    <2>6. FormState(s) /\ t = FormChar(s, ch)
      BY <1>1, <1>2, <2>1, <2>3, <2>4, <2>5
    <2>7. s.text \in Seq(STRING) /\ s.skip \in 0..2 /\ Turned(s, ch, t)
      BY <2>6, CharIs DEF FormState
    <2>8. "?" \in STRING /\ "%" \in STRING /\ " " \in STRING
      BY StringAssumption, Zenon
    <2>9. Keys(n) /\ Empty(n) /\ Key(n) /\ Skip(n)
      BY <2>2
    <2> HIDE DEF P
    <2>10. CASE s.skip # 0
      <3>1. t.text = Append(s.text, "?") /\ t.skip = s.skip - 1 /\ t.key = s.key /\ t.form = s.form
        BY <2>7, <2>10 DEF Turned
      <3>2. t.text # <<>> /\ t.text # Pwd
        BY <1>3, <2>7, <2>8, <3>1, AppendedText
      <3>3. Keys(n + 1)
        BY <2>3, <2>4, <2>9, <3>1
      <3>4. Empty(n + 1) /\ Key(n + 1)
        BY <2>4, <3>2
      <3>5. /\ s.skip = 2 => n >= 1 /\ body[n] = "%"
            /\ s.skip = 1 => n >= 2 /\ body[n - 1] = "%"
        BY <2>3, <2>9
      <3>6. Skip(n + 1)
        BY <2>1, <2>4, <2>7, <2>10, <3>1, <3>5
      <3>7. Closed(n + 1)
        BY <2>1, <2>7, <2>10, <3>5
      <3> QED
        BY <3>3, <3>4, <3>6, <3>7 DEF P
    <2>11. CASE s.skip = 0 /\ ch = "="
      <3>1. t.key = s.text /\ t.text = <<>> /\ t.skip = 0 /\ t.form = s.form
        BY <2>7, <2>11 DEF Turned
      <3>2. s.text # Pwd
        <4>1. SUFFICES ASSUME s.text = Pwd PROVE FALSE
          OBVIOUS
        <4>2. n >= 1 /\ body[n] = "p" /\ (n = 1 \/ body[n - 1] \in {"=", "&"})
          BY <2>3, <2>9, <4>1
        <4>3. n \in 1..a
          BY <2>1, <4>2
        <4>4. body[n + 1] # "="
          BY <4>2, <4>3
        <4> QED
          BY <2>5, <2>11, <4>4
      <3>3. Keys(n + 1)
        BY <2>3, <2>4, <2>9, <3>1, <3>2
      <3>4. Empty(n + 1) /\ Key(n + 1) /\ Skip(n + 1) /\ Closed(n + 1)
        BY <1>3, <2>4, <2>5, <2>11, <3>1
      <3> QED
        BY <3>3, <3>4 DEF P
    <2>12. CASE s.skip = 0 /\ ch = "&"
      <3>1. /\ t.key = s.key /\ t.text = <<>> /\ t.skip = 0
            /\ t.form = Put(s.form, s.key, s.text)
        BY <2>7, <2>12 DEF Turned
      <3>2. Keys(n + 1)
        <4>1. s.key # Pwd /\ (Pwd \in DOMAIN s.form => Pwd \in DOMAIN form)
          BY <2>3, <2>9
        <4>2. DOMAIN t.form = DOMAIN s.form \cup {s.key}
          BY <3>1 DEF Put
        <4> QED
          BY <2>4, <3>1, <4>1, <4>2
      <3>3. Empty(n + 1) /\ Key(n + 1) /\ Skip(n + 1) /\ Closed(n + 1)
        BY <1>3, <2>4, <2>5, <2>12, <3>1
      <3> QED
        BY <3>2, <3>3 DEF P
    <2>13. CASE s.skip = 0 /\ ch = "%"
      <3>1. t.text = Append(s.text, "%") /\ t.skip = 2 /\ t.key = s.key /\ t.form = s.form
        BY <2>7, <2>13 DEF Turned
      <3>2. t.text # <<>> /\ t.text # Pwd
        BY <1>3, <2>7, <2>8, <3>1, AppendedText
      <3>3. Keys(n + 1)
        BY <2>3, <2>4, <2>9, <3>1
      <3>4. Empty(n + 1) /\ Key(n + 1)
        BY <2>4, <3>2
      <3>5. Skip(n + 1)
        BY <2>1, <2>4, <2>5, <2>13, <3>1
      <3>6. Closed(n + 1)
        BY <2>5, <2>13
      <3> QED
        BY <3>3, <3>4, <3>5, <3>6 DEF P
    <2>14. CASE s.skip = 0 /\ ch \notin {"=", "&", "%"}
      <3>1. PICK c : c = IF ch = "+" THEN " " ELSE ch
        OBVIOUS
      <3>2. t.text = Append(s.text, c) /\ t.skip = 0 /\ t.key = s.key /\ t.form = s.form
        BY <2>7, <2>14, <3>1 DEF Turned
      <3>3. c \in STRING
        BY <2>8, <3>1
      <3>4. t.text # <<>> /\ (t.text = Pwd => s.text = <<>> /\ c = "p")
        BY <2>7, <3>2, <3>3, AppendedText
      <3>5. Keys(n + 1)
        BY <2>3, <2>4, <2>9, <3>2
      <3>6. Empty(n + 1) /\ Skip(n + 1) /\ Closed(n + 1)
        BY <2>4, <2>5, <2>14, <3>2, <3>4
      <3>7. Key(n + 1)
        <4>1. SUFFICES ASSUME t.text = Pwd
                       PROVE  body[n + 1] = "p" /\ (n + 1 = 1 \/ body[n] \in {"=", "&"})
          BY <1>3, <2>1, <2>4
        <4>2. ch = "p" /\ s.text = <<>>
          BY <3>1, <3>4, <4>1
        <4>3. n = 0 \/ body[n] \in {"=", "&"}
          BY <2>3, <2>9, <4>2
        <4> QED
          BY <2>5, <4>2, <4>3
      <3> QED
        BY <3>5, <3>6, <3>7 DEF P
    <2> QED
      BY <2>10, <2>11, <2>12, <2>13, <2>14
  <1>6. Nat \subseteq S
    <2> HIDE DEF S
    <2> QED
      BY <1>4, <1>5, NatSetInduction
  <1>7. Keys(a) /\ Skip(a) /\ Closed(a)
    BY <1>6
  <1>8. FormState(l[a])
    BY <1>2, LenProperties
  <1>9. CASE a = 0
    BY <1>1, <1>7, <1>9
  <1>10. CASE a # 0
    <2>1. a >= 1 /\ body[a] = "&"
      BY <1>10
    <2>2. ~(body[a] = "%") /\ (a >= 2 => body[a - 1] # "%") /\ (a >= 3 => body[a - 2] # "%")
      <3>1. a >= 2 => a - 1 \in 1..a /\ ~((a - 1) + 2 < a)
        OBVIOUS
      <3>2. a >= 3 => a - 2 \in 1..a /\ ~((a - 2) + 2 < a)
        OBVIOUS
      <3> QED
        BY <2>1, <3>1, <3>2
    <2>3. l[a].skip = 0
      <3>1. l[a].skip \in 0..2
        BY <1>8 DEF FormState
      <3>2. l[a].skip # 2 /\ l[a].skip # 1
        BY <1>7, <2>2
      <3> QED
        BY <3>1, <3>2
    <2>4. l[a].text = <<>>
      BY <1>7, <2>1, <2>2
    <2> QED
      BY <1>7, <2>3, <2>4
  <1> QED
    BY <1>9, <1>10

\* The first a characters are such fields.
FieldsUpTo(body, a) ==
    /\ a \in Nat /\ a <= Len(body) /\ (a # 0 => body[a] = "&")
    /\ \A i \in 1..a : body[i] = "%" => i + 2 < a
    /\ \A i \in 1..a : body[i] = "p" /\ (i = 1 \/ body[i - 1] \in {"=", "&"}) =>
                          body[i + 1] # "="

\* They have been read.
FieldsDone(form, s) ==
    /\ s.skip = 0 /\ s.text = <<>> /\ s.key # Pwd
    /\ Pwd \in DOMAIN s.form => Pwd \in DOMAIN form

\* FrontRead in these terms.
LEMMA FieldsRead ==
  ASSUME NEW form, IsForm(form), NEW body \in Seq(STRING), NEW l, l = FormLoop(form, body),
         NEW a, FieldsUpTo(body, a)
  PROVE  FieldsDone(form, l[a])
  <1>1. /\ a \in Nat /\ a <= Len(body) /\ (a # 0 => body[a] = "&")
        /\ \A i \in 1..a : body[i] = "%" => i + 2 < a
        /\ \A i \in 1..a : body[i] = "p" /\ (i = 1 \/ body[i - 1] \in {"=", "&"}) =>
                              body[i + 1] # "="
    BY DEF FieldsUpTo
  <1>2. /\ l[a].skip = 0 /\ l[a].text = <<>> /\ l[a].key # Pwd
        /\ Pwd \in DOMAIN l[a].form => Pwd \in DOMAIN form
    BY <1>1, FrontRead
  <1> QED
    BY <1>2 DEF FieldsDone

\* A word in which only spaces are encoded is read as it was written.
LEMMA WordRead ==
  ASSUME NEW form, IsForm(form), NEW body \in Seq(STRING), NEW l, l = FormLoop(form, body),
         NEW w, Plain(w), NEW b \in Nat, b + Len(w) <= Len(body),
         l[b].skip = 0, l[b].text = <<>>,
         \A j \in 1..Len(w) : body[b + j] = Quote(w)[j]
  PROVE  /\ l[b + Len(w)].skip = 0 /\ l[b + Len(w)].text = w
         /\ l[b + Len(w)].key = l[b].key /\ l[b + Len(w)].form = l[b].form
  <1>1. /\ w \in Seq(STRING) /\ Len(w) \in Nat /\ DOMAIN w = 1..Len(w)
        /\ \A j \in 1..Len(w) : w[j] \notin {"=", "&", "+", "%"}
    BY LenProperties DEF Plain
  <1>2. \A j \in 1..Len(w) : w[j] \in STRING
    BY <1>1, ElementOfSeq
  <1>3. PICK m \in Nat : m = Len(w)
    BY <1>1
  <1>4. PICK len \in Nat : len = Len(body) /\ b + m <= len
    BY <1>3, LenProperties
  <1>5. \A i \in 1..len : l[i] = FormChar(l[i - 1], body[i])
    <2>1. Len(body) \in Nat
      BY <1>4
    <2>2. /\ l[0] = [key |-> <<>>, text |-> <<>>, skip |-> 0, form |-> form]
          /\ \A i \in 1..Len(body) : l[i] = FormChar(l[i - 1], body[i])
      BY <2>1, LoopIs
    <2> QED
      BY <1>4, <2>2
  <1>6. \A i \in 0..len : FormState(l[i])
    BY <1>4, LoopTyped
  <1> DEFINE P(j) == /\ l[b + j].skip = 0 /\ Len(l[b + j].text) = j
                     /\ \A i \in 1..j : l[b + j].text[i] = w[i]
                     /\ l[b + j].key = l[b].key /\ l[b + j].form = l[b].form
             S == {j \in Nat : j <= m => P(j)}
  <1>7. 0 \in S
    <2>1. b + 0 = b
      OBVIOUS
    <2> QED
      BY <2>1
  <1>8. ASSUME NEW j \in Nat, j \in S PROVE j + 1 \in S
    <2> SUFFICES ASSUME j + 1 <= m PROVE P(j + 1)
      OBVIOUS
    <2>1. /\ P(j) /\ b + (j + 1) \in 1..len /\ (b + (j + 1)) - 1 = b + j /\ b + j \in 0..len
          /\ j + 1 \in 1..m
      BY <1>4, <1>8
    <2>2. PICK s : s = l[b + j]
      OBVIOUS
    <2>3. PICK t : t = l[b + (j + 1)]
      OBVIOUS
    <2>4. PICK x \in STRING : x = w[j + 1]
      BY <1>2, <1>3, <2>1
    <2>5. PICK ch : ch = body[b + (j + 1)]
      OBVIOUS
    <2>6. x \notin {"=", "&", "+", "%"}
      BY <1>1, <1>3, <2>1, <2>4
    <2>7. ch = IF x = " " THEN "+" ELSE x
      BY <1>1, <1>3, <2>1, <2>4, <2>5 DEF Quote
    <2>8. ch \in STRING /\ ch \notin {"=", "&", "%"} /\ x = IF ch = "+" THEN " " ELSE ch
      <3>1. ch \in STRING
        BY <1>4, <2>1, <2>5, ElementOfSeq
      <3> QED
        BY <2>6, <2>7, <3>1
    <2>9. FormState(s) /\ t = FormChar(s, ch)
      BY <1>5, <1>6, <2>1, <2>2, <2>3, <2>5
    <2>10. s.skip = 0 /\ Turned(s, ch, t)
      BY <2>1, <2>2, <2>8, <2>9, CharIs
    <2>11. t.text = Append(s.text, x) /\ t.skip = 0 /\ t.key = s.key /\ t.form = s.form
      BY <2>8, <2>10 DEF Turned
    <2>12. s.text \in Seq(STRING) /\ Len(s.text) = j /\ \A i \in 1..j : s.text[i] = w[i]
      BY <2>1, <2>2, <2>9 DEF FormState
    <2>13. /\ Len(t.text) = j + 1 /\ t.text[j + 1] = x
           /\ \A i \in 1..j : t.text[i] = s.text[i]
      BY <2>11, <2>12, AppendProperties
    <2>14. \A i \in 1..(j + 1) : t.text[i] = w[i]
      <3> SUFFICES ASSUME NEW i \in 1..(j + 1) PROVE t.text[i] = w[i]
        OBVIOUS
      <3>1. i \in 1..j \/ i = j + 1
        OBVIOUS
      <3> QED
        BY <2>4, <2>12, <2>13, <3>1
    <2> QED
      BY <2>1, <2>2, <2>3, <2>11, <2>13, <2>14
  <1>9. Nat \subseteq S
    <2> HIDE DEF S
    <2> QED
      BY <1>7, <1>8, NatSetInduction
  <1>10. P(m)
    <2>1. m \in S
      <3> HIDE DEF S
      <3> QED
        BY <1>9
    <2> QED
      BY <2>1
  <1>11. l[b + m].text = w
    <2>1. b + m \in 0..len
      BY <1>4
    <2>2. l[b + m].text \in Seq(STRING)
      BY <1>6, <2>1 DEF FormState
    <2> QED
      BY <1>1, <1>3, <1>10, <2>2, SeqEqual
  <1> QED
    BY <1>3, <1>10, <1>11

\* Behind the b-th character the word w begins.
WordAt(l, body, b, w) ==
    /\ b \in Nat /\ b + Len(w) <= Len(body)
    /\ l[b].skip = 0 /\ l[b].text = <<>>
    /\ \A j \in 1..Len(w) : body[b + j] = Quote(w)[j]

\* It has been read.
WordDone(l, b, w) ==
    /\ l[b + Len(w)].skip = 0 /\ l[b + Len(w)].text = w
    /\ l[b + Len(w)].key = l[b].key /\ l[b + Len(w)].form = l[b].form

\* WordRead in these terms.
LEMMA WordAtRead ==
  ASSUME NEW form, IsForm(form), NEW body \in Seq(STRING), NEW l, l = FormLoop(form, body),
         NEW w, Plain(w), NEW b, WordAt(l, body, b, w)
  PROVE  WordDone(l, b, w)
  <1>1. /\ b \in Nat /\ b + Len(w) <= Len(body)
        /\ l[b].skip = 0 /\ l[b].text = <<>>
        /\ \A j \in 1..Len(w) : body[b + j] = Quote(w)[j]
    BY DEF WordAt
  <1>2. /\ l[b + Len(w)].skip = 0 /\ l[b + Len(w)].text = w
        /\ l[b + Len(w)].key = l[b].key /\ l[b + Len(w)].form = l[b].form
    BY <1>1, WordRead
  <1> QED
    BY <1>2 DEF WordDone

\* The characters of a form: a of other fields, a user name of m and a password of k.
Layout(text, front, login, a, m, k) ==
    /\ a \in Nat /\ a = Len(front) /\ m \in Nat /\ m = Len(login[1])
    /\ k \in Nat /\ k = Len(login[2])
    /\ text \in Seq(STRING) /\ Len(text) = a + m + k + 5
    /\ \A i \in 1..a : text[i] = front[i]
    /\ text[a + 1] = "u" /\ text[a + 2] = "="
    /\ \A j \in 1..m : text[a + 2 + j] = Quote(login[1])[j]
    /\ text[a + m + 3] = "&" /\ text[a + m + 4] = "p" /\ text[a + m + 5] = "="
    /\ \A j \in 1..k : text[a + m + 5 + j] = Quote(login[2])[j]

\* A form is laid out like this.
LEMMA TextIs ==
  ASSUME NEW front \in Seq(STRING), NEW login, Plain(login[1]), Plain(login[2]),
         NEW text, text = FormText(front, login)
  PROVE  \E a, m, k : Layout(text, front, login, a, m, k)
  <1>1. PICK q1 : q1 = Quote(login[1])
    OBVIOUS
  <1>2. PICK q2 : q2 = Quote(login[2])
    OBVIOUS
  <1>3. ASSUME NEW w, Plain(w)
        PROVE  Quote(w) \in Seq(STRING) /\ Len(Quote(w)) = Len(w) /\ Len(w) \in Nat
    <2>1. w \in Seq(STRING) /\ Len(w) \in Nat /\ DOMAIN w = 1..Len(w)
      BY <1>3, LenProperties DEF Plain
    <2>2. \A i \in 1..Len(w) : w[i] \in STRING
      BY <2>1, ElementOfSeq
    <2>3. "+" \in STRING
      BY StringAssumption, Zenon
    <2>4. Quote(w) \in [1..Len(w) -> STRING]
      BY <2>1, <2>2, <2>3 DEF Quote
    <2> QED
      BY <2>1, <2>4, IsASeq, LenProperties
  <1>0. /\ Len(front) \in Nat
        /\ q1 \in Seq(STRING) /\ Len(q1) = Len(login[1]) /\ Len(login[1]) \in Nat
        /\ q2 \in Seq(STRING) /\ Len(q2) = Len(login[2]) /\ Len(login[2]) \in Nat
    BY <1>1, <1>2, <1>3, LenProperties
  <1>a. PICK a \in Nat : a = Len(front)
    BY <1>0
  <1>m. PICK m \in Nat : m = Len(login[1])
    BY <1>0
  <1>k. PICK k \in Nat : k = Len(login[2])
    BY <1>0
  <1>4. q1 \in Seq(STRING) /\ m = Len(q1) /\ q2 \in Seq(STRING) /\ k = Len(q2)
    BY <1>0, <1>m, <1>k
  <1>5. PICK A : A = <<"u", "=">>
    OBVIOUS
  <1>6. PICK B : B = <<"&", "p", "=">>
    OBVIOUS
  <1>7. A \in Seq(STRING) /\ Len(A) = 2 /\ A[1] = "u" /\ A[2] = "="
    <2>1. PICK x : x = "u"
      OBVIOUS
    <2>2. PICK y : y = "="
      OBVIOUS
    <2>3. x \in STRING /\ y \in STRING
      BY <2>1, <2>2, StringAssumption, Zenon
    <2>4. A = <<x, y>>
      BY <1>5, <2>1, <2>2
    <2> QED
      BY <2>1, <2>2, <2>3, <2>4
  <1>8. B \in Seq(STRING) /\ Len(B) = 3 /\ B[1] = "&" /\ B[2] = "p" /\ B[3] = "="
    <2>1. PICK x : x = "&"
      OBVIOUS
    <2>2. PICK y : y = "p"
      OBVIOUS
    <2>3. PICK z : z = "="
      OBVIOUS
    <2>4. x \in STRING /\ y \in STRING /\ z \in STRING
      BY <2>1, <2>2, <2>3, StringAssumption, Zenon
    <2>5. B = <<x, y, z>>
      BY <1>6, <2>1, <2>2, <2>3
    <2> QED
      BY <2>1, <2>2, <2>3, <2>4, <2>5
  <1>9. PICK t1 : t1 = front \o A
    OBVIOUS
  <1>10. PICK t2 : t2 = t1 \o q1
    OBVIOUS
  <1>11. PICK t3 : t3 = t2 \o B
    OBVIOUS
  <1>12. text = t3 \o q2
    BY <1>1, <1>2, <1>5, <1>6, <1>9, <1>10, <1>11, Zenon DEF FormText
  <1>13. PICK n1 \in Nat : n1 = a + 2
    OBVIOUS
  <1>14. PICK n2 \in Nat : n2 = n1 + m
    OBVIOUS
  <1>15. PICK n3 \in Nat : n3 = n2 + 3
    OBVIOUS
  <1>16. /\ t1 \in Seq(STRING) /\ Len(t1) = n1 /\ \A i \in 1..a : t1[i] = front[i]
         /\ \A j \in 1..2 : t1[a + j] = A[j]
    <2>1. PICK two \in Nat : two = 2
      OBVIOUS
    <2>2. /\ t1 \in Seq(STRING) /\ Len(t1) = a + two /\ \A i \in 1..a : t1[i] = front[i]
          /\ \A j \in 1..two : t1[a + j] = A[j]
      <3>1. A \in Seq(STRING) /\ two = Len(A)
        BY <1>7, <2>1
      <3> QED
        BY <1>a, <1>9, <3>1, JoinIs
    <2> QED
      BY <1>13, <2>1, <2>2
  <1>17. /\ t2 \in Seq(STRING) /\ Len(t2) = n2 /\ \A i \in 1..n1 : t2[i] = t1[i]
         /\ \A j \in 1..m : t2[n1 + j] = q1[j]
    <2>1. /\ t2 \in Seq(STRING) /\ Len(t2) = n1 + m /\ \A i \in 1..n1 : t2[i] = t1[i]
          /\ \A j \in 1..m : t2[n1 + j] = q1[j]
      <3>1. t1 \in Seq(STRING) /\ n1 = Len(t1)
        BY <1>16
      <3>2. q1 \in Seq(STRING) /\ m = Len(q1)
        BY <1>4
      <3> QED
        BY <1>10, <3>1, <3>2, JoinIs
    <2> QED
      BY <1>14, <2>1
  <1>18. /\ t3 \in Seq(STRING) /\ Len(t3) = n3 /\ \A i \in 1..n2 : t3[i] = t2[i]
         /\ \A j \in 1..3 : t3[n2 + j] = B[j]
    <2>1. PICK three \in Nat : three = 3
      OBVIOUS
    <2>2. /\ t3 \in Seq(STRING) /\ Len(t3) = n2 + three /\ \A i \in 1..n2 : t3[i] = t2[i]
          /\ \A j \in 1..three : t3[n2 + j] = B[j]
      <3>1. t2 \in Seq(STRING) /\ n2 = Len(t2)
        BY <1>17
      <3>2. B \in Seq(STRING) /\ three = Len(B)
        BY <1>8, <2>1
      <3> QED
        BY <1>11, <3>1, <3>2, JoinIs
    <2> QED
      BY <1>15, <2>1, <2>2
  <1>19. /\ text \in Seq(STRING) /\ Len(text) = n3 + k /\ \A i \in 1..n3 : text[i] = t3[i]
         /\ \A j \in 1..k : text[n3 + j] = q2[j]
    <2>1. t3 \in Seq(STRING) /\ n3 = Len(t3)
      BY <1>18
    <2>2. q2 \in Seq(STRING) /\ k = Len(q2)
      BY <1>4
    <2> QED
      BY <1>12, <2>1, <2>2, JoinIs
  <1>20. /\ \A i \in 1..n2 : i \in 1..n3 /\ text[i] = t2[i]
         /\ \A i \in 1..n1 : i \in 1..n2 /\ text[i] = t1[i]
    <2>1. \A i \in 1..n2 : i \in 1..n3
      BY <1>15
    <2>2. \A i \in 1..n1 : i \in 1..n2
      BY <1>4, <1>14
    <2> QED
      BY <1>17, <1>18, <1>19, <2>1, <2>2
  <1>21. \A i \in 1..a : text[i] = front[i]
    <2>1. \A i \in 1..a : i \in 1..n1
      BY <1>4, <1>13
    <2> QED
      BY <1>16, <1>20, <2>1
  <1>22. text[a + 1] = "u" /\ text[a + 2] = "="
    <2>1. a + 1 \in 1..n1 /\ a + 2 \in 1..n1 /\ 1 \in 1..2 /\ 2 \in 1..2
      BY <1>4, <1>13
    <2> QED
      BY <1>7, <1>16, <1>20, <2>1
  <1>23. ASSUME NEW j \in 1..m PROVE text[a + 2 + j] = q1[j]
    <2>1. n1 + j \in 1..n2 /\ a + 2 + j = n1 + j
      BY <1>4, <1>13, <1>14
    <2> QED
      BY <1>17, <1>20, <2>1
  <1>24. text[a + m + 3] = "&" /\ text[a + m + 4] = "p" /\ text[a + m + 5] = "="
    <2>1. /\ a + m + 3 = n2 + 1 /\ a + m + 4 = n2 + 2 /\ a + m + 5 = n2 + 3
          /\ n2 + 1 \in 1..n3 /\ n2 + 2 \in 1..n3 /\ n2 + 3 \in 1..n3
      BY <1>13, <1>14, <1>15
    <2>2. t3[n2 + 1] = B[1] /\ t3[n2 + 2] = B[2] /\ t3[n2 + 3] = B[3]
      BY <1>18
    <2> QED
      BY <1>8, <1>19, <2>1, <2>2
  <1>25. a + m + k + 5 = n3 + k /\ a + m + 5 = n3
    BY <1>13, <1>14, <1>15
  <1>26. \A j \in 1..k : text[a + m + 5 + j] = q2[j]
    BY <1>19, <1>25
  <1>27. text \in Seq(STRING) /\ Len(text) = a + m + k + 5
    BY <1>19, <1>25
  <1>28. /\ \A j \in 1..m : text[a + 2 + j] = Quote(login[1])[j]
         /\ \A j \in 1..k : text[a + m + 5 + j] = Quote(login[2])[j]
    BY <1>1, <1>2, <1>23, <1>26
  <1>29. Layout(text, front, login, a, m, k)
    BY <1>a, <1>m, <1>k, <1>21, <1>22, <1>24, <1>27, <1>28, Zenon DEF Layout
  <1> QED
    BY <1>29, Zenon

\* _Handle_Form stores the user name that was sent, and the password unless the form
\* has one already; an empty one may be left out.
LEMMA FormRead ==
  ASSUME NEW form, IsForm(form), NEW login, Plain(login[1]), Plain(login[2]),
         NEW front \in Seq(STRING), OtherFields(front),
         NEW text, text = FormText(front, login), NEW f, f = HandleForm(form, text)
  PROVE  /\ User \in DOMAIN f /\ f[User] = login[1]
         /\ Pwd \notin DOMAIN form =>
              IF Pwd \in DOMAIN f THEN f[Pwd] = login[2] ELSE login[2] = <<>>
  <1>0. PICK a, m, k : Layout(text, front, login, a, m, k)
    BY TextIs
  <1>1. /\ a \in Nat /\ m \in Nat /\ k \in Nat
        /\ text \in Seq(STRING) /\ Len(text) = a + m + k + 5
    BY <1>0, Zenon DEF Layout
  <1>2. PICK l : l = FormLoop(form, text)
    OBVIOUS
  <1>3. /\ \A i \in 1..(a + m + k + 5) : l[i] = FormChar(l[i - 1], text[i])
        /\ \A i \in 0..(a + m + k + 5) : FormState(l[i])
    <2>1. Len(text) \in Nat /\ text \in Seq(STRING) /\ Len(text) = a + m + k + 5
      BY <1>1
    <2>2. /\ l[0] = [key |-> <<>>, text |-> <<>>, skip |-> 0, form |-> form]
          /\ \A i \in 1..Len(text) : l[i] = FormChar(l[i - 1], text[i])
      BY <1>2, <2>1, LoopIs
    <2>3. \A i \in 0..Len(text) : FormState(l[i])
      BY <1>2, <2>1, LoopTyped
    <2> QED
      BY <2>1, <2>2, <2>3
  <1>4. ASSUME NEW i \in Nat, i + 1 <= a + m + k + 5, NEW ch \in STRING, text[i + 1] = ch
        PROVE  Turned(l[i], ch, l[i + 1]) /\ l[i].text \in Seq(STRING)
    <2>1. i + 1 \in 1..(a + m + k + 5) /\ (i + 1) - 1 = i /\ i \in 0..(a + m + k + 5)
      BY <1>1, <1>4
    <2>2. FormState(l[i]) /\ l[i + 1] = FormChar(l[i], ch)
      BY <1>3, <1>4, <2>1
    <2> QED
      BY <2>2, CharIs DEF FormState
  <1>5. /\ l[a].skip = 0 /\ l[a].text = <<>> /\ l[a].key # Pwd
        /\ Pwd \in DOMAIN l[a].form => Pwd \in DOMAIN form
    <2>1. a = Len(front) /\ \A i \in 1..a : text[i] = front[i]
      BY <1>0, Zenon DEF Layout
    <2>2. DOMAIN front = 1..a /\ (front # <<>> => Last(front) = front[a])
      BY <2>1, LenProperties DEF Last
    <2>3. a <= Len(text)
      BY <1>1
    <2>4. a # 0 => front[a] = "&" /\ text[a] = "&"
      <3>1. a # 0 => front # <<>> /\ a \in 1..a
        BY <1>1, <2>1
      <3> QED
        BY <2>1, <2>2, <3>1 DEF OtherFields
    <2>5. \A i \in 1..a : text[i] = "%" => i + 2 < a
      BY <2>1, <2>2 DEF OtherFields
    <2>6. ASSUME NEW i \in 1..a, text[i] = "p", i = 1 \/ text[i - 1] \in {"=", "&"}
          PROVE  text[i + 1] # "="
      <3>1. i # a
        BY <2>4, <2>6
      <3>2. i + 1 \in 1..a /\ (i # 1 => i - 1 \in 1..a)
        BY <1>1, <3>1
      <3>3. front[i] = "p" /\ (i = 1 \/ front[i - 1] \in {"=", "&"})
        BY <2>1, <2>6, <3>2
      <3>4. front[i + 1] # "="
        BY <2>2, <3>3 DEF OtherFields
      <3> QED
        BY <2>1, <3>2, <3>4
    <2>7. text \in Seq(STRING) /\ FieldsUpTo(text, a)
      BY <1>1, <2>3, <2>4, <2>5, <2>6 DEF FieldsUpTo
    <2>8. FieldsDone(form, l[a])
      BY <1>2, <2>7, FieldsRead
    <2> QED
      BY <2>8 DEF FieldsDone
  <1>6. "u" \in STRING /\ "p" \in STRING /\ "=" \in STRING /\ "&" \in STRING
    BY StringAssumption, Zenon
  <1>7. /\ text[a + 1] = "u" /\ text[a + 2] = "="
        /\ text[a + m + 3] = "&" /\ text[a + m + 4] = "p" /\ text[a + m + 5] = "="
    BY <1>0, Zenon DEF Layout
  <1>8. /\ l[a + 1].skip = 0 /\ l[a + 1].text = User /\ l[a + 1].form = l[a].form
    <2>1. Turned(l[a], "u", l[a + 1])
      BY <1>1, <1>4, <1>6, <1>7
    <2>2. l[a + 1].skip = 0 /\ l[a + 1].text = Append(<<>>, "u") /\ l[a + 1].form = l[a].form
      BY <1>5, <2>1 DEF Turned
    <2> QED
      BY <2>2 DEF User
  <1>9. /\ l[a + 2].skip = 0 /\ l[a + 2].text = <<>>
        /\ l[a + 2].key = User /\ l[a + 2].form = l[a].form
    <2>1. (a + 1) + 1 = a + 2 /\ a + 1 \in Nat /\ a + 2 <= a + m + k + 5
      BY <1>1
    <2>2. Turned(l[a + 1], "=", l[a + 2])
      BY <1>4, <1>6, <1>7, <2>1
    <2> QED
      BY <1>8, <2>2 DEF Turned
  <1>10. /\ l[a + m + 2].skip = 0 /\ l[a + m + 2].text = login[1]
         /\ l[a + m + 2].key = User /\ l[a + m + 2].form = l[a].form
    <2>1. PICK w : w = login[1]
      OBVIOUS
    <2>2. PICK b \in Nat : b = a + 2
      BY <1>1
    <2>3. /\ Plain(w) /\ m = Len(w) /\ \A i \in 1..m : text[a + 2 + i] = Quote(w)[i]
      BY <1>0, <2>1, Zenon DEF Layout
    <2>4. b + m = a + m + 2 /\ b + m <= Len(text)
      BY <1>1, <2>2
    <2>5. l[b].skip = 0 /\ l[b].text = <<>> /\ l[b].key = User /\ l[b].form = l[a].form
      BY <1>9, <2>2
    <2>6. \A i \in 1..Len(w) : text[b + i] = Quote(w)[i]
      BY <2>2, <2>3
    <2>7. text \in Seq(STRING) /\ WordAt(l, text, b, w)
      <3>1. b + Len(w) <= Len(text)
        BY <2>3, <2>4
      <3> QED
        BY <1>1, <2>2, <2>5, <2>6, <3>1, Zenon DEF WordAt
    <2>8. WordDone(l, b, w)
      BY <1>2, <2>3, <2>7, WordAtRead
    <2> QED
      BY <2>1, <2>3, <2>4, <2>5, <2>8 DEF WordDone
  <1>11. PICK g : g = Put(l[a].form, User, login[1])
    OBVIOUS
  <1>12. /\ l[a + m + 3].skip = 0 /\ l[a + m + 3].text = <<>> /\ l[a + m + 3].form = g
    <2>1. (a + m + 2) + 1 = a + m + 3 /\ a + m + 2 \in Nat /\ a + m + 3 <= a + m + k + 5
      BY <1>1
    <2>2. Turned(l[a + m + 2], "&", l[a + m + 3])
      BY <1>4, <1>6, <1>7, <2>1
    <2> QED
      BY <1>10, <1>11, <2>2 DEF Turned
  <1>13. /\ l[a + m + 4].skip = 0 /\ l[a + m + 4].text = Pwd /\ l[a + m + 4].form = g
    <2>1. (a + m + 3) + 1 = a + m + 4 /\ a + m + 3 \in Nat /\ a + m + 4 <= a + m + k + 5
      BY <1>1
    <2>2. Turned(l[a + m + 3], "p", l[a + m + 4])
      BY <1>4, <1>6, <1>7, <2>1
    <2>3. /\ l[a + m + 4].skip = 0 /\ l[a + m + 4].text = Append(<<>>, "p")
          /\ l[a + m + 4].form = g
      BY <1>12, <2>2 DEF Turned
    <2> QED
      BY <2>3 DEF Pwd
  <1>14. /\ l[a + m + 5].skip = 0 /\ l[a + m + 5].text = <<>>
         /\ l[a + m + 5].key = Pwd /\ l[a + m + 5].form = g
    <2>1. (a + m + 4) + 1 = a + m + 5 /\ a + m + 4 \in Nat /\ a + m + 5 <= a + m + k + 5
      BY <1>1
    <2>2. Turned(l[a + m + 4], "=", l[a + m + 5])
      BY <1>4, <1>6, <1>7, <2>1
    <2> QED
      BY <1>13, <2>2 DEF Turned
  <1>15. PICK e : e = l[a + m + k + 5]
    OBVIOUS
  <1>16. e.text = login[2] /\ e.key = Pwd /\ e.form = g
    <2>1. PICK w : w = login[2]
      OBVIOUS
    <2>2. PICK b \in Nat : b = a + m + 5
      BY <1>1
    <2>3. /\ Plain(w) /\ k = Len(w) /\ \A i \in 1..k : text[a + m + 5 + i] = Quote(w)[i]
      BY <1>0, <2>1, Zenon DEF Layout
    <2>4. b + k = a + m + k + 5 /\ b + k <= Len(text)
      BY <1>1, <2>2
    <2>5. l[b].skip = 0 /\ l[b].text = <<>> /\ l[b].key = Pwd /\ l[b].form = g
      BY <1>14, <2>2
    <2>6. \A i \in 1..Len(w) : text[b + i] = Quote(w)[i]
      BY <2>2, <2>3
    <2>7. text \in Seq(STRING) /\ WordAt(l, text, b, w)
      <3>1. b + Len(w) <= Len(text)
        BY <2>3, <2>4
      <3> QED
        BY <1>1, <2>2, <2>5, <2>6, <3>1, Zenon DEF WordAt
    <2>8. WordDone(l, b, w)
      BY <1>2, <2>3, <2>7, WordAtRead
    <2> QED
      BY <1>15, <2>1, <2>3, <2>4, <2>5, <2>8 DEF WordDone
  <1>17. f = IF Pwd \notin DOMAIN g /\ login[2] # <<>> THEN Put(g, Pwd, login[2]) ELSE g
    <2>1. e = FormLoop(form, text)[Len(text)]
      BY <1>1, <1>2, <1>15
    <2> QED
      BY <1>16, <2>1 DEF HandleForm
  <1>18. User # Pwd
    BY DEF User, Pwd
  <1>19. /\ DOMAIN g = DOMAIN l[a].form \cup {User} /\ g[User] = login[1]
         /\ Pwd \in DOMAIN g => Pwd \in DOMAIN form
    BY <1>5, <1>11, <1>18 DEF Put
  <1>20. CASE Pwd \notin DOMAIN g /\ login[2] # <<>>
    BY <1>17, <1>18, <1>19, <1>20 DEF Put
  <1>21. CASE Pwd \in DOMAIN g \/ login[2] = <<>>
    BY <1>17, <1>19, <1>21
  <1> QED
    BY <1>20, <1>21

-----------------------------------------------------------------------------
(* Types.                                                                  *)

\* The names that paths are made of.
LEMMA NamesTyped ==
  /\ SRC_DIR \in Seq(STRING) /\ HOME_PAGE \in Seq(STRING) /\ <<"/">> \in Seq(STRING)
  /\ <<"/404.html">> \in Seq(STRING) /\ <<"?">> \in Seq(STRING)
  /\ <<"/penetration.html">> \in Seq(STRING) /\ <<"/mysqlerror.html">> \in Seq(STRING)
  /\ <<>> \in Seq(STRING)
  <1>1. ASSUME NEW x \in STRING PROVE <<x>> \in Seq(STRING)
    <2>1. PICK s : s = <<x>>
      OBVIOUS
    <2>2. DOMAIN s = 1..1 /\ s[1] = x
      BY <2>1
    <2>3. s \in [1..1 -> STRING]
      <3>1. s = [i \in 1..1 |-> s[i]] /\ \A i \in 1..1 : i = 1
        BY <2>1
      <3> QED
        BY <2>2, <3>1
    <2>4. s \in Seq(STRING)
      <3>1. PICK n \in Nat : n = 1
        OBVIOUS
      <3>2. s \in [1..n -> STRING]
        BY <2>3, <3>1
      <3>3. n \in Nat
        BY <3>1
      <3> QED
        BY <3>2, <3>3
    <2> QED
      BY <2>1, <2>4, Zenon
  <1>2. /\ "../wwwroot" \in STRING /\ "index.html" \in STRING /\ "/" \in STRING
        /\ "/404.html" \in STRING /\ "?" \in STRING
        /\ "/penetration.html" \in STRING /\ "/mysqlerror.html" \in STRING
    BY StringAssumption, Zenon
  <1>3. <<>> \in Seq(STRING)
    BY EmptySeq
  <1> QED
    BY <1>1, <1>2, <1>3, Zenon DEF SRC_DIR, HOME_PAGE

\* Joining two paths.
LEMMA JoinTyped ==
  ASSUME NEW s \in Seq(STRING), NEW t \in Seq(STRING)
  PROVE  s \o t \in Seq(STRING)
  BY ConcatProperties

\* What stat decides is a path and a status code.
LEMMA LocatedTyped ==
  ASSUME Fields, RequestOK, NEW file \in Seq(STRING), NEW l, l = Located(file)
  PROVE  /\ l.code \in Codes /\ l.cgi \in BOOLEAN /\ l.path \in Seq(STRING)
         /\ l.tasks = request.tasks /\ l.status = request.status /\ l.form = request.form
  <1>1. CASE Last(file) = "/"
    <2>1. PICK path \in Seq(STRING) : path = file \o HOME_PAGE
      BY NamesTyped, JoinTyped
    <2>2. l = [request EXCEPT !.path = path]
      BY <1>1, <2>1, Zenon DEF Located
    <2> QED
      BY <2>1, <2>2 DEF Fields, RequestOK
  <1>2. CASE Last(file) # "/" /\ file \notin DOMAIN fs
    <2>1. PICK path \in Seq(STRING) : path = SRC_DIR \o <<"/404.html">>
      BY NamesTyped, JoinTyped
    <2>2. l = [request EXCEPT !.path = path, !.code = "NO_RESOURCE"]
      BY <1>2, <2>1 DEF Located
    <2> QED
      BY <2>1, <2>2 DEF Fields, RequestOK, Codes
  <1>3. CASE Last(file) # "/" /\ file \in DOMAIN fs
    <2>1. PICK path \in Seq(STRING) :
             path = IF fs[file] = "dir" THEN file \o <<"/">> \o HOME_PAGE ELSE file
      <3>1. file \o <<"/">> \in Seq(STRING)
        BY NamesTyped, JoinTyped
      <3>2. file \o <<"/">> \o HOME_PAGE \in Seq(STRING)
        BY <3>1, NamesTyped, JoinTyped
      <3> QED
        BY <3>2
    <2>2. PICK cgi \in BOOLEAN : cgi = (request.cgi \/ fs[file] = "exec")
      OBVIOUS
    <2>3. l = [request EXCEPT !.path = path, !.cgi = cgi, !.code = "FILE_REQUEST"]
      BY <1>3, <2>1, <2>2 DEF Located
    <2> QED
      BY <2>1, <2>2, <2>3 DEF Fields, RequestOK, Codes
  <1> QED
    BY <1>1, <1>2, <1>3

\* A buffer that holds a whole request, and one that has been read to its end.
LEMMA RestEnds ==
  ASSUME NEW p, p \in Seq(ToSet(p))
  PROVE  /\ Len(p) \in Nat
         /\ \E k \in 1..(Len(p) + 1) : Rest(p, p, k)
         /\ \E k \in 1..(Len(p) + 1) : Rest(<<>>, p, k)
  <1>1. PICK len \in Nat : len = Len(p)
    BY LenProperties
  <1>2. Rest(p, p, 1)
    <2>1. Len(p) = len + 1 - 1 /\ \A i \in 1..len : 1 - 1 + i = i
      BY <1>1
    <2> QED
      BY <1>1, <2>1 DEF Rest
  <1>3. Rest(<<>>, p, len + 1)
    <2>1. <<>> \in Seq(ToSet(p)) /\ Len(<<>>) = 0
      BY EmptySeq
    <2>2. 0 = len + 1 - (len + 1) /\ \A i \in 1..0 : FALSE
      BY <1>1
    <2> QED
      BY <1>1, <2>1, <2>2 DEF Rest
  <1>4. 1 \in 1..(len + 1) /\ len + 1 \in 1..(len + 1)
    BY <1>1
  <1> QED
    BY <1>1, <1>2, <1>3, <1>4

\* The next part of the buffer and the last one are parts of the request.
LEMMA UnreadIs ==
  ASSUME Parsing, Unread, pc = "parse", buff # <<>>
  PROVE  /\ Head(buff).kind = "request" => Head(buff).target \in Seq(STRING)
         /\ Last(buff).kind = "tail" => Last(buff).text \in Seq(STRING)
         /\ Len(Tail(buff)) = Len(buff) - 1
         /\ \E k \in 1..(Len(input.parts) + 1) : Rest(Tail(buff), input.parts, k)
  <1>1. PICK p : p = input.parts
    OBVIOUS
  <1>2. Message(p)
    BY <1>1 DEF Parsing
  <1>3. /\ p \in Seq(ToSet(p)) /\ p # <<>>
        /\ \A i \in DOMAIN p :
             /\ p[i].kind = "request" => p[i].target \in Seq(STRING)
             /\ p[i].kind = "tail" => p[i].text \in Seq(STRING)
    BY <1>2 DEF Message
  <1>4. PICK len \in Nat : len = Len(p) /\ DOMAIN p = 1..len
    BY <1>3, LenProperties
  <1>5. PICK k \in 1..(len + 1) : Rest(buff, p, k)
    BY <1>1, <1>4 DEF Unread
  <1>6. PICK l \in Nat : l = Len(buff) /\ l = len + 1 - k
    <2>1. len + 1 - k \in Nat
      BY <1>4, <1>5
    <2> QED
      BY <1>4, <1>5, <2>1 DEF Rest
  <1>7. PICK S : S = ToSet(p)
    OBVIOUS
  <1>8. buff \in Seq(S) /\ \A i \in 1..l : buff[i] = p[k - 1 + i]
    BY <1>5, <1>6, <1>7 DEF Rest
  <1>9. l # 0
    BY <1>6, <1>8, EmptySeq
  <1>10. k \in Nat /\ 1 <= k /\ k <= len
    BY <1>4, <1>5, <1>6, <1>9
  <1>11. Head(buff) = p[k] /\ Rest(Tail(buff), p, k + 1)
    <2>1. PICK t : t = Tail(buff)
      OBVIOUS
    <2>2. k \in Nat /\ 1 <= k /\ k <= Len(p)
      BY <1>4, <1>10
    <2>3. Head(buff) = p[k] /\ Rest(t, p, k + 1)
      BY <1>3, <1>5, <2>1, <2>2, RestIs
    <2> QED
      BY <2>1, <2>3
  <1>12. Last(buff) = p[len]
    <2>1. Last(buff) = buff[l]
      BY <1>6 DEF Last
    <2>2. l \in 1..l /\ k - 1 + l = len
      BY <1>4, <1>5, <1>6, <1>9
    <2> QED
      BY <1>8, <2>1, <2>2
  <1>13. k \in 1..len /\ len \in 1..len /\ k + 1 \in 1..(len + 1)
    BY <1>4, <1>10
  <1>14. Len(Tail(buff)) = l - 1
    BY <1>6, <1>8, HeadTailProperties
  <1>15. \E i \in 1..(Len(p) + 1) : Rest(Tail(buff), p, i)
    BY <1>4, <1>11, <1>13
  <1> QED
    BY <1>1, <1>3, <1>4, <1>6, <1>11, <1>12, <1>13, <1>14, <1>15

\* A connector that has not seen a request.
LEMMA TypeInit == Init => TypeInv
  <1> SUFFICES ASSUME Init PROVE TypeInv
    OBVIOUS
  <1>1. RequestOK
    <2>1. IsForm(<< >>)
      BY DEF IsForm
    <2>2. PICK e \in Seq(STRING) : e = <<>>
      BY NamesTyped
    <2>3. request = [status |-> "REQUEST_LINE", code |-> "FILE_REQUEST", method |-> "",
                     path |-> e, ctype |-> "", form |-> e, tasks |-> FALSE, cgi |-> FALSE]
      BY <2>2, Zenon DEF Init
    <2> QED
      BY <2>1, <2>2, <2>3 DEF RequestOK, Codes
  <1>2. ResponseOK
    BY NamesTyped DEF Init, ResponseOK, Codes
  <1>3. Unread
    BY DEF Init, Unread
  <1> QED
    BY <1>1, <1>2, <1>3 DEF Init, TypeInv

\* Outside of the parser the buffer is kept or emptied.
LEMMA UnreadKept ==
  ASSUME Unread, pc' # "parse", buff' = buff \/ buff' = <<>>
  PROVE  Unread'
  <1>1. Len(<<>>) = 0
    OBVIOUS
  <1> QED
    BY <1>1 DEF Unread

\* In it, it is emptied.
LEMMA UnreadEnds ==
  ASSUME Parsing, pc = "parse", input' = input, buff' = <<>>
  PROVE  Unread'
  <1>1. \E k \in 1..(Len(input.parts) + 1) : Rest(<<>>, input.parts, k)
    BY PartsAre, RestEnds
  <1>2. Len(<<>>) = 0
    OBVIOUS
  <1> QED
    BY <1>1, <1>2 DEF Unread

\* Or a part is taken off.
LEMMA UnreadNext ==
  ASSUME Parsing, Unread, pc = "parse", buff # <<>>, input' = input, buff' = Tail(buff)
  PROVE  Unread' /\ Len(buff') < Len(buff)
  <1>1. PICK n \in Nat : n = Len(buff)
    BY DEF Unread
  <1>2. n # 0
    <2>1. PICK k \in 1..(Len(input.parts) + 1) : Rest(buff, input.parts, k)
      BY DEF Unread
    <2>2. buff \in Seq(ToSet(input.parts))
      BY <2>1 DEF Rest
    <2> QED
      BY <1>1, <2>2, EmptySeq
  <1>3. Len(buff') = n - 1
    BY <1>1, UnreadIs
  <1>4. \E k \in 1..(Len(input.parts) + 1) : Rest(buff', input.parts, k)
    BY UnreadIs
  <1>5. n - 1 \in Nat /\ n - 1 < n
    BY <1>1, <1>2
  <1>6. Unread'
    BY <1>3, <1>4, <1>5 DEF Unread
  <1> QED
    BY <1>1, <1>3, <1>5, <1>6

\* A request arrives.
LEMMA ReceiveTyped ==
  ASSUME ConnInv, TypeInv, NEW r \in Requests, NEW junk \in Junks \cup {<<>>},
         Receive(r, junk)
  PROVE  TypeInv'
  <1>1. /\ pc' = "parse" /\ buff' = input'.parts
        /\ response' = response /\ fs' = fs /\ touched' = touched
        /\ request' = [request EXCEPT !.status = "REQUEST_LINE", !.tasks = FALSE,
                                      !.cgi = FALSE, !.code = "FILE_REQUEST"]
    BY DEF Receive, InitRequest
  <1>2. RequestOK'
    BY <1>1 DEF ConnInv, Fields, TypeInv, RequestOK, Codes
  <1>3. ResponseOK'
    BY <1>1 DEF TypeInv, ResponseOK
  <1>4. Unread'
    <2>1. PICK q : q = input'.parts
      OBVIOUS
    <2>2. q \in Seq(ToSet(q))
      BY <1>1, <2>1, ReceiveInv DEF ConnInv, Parsing, Message
    <2>3. Len(q) \in Nat /\ \E k \in 1..(Len(q) + 1) : Rest(q, q, k)
      BY <2>2, RestEnds
    <2> QED
      BY <1>1, <2>1, <2>3 DEF Unread
  <1> QED
    BY <1>1, <1>2, <1>3, <1>4 DEF TypeInv

\* The process ends.
LEMMA DieTyped ==
  ASSUME TypeInv, NEW how \in Ended, Die(how)
  PROVE  TypeInv' /\ buff' = buff /\ pc' = how
  <1>1. /\ pc' = how /\ pc' # "parse" /\ buff' = buff /\ request' = request
        /\ response' = response /\ fs' = fs /\ touched' = touched
    BY DEF Die, history, Ended
  <1>2. RequestOK' /\ ResponseOK'
    BY <1>1 DEF TypeInv, RequestOK, ResponseOK, IsForm
  <1>3. Unread'
    BY <1>1, UnreadKept DEF TypeInv
  <1> QED
    BY <1>1, <1>2, <1>3 DEF TypeInv

\* The parser goes on, or is done.
LEMMA ParserTyped ==
  ASSUME TypeInv, pc' \in {"parse", "respond"}, UNCHANGED <<response, fs, history>>,
         RequestOK', Unread'
  PROVE  TypeInv'
  <1>1. response' = response /\ fs' = fs /\ touched' = touched
    BY DEF history
  <1>2. ResponseOK'
    BY <1>1 DEF TypeInv, ResponseOK
  <1> QED
    BY <1>1, <1>2 DEF TypeInv

\* The request line: its target becomes the path.
LEMMA RequestLineTyped ==
  ASSUME ConnInv, TypeInv, RequestLine
  PROVE  TypeInv' /\ pc' = pc /\ pc = "parse" /\ Len(buff') < Len(buff)
  <1>1. /\ pc = "parse" /\ pc' = pc /\ buff # <<>> /\ Head(buff).kind = "request"
        /\ buff' = Tail(buff) /\ input' = input /\ UNCHANGED <<response, fs, history>>
    BY DEF RequestLine, Reading, history
  <1>2. PICK target \in Seq(STRING) : target = Head(buff).target
    BY <1>1, UnreadIs DEF ConnInv, TypeInv
  <1>3. request' = [request EXCEPT !.method = Head(buff).method, !.status = "HEADERS",
                                   !.path = target]
    BY <1>2 DEF RequestLine
  <1>4. RequestOK'
    BY <1>2, <1>3 DEF ConnInv, Fields, TypeInv, RequestOK
  <1>5. Unread' /\ Len(buff') < Len(buff)
    BY <1>1, UnreadNext DEF ConnInv, TypeInv
  <1> QED
    BY <1>1, <1>4, <1>5, ParserTyped

\* A request line that is not understood.
LEMMA BadRequestLineTyped ==
  ASSUME ConnInv, TypeInv, BadRequestLine
  PROVE  TypeInv' /\ pc = "parse" /\ pc' = "respond" /\ buff' = <<>>
  <1>1. /\ pc = "parse" /\ pc' = "respond" /\ buff' = <<>>
        /\ UNCHANGED <<response, fs, history>>
        /\ request' = [request EXCEPT !.code = "BAD_REQUEST"]
    BY DEF BadRequestLine, Reading
  <1>2. RequestOK'
    BY <1>1 DEF ConnInv, Fields, TypeInv, RequestOK, Codes
  <1>3. Unread'
    BY <1>1, UnreadKept DEF TypeInv
  <1> QED
    BY <1>1, <1>2, <1>3, ParserTyped

\* What _Read_Header_Line leaves alone.
LEMMA ReadHeaderTyped ==
  ASSUME ConnInv, TypeInv, NEW line, NEW h, h = ReadHeaderLine(line)
  PROVE  /\ h.status \in {"REQUEST_LINE", "HEADERS", "BODY", "FINISHED"}
         /\ h.code = request.code /\ h.tasks = request.tasks /\ h.cgi = request.cgi
         /\ h.path = request.path /\ h.form = request.form /\ h.method = request.method
         /\ DOMAIN h = DOMAIN request
  BY DEF ReadHeaderLine, ConnInv, Fields, TypeInv, RequestOK

\* A header line.
LEMMA HeaderLineTyped ==
  ASSUME ConnInv, TypeInv, HeaderLine
  PROVE  TypeInv' /\ pc' = pc /\ pc = "parse" /\ Len(buff') < Len(buff)
  <1>1. /\ pc = "parse" /\ pc' = pc /\ buff # <<>> /\ buff' = Tail(buff) /\ input' = input
        /\ UNCHANGED <<response, fs, history>> /\ request' = ReadHeaderLine(Head(buff))
    BY DEF HeaderLine, Reading, history
  <1>2. RequestOK'
    <2>1. PICK h : h = ReadHeaderLine(Head(buff))
      OBVIOUS
    <2>2. /\ h.status \in {"REQUEST_LINE", "HEADERS", "BODY", "FINISHED"}
          /\ h.code = request.code /\ h.tasks = request.tasks /\ h.cgi = request.cgi
          /\ h.path = request.path /\ h.form = request.form
      BY <2>1, ReadHeaderTyped
    <2> QED
      BY <1>1, <2>1, <2>2 DEF TypeInv, RequestOK
  <1>3. Unread' /\ Len(buff') < Len(buff)
    BY <1>1, UnreadNext DEF ConnInv, TypeInv
  <1> QED
    BY <1>1, <1>2, <1>3, ParserTyped

\* The last one.
LEMMA LastHeaderLineTyped ==
  ASSUME ConnInv, TypeInv, LastHeaderLine
  PROVE  TypeInv' /\ pc' = pc /\ pc = "parse" /\ buff # <<>> /\ buff' = <<>>
  <1>1. /\ pc = "parse" /\ pc' = pc /\ buff # <<>> /\ buff' = <<>> /\ input' = input
        /\ UNCHANGED <<response, fs, history>>
        /\ request' = [ReadHeaderLine(Head(buff)) EXCEPT !.status = "FINISHED"]
    BY DEF LastHeaderLine, Reading, history
  <1>2. PICK h : h = ReadHeaderLine(Head(buff))
    OBVIOUS
  <1>3. /\ h.code = request.code /\ h.tasks = request.tasks /\ h.cgi = request.cgi
        /\ h.path = request.path /\ h.form = request.form /\ DOMAIN h = DOMAIN request
    BY <1>2, ReadHeaderTyped
  <1>4. /\ request'.code = h.code /\ request'.tasks = h.tasks /\ request'.cgi = h.cgi
        /\ request'.path = h.path /\ request'.form = h.form /\ request'.status = "FINISHED"
    BY <1>1, <1>2, <1>3 DEF ConnInv, Fields
  <1>5. RequestOK'
    BY <1>3, <1>4 DEF TypeInv, RequestOK
  <1>6. Unread'
    BY <1>1, UnreadEnds DEF ConnInv
  <1> QED
    BY <1>1, <1>5, <1>6, ParserTyped

\* The text of the rest of the buffer is a string.
LEMMA BodyTyped ==
  ASSUME ConnInv, TypeInv, pc = "parse", buff # <<>>
  PROVE  BodyText(buff) \in Seq(STRING)
  <1>1. PICK s \in Seq(STRING) : s = IF Len(buff) > 1 THEN <<"?">> ELSE <<>>
    BY NamesTyped
  <1>2. PICK t \in Seq(STRING) : t = IF Last(buff).kind = "tail" THEN Last(buff).text ELSE <<"?">>
    BY NamesTyped, UnreadIs DEF ConnInv, TypeInv
  <1>3. BodyText(buff) = s \o t
    BY <1>1, <1>2, Zenon DEF BodyText
  <1> QED
    BY <1>1, <1>2, <1>3, JoinTyped

\* If the last part is all there is, the text is that part.
LEMMA WholeBody ==
  ASSUME NEW p, NEW len \in Nat, len = Len(p), Rest(buff, p, len), p[len].kind = "tail",
         NEW text, text = p[len].text, text \in Seq(STRING)
  PROVE  BodyText(buff) = text
  <1>1. Len(buff) = 1 /\ buff[1] = p[len]
    <2>1. Len(buff) = len + 1 - len /\ \A i \in 1..Len(buff) : buff[i] = p[len - 1 + i]
      BY DEF Rest
    <2>2. len + 1 - len = 1 /\ 1 \in 1..1 /\ len - 1 + 1 = len
      OBVIOUS
    <2> QED
      BY <2>1, <2>2
  <1>2. Last(buff) = p[len]
    BY <1>1 DEF Last
  <1>3. ~(Len(buff) > 1)
    BY <1>1
  <1>4. BodyText(buff) = <<>> \o text
    BY <1>2, <1>3, Zenon DEF BodyText
  <1> QED
    BY <1>4

\* The body.
LEMMA BodyLineTyped ==
  ASSUME ConnInv, TypeInv, BodyLine
  PROVE  TypeInv' /\ pc' = pc /\ pc = "parse" /\ buff # <<>> /\ buff' = <<>>
  <1>1. /\ pc = "parse" /\ pc' = pc /\ buff # <<>> /\ buff' = <<>> /\ input' = input
        /\ UNCHANGED <<response, fs, history>>
    BY DEF BodyLine, Reading, history
  <1>2. PICK form : /\ form = IF IsPost
                              THEN HandleForm(request.form, BodyText(buff))
                              ELSE request.form
                    /\ request' = [request EXCEPT !.status = "FINISHED", !.form = form]
    BY DEF BodyLine
  <1>3. IsForm(form)
    <2>1. IsForm(request.form)
      BY DEF TypeInv, RequestOK
    <2>2. IsForm(HandleForm(request.form, BodyText(buff)))
      BY <1>1, <2>1, BodyTyped, HandleFormTyped
    <2> QED
      BY <1>2, <2>1, <2>2
  <1>4. /\ request'.form = form /\ request'.status = "FINISHED"
        /\ request'.code = request.code /\ request'.tasks = request.tasks
        /\ request'.cgi = request.cgi /\ request'.path = request.path
    BY <1>2 DEF ConnInv, Fields
  <1>5. RequestOK'
    BY <1>3, <1>4 DEF TypeInv, RequestOK
  <1>6. Unread'
    BY <1>1, UnreadEnds DEF ConnInv
  <1> QED
    BY <1>1, <1>5, <1>6, ParserTyped

\* _Handle_Path.
LEMMA HandlePathTyped ==
  ASSUME ConnInv, TypeInv, HandlePath
  PROVE  /\ TypeInv' /\ pc = "parse" /\ pc' = "respond" /\ buff' = <<>>
         /\ request'.form = request.form
  <1>1. /\ pc = "parse" /\ pc' = "respond" /\ buff' = <<>>
        /\ UNCHANGED <<response, fs, history>>
    BY DEF HandlePath
  <1>2. request.code # "BAD_REQUEST"
    BY <1>1 DEF ConnInv, Parsing
  <1>3. PICK path \in Seq(STRING) : path = request.path
    BY DEF TypeInv, RequestOK
  <1>4. request' = IF path \in tasks
                   THEN [request EXCEPT !.path = path, !.tasks = TRUE,
                                        !.code = "FILE_REQUEST"]
                   ELSE Located(SRC_DIR \o path)
    BY <1>2, <1>3 DEF HandlePath
  <1>5. RequestOK' /\ request'.form = request.form
    <2>1. CASE path \in tasks
      BY <1>3, <1>4, <2>1 DEF ConnInv, Fields, TypeInv, RequestOK, Codes
    <2>2. CASE path \notin tasks
      <3>1. PICK file \in Seq(STRING) : file = SRC_DIR \o path
        BY <1>3, NamesTyped, JoinTyped
      <3>2. PICK l : l = Located(file)
        OBVIOUS
      <3>3. /\ l.code \in Codes /\ l.cgi \in BOOLEAN /\ l.path \in Seq(STRING)
            /\ l.tasks = request.tasks /\ l.status = request.status /\ l.form = request.form
        BY <3>1, <3>2, LocatedTyped DEF ConnInv, TypeInv
      <3>4. request' = l
        BY <1>4, <2>2, <3>1, <3>2
      <3> QED
        BY <3>3, <3>4 DEF TypeInv, RequestOK
    <2> QED
      BY <2>1, <2>2
  <1>6. Unread'
    BY <1>1, UnreadKept DEF TypeInv
  <1> QED
    BY <1>1, <1>5, <1>6, ParserTyped

\* An HttpResponse is made for a path.
LEMMA RespondTyped ==
  ASSUME ConnInv, TypeInv, NEW path \in Seq(STRING), Respond(path),
         UNCHANGED <<buff, fs, touched>>, RequestOK'
  PROVE  TypeInv' /\ pc = "respond" /\ pc' = "length" /\ buff' = buff
  <1>1. /\ pc = "respond" /\ pc' = "length" /\ buff' = buff /\ fs' = fs /\ touched' = touched
        /\ response' = [response EXCEPT !.code = request.code, !.path = path]
    BY DEF Respond
  <1>2. ResponseOK'
    BY <1>1 DEF ConnInv, Fields, TypeInv, RequestOK, ResponseOK
  <1>3. Unread'
    BY <1>1, UnreadKept DEF TypeInv
  <1> QED
    BY <1>1, <1>2, <1>3 DEF TypeInv

\* The file itself is the answer.
LEMMA RespondFileTyped ==
  ASSUME ConnInv, TypeInv, RespondFile
  PROVE  TypeInv' /\ pc = "respond" /\ pc' = "length" /\ buff' = buff
  <1>1. Respond(request.path) /\ UNCHANGED <<buff, fs, touched>> /\ request' = request
    BY DEF RespondFile, history
  <1>2. RequestOK' /\ request.path \in Seq(STRING)
    BY <1>1 DEF TypeInv, RequestOK
  <1> QED
    BY <1>1, <1>2, RespondTyped

\* Select_Form keeps a form of strings.
LEMMA SelectFormTyped ==
  ASSUME NEW form, IsForm(form), NEW k
  PROVE  IsForm(SelectForm(form, k))
  <1>1. IsForm(Put(form, k, <<>>))
    BY NamesTyped DEF IsForm, Put
  <1> QED
    BY <1>1 DEF SelectForm

\* A login page is the answer.
LEMMA RespondLoginTyped ==
  ASSUME ConnInv, TypeInv, NEW ok \in BOOLEAN, RespondLogin(ok)
  PROVE  TypeInv' /\ pc = "respond" /\ pc' = "length" /\ buff' = buff
  <1>1. PICK path : /\ path = SRC_DIR \o <<IF ok THEN "/penetration.html"
                                                 ELSE "/mysqlerror.html">>
                    /\ Respond(path)
    BY DEF RespondLogin
  <1>2. path \in Seq(STRING)
    <2>1. CASE ok
      <3>1. path = SRC_DIR \o <<"/penetration.html">>
        BY <1>1, <2>1, Zenon
      <3> QED
        BY <3>1, NamesTyped, JoinTyped
    <2>2. CASE ~ok
      <3>1. path = SRC_DIR \o <<"/mysqlerror.html">>
        BY <1>1, <2>2, Zenon
      <3> QED
        BY <3>1, NamesTyped, JoinTyped
    <2> QED
      BY <2>1, <2>2
  <1>3. PICK form : /\ form = SelectForm(SelectForm(request.form, User), Pwd)
                    /\ request' = [request EXCEPT !.form = form]
    BY DEF RespondLogin
  <1>4. IsForm(form)
    <2>1. IsForm(SelectForm(request.form, User))
      BY SelectFormTyped DEF TypeInv, RequestOK
    <2> QED
      BY <1>3, <2>1, SelectFormTyped
  <1>5. /\ request'.form = form /\ request'.status = request.status
        /\ request'.code = request.code /\ request'.tasks = request.tasks
        /\ request'.cgi = request.cgi /\ request'.path = request.path
    BY <1>3 DEF ConnInv, Fields
  <1>6. RequestOK'
    BY <1>4, <1>5 DEF TypeInv, RequestOK
  <1>7. UNCHANGED <<buff, fs, touched>>
    BY DEF RespondLogin
  <1> QED
    BY <1>1, <1>2, <1>6, <1>7, RespondTyped

\* The reply is prepared further, or sent.
LEMMA LoadTyped ==
  ASSUME TypeInv, pc' \in {"load", "reply", "wait"}, UNCHANGED <<buff, request, fs>>,
         touched' \in BOOLEAN, ResponseOK'
  PROVE  TypeInv'
  <1>1. request' = request /\ fs' = fs /\ buff' = buff /\ pc' # "parse"
    OBVIOUS
  <1>2. RequestOK'
    BY <1>1 DEF TypeInv, RequestOK
  <1>3. Unread'
    BY <1>1, UnreadKept DEF TypeInv
  <1> QED
    BY <1>1, <1>2, <1>3 DEF TypeInv

\* Set_ContentLength_From_File.
LEMMA SetContentLengthTyped ==
  ASSUME TypeInv, SetContentLength
  PROVE  TypeInv' /\ pc = "length" /\ pc' = "load" /\ buff' = buff
  <1>1. /\ pc = "length" /\ pc' = "load" /\ UNCHANGED <<buff, request, fs>>
        /\ touched' = touched /\ response' = response
    BY DEF SetContentLength, history
  <1> QED
    BY <1>1, LoadTyped DEF TypeInv, ResponseOK

\* The file is loaded.
LEMMA ReadFileTyped ==
  ASSUME TypeInv, ReadFileToSharedCharArray
  PROVE  TypeInv' /\ pc = "load" /\ pc' = "reply" /\ buff' = buff
  <1>1. /\ pc = "load" /\ pc' = "reply" /\ UNCHANGED <<buff, request, fs>>
        /\ touched' = touched /\ response' = response
    BY DEF ReadFileToSharedCharArray, history
  <1> QED
    BY <1>1, LoadTyped DEF TypeInv, ResponseOK

\* The reply is sent.
LEMMA WrittenTyped ==
  ASSUME TypeInv, Written
  PROVE  TypeInv' /\ pc = "reply" /\ pc' = "wait" /\ buff' = buff
  <1>1. /\ pc = "reply" /\ pc' = "wait" /\ UNCHANGED <<buff, request, fs>>
        /\ touched' = FALSE /\ response' = response
    BY DEF Written
  <1> QED
    BY <1>1, LoadTyped DEF TypeInv, ResponseOK

\* The process ends, over a request or over a file.
LEMMA EndsTyped ==
  ASSUME TypeInv, LineCut \/ HeaderLineOverrun \/ BodyOverrun \/ OpenFails \/ FileThrows
  PROVE  TypeInv' /\ pc \in {"parse", "length", "load"} /\ pc' \in Ended /\ buff' = buff
  <1>1. PICK how \in Ended : Die(how)
    BY DEF LineCut, HeaderLineOverrun, BodyOverrun, OpenFails, FileThrows, Ended
  <1>2. pc \in {"parse", "length", "load"}
    BY DEF LineCut, HeaderLineOverrun, BodyOverrun, OpenFails, FileThrows, Reading
  <1> QED
    BY <1>1, <1>2, DieTyped

\* The files change.
LEMMA DeployTyped ==
  ASSUME TypeInv, NEW files \in FileSystems, Deploy(files)
  PROVE  TypeInv'
  <1>1. /\ pc' = pc /\ buff' = buff /\ request' = request /\ response' = response
        /\ input' = input /\ fs' \in FileSystems
    BY DEF Deploy
  <1>2. touched' \in BOOLEAN
    <2>1. PICK b \in BOOLEAN : b = (touched \/ pc # "wait")
      OBVIOUS
    <2>2. touched' = b
      BY <2>1, Zenon DEF Deploy
    <2> QED
      BY <2>1, <2>2
  <1>3. RequestOK' /\ ResponseOK' /\ Unread'
    BY <1>1 DEF TypeInv, RequestOK, ResponseOK, Unread
  <1> QED
    BY <1>1, <1>2, <1>3 DEF TypeInv

\* Every step keeps the types.
LEMMA TypeNext == ConnInv /\ TypeInv /\ [Next]_vars => TypeInv'
  <1> SUFFICES ASSUME ConnInv, TypeInv, [Next]_vars PROVE TypeInv'
    OBVIOUS
  <1>1. CASE ProcessStep
    <2>1. CASE \E ok \in BOOLEAN : RespondLogin(ok)
      BY <2>1, RespondLoginTyped
    <2> QED
      BY <1>1, <2>1, EndsTyped, RequestLineTyped, BadRequestLineTyped, HeaderLineTyped,
         LastHeaderLineTyped, BodyLineTyped, HandlePathTyped, RespondFileTyped,
         SetContentLengthTyped, ReadFileTyped
         DEF ProcessStep
  <1>2. CASE \E r \in Requests, junk \in Junks \cup {<<>>} : Receive(r, junk)
    BY <1>2, ReceiveTyped
  <1>5. CASE Written
    BY <1>5, WrittenTyped
  <1>3. CASE pc \notin Ended /\ \E files \in FileSystems : Deploy(files)
    BY <1>3, DeployTyped
  <1>4. CASE UNCHANGED vars
    BY <1>4 DEF vars, TypeInv, RequestOK, ResponseOK, Unread
  <1> QED
    BY <1>1, <1>2, <1>3, <1>4, <1>5 DEF Next

\* Every step of Process comes closer to its end.
LEMMA StepAdvances ==
  ASSUME ConnInv, TypeInv, ProcessStep
  PROVE  Left' < Left
  <1>1. Len(buff) \in Nat /\ Len(buff') \in Nat
    <2>1. TypeInv'
      BY TypeNext DEF Next
    <2> QED
      BY <2>1 DEF TypeInv, Unread
  <1> DEFINE Stage(at) == CASE at = "parse" -> 4 [] at = "respond" -> 3 [] at = "length" -> 2
                            [] at = "load" -> 1 [] OTHER -> 0
  <1>2. Left = Len(buff) + Stage(pc) /\ Left' = Len(buff') + Stage(pc')
    BY Zenon DEF Left
  <1>3. /\ Stage("parse") = 4 /\ Stage("respond") = 3 /\ Stage("length") = 2
        /\ Stage("load") = 1 /\ Stage("reply") = 0
        /\ \A how \in Ended : Stage(how) = 0
    BY DEF Ended
  <1> HIDE DEF Stage
  <1>4. Len(<<>>) = 0
    OBVIOUS
  <1>5. CASE RequestLine \/ HeaderLine
    <2>1. pc' = "parse" /\ pc = "parse" /\ Len(buff') < Len(buff)
      BY <1>5, RequestLineTyped, HeaderLineTyped
    <2> QED
      BY <1>1, <1>2, <1>3, <2>1
  <1>6. CASE LastHeaderLine \/ BodyLine
    <2>1. pc' = "parse" /\ pc = "parse" /\ buff # <<>> /\ buff' = <<>>
      BY <1>6, LastHeaderLineTyped, BodyLineTyped
    <2>2. Len(buff) # 0
      <3>1. Parsing /\ Unread
        BY DEF ConnInv, TypeInv
      <3>2. PICK k \in 1..(Len(input.parts) + 1) : Rest(buff, input.parts, k)
        BY <2>1, <3>1 DEF Unread
      <3>3. buff \in Seq(ToSet(input.parts))
        BY <3>2 DEF Rest
      <3> QED
        BY <2>1, <3>3, EmptySeq
    <2> QED
      BY <1>1, <1>2, <1>3, <1>4, <2>1, <2>2
  <1>7. CASE BadRequestLine \/ HandlePath
    <2>1. pc = "parse" /\ pc' = "respond" /\ buff' = <<>>
      BY <1>7, BadRequestLineTyped, HandlePathTyped
    <2> QED
      BY <1>1, <1>2, <1>3, <1>4, <2>1
  <1>8. CASE LineCut \/ HeaderLineOverrun \/ BodyOverrun \/ OpenFails \/ FileThrows
    <2>1. pc \in {"parse", "length", "load"} /\ pc' \in Ended /\ buff' = buff
      BY <1>8, EndsTyped
    <2> QED
      BY <1>1, <1>2, <1>3, <2>1
  <1>9. CASE RespondFile \/ \E ok \in BOOLEAN : RespondLogin(ok)
    <2>1. pc = "respond" /\ pc' = "length" /\ buff' = buff
      BY <1>9, RespondFileTyped, RespondLoginTyped
    <2> QED
      BY <1>1, <1>2, <1>3, <2>1
  <1>10. CASE SetContentLength
    BY <1>1, <1>2, <1>3, <1>10, SetContentLengthTyped
  <1>11. CASE ReadFileToSharedCharArray
    BY <1>1, <1>2, <1>3, <1>11, ReadFileTyped
  <1> QED
    BY <1>5, <1>6, <1>7, <1>8, <1>9, <1>10, <1>11 DEF ProcessStep

-----------------------------------------------------------------------------
(* Requests that end the process.                                          *)

\* Where the loop of _Handle_Form skips the digits of an escape, the escape began.
LEMMA SkipRead ==
  ASSUME NEW form, IsForm(form), NEW body \in Seq(STRING), NEW l, l = FormLoop(form, body),
         l[Len(body)].skip > 0
  PROVE  CutEscape(body)
  <1> DEFINE Skip(i) == /\ l[i].skip = 2 => i >= 1 /\ body[i] = "%"
                        /\ l[i].skip = 1 => i >= 2 /\ body[i - 1] = "%"
             S == {i \in Nat : i <= Len(body) => Skip(i)}
  <1>1. /\ l[0] = [key |-> <<>>, text |-> <<>>, skip |-> 0, form |-> form]
        /\ \A i \in 1..Len(body) : l[i] = FormChar(l[i - 1], body[i])
    BY LoopIs, LenProperties
  <1>2. \A i \in 0..Len(body) : FormState(l[i])
    BY LoopTyped
  <1>3. 0 \in S
    <2>1. l[0].skip = 0
      BY <1>1
    <2> QED
      BY <2>1
  <1>4. ASSUME NEW n \in Nat, n \in S PROVE n + 1 \in S
    <2> SUFFICES ASSUME n + 1 <= Len(body) PROVE Skip(n + 1)
      OBVIOUS
    <2>1. n + 1 \in 1..Len(body) /\ (n + 1) - 1 = n /\ n <= Len(body) /\ n \in 0..Len(body)
      BY LenProperties
    <2>2. l[n + 1] = FormChar(l[n], body[n + 1]) /\ body[n + 1] \in STRING /\ FormState(l[n])
      BY <1>1, <1>2, <2>1, ElementOfSeq
    <2>3. PICK s, t, ch : s = l[n] /\ t = l[n + 1] /\ ch = body[n + 1]
      OBVIOUS
    <2>4. Turned(s, ch, t) /\ s.skip \in 0..2
      BY <2>2, <2>3, CharIs DEF FormState
    <2>5. CASE s.skip # 0
      <3>1. t.skip = s.skip - 1
        BY <2>4, <2>5 DEF Turned
      <3>2. t.skip # 2 /\ (t.skip = 1 => s.skip = 2)
        BY <2>4, <3>1
      <3>3. s.skip = 2 => n >= 1 /\ body[n] = "%"
        BY <1>4, <2>1, <2>3
      <3> QED
        BY <2>1, <2>3, <3>2, <3>3
    <2>6. CASE s.skip = 0
      <3>1. t.skip = 0 \/ (t.skip = 2 /\ ch = "%")
        BY <2>4, <2>6 DEF Turned
      <3>2. n + 1 >= 1
        OBVIOUS
      <3> QED
        BY <2>3, <3>1, <3>2
    <2> QED
      BY <2>5, <2>6
  <1>5. Nat \subseteq S
    <2> HIDE DEF S
    <2> QED
      BY <1>3, <1>4, NatSetInduction
  <1>6. PICK len \in Nat : len = Len(body) /\ DOMAIN body = 1..len
    BY LenProperties
  <1>7. Skip(len) /\ l[len].skip \in 0..2 /\ l[len].skip > 0
    <2>1. len \in S /\ len \in 0..Len(body)
      BY <1>5, <1>6
    <2>2. Skip(len)
      BY <1>6, <2>1
    <2>3. FormState(l[len])
      BY <1>2, <2>1
    <2> QED
      BY <1>6, <2>2, <2>3 DEF FormState
  <1>8. CASE l[len].skip = 2
    <2>1. len \in 1..len /\ body[len] = "%" /\ len + 2 > len
      BY <1>6, <1>7, <1>8
    <2> QED
      BY <1>6, <2>1 DEF CutEscape
  <1>9. CASE l[len].skip = 1
    <2>1. len - 1 \in 1..len /\ body[len - 1] = "%" /\ (len - 1) + 2 > len
      BY <1>6, <1>7, <1>9
    <2> QED
      BY <1>6, <2>1 DEF CutEscape
  <1> QED
    BY <1>7, <1>8, <1>9

\* A line without its end is never that of a well-formed request.
LEMMA LineCutSurv ==
  ASSUME ConnInv, LineCut
  PROVE  SurvInv'
  <1>1. pc = "parse" /\ Head(buff).kind = "tail" /\ Die("aborted")
        /\ request.status \in {"REQUEST_LINE", "HEADERS"}
    BY DEF LineCut, Reading
  <1>2. ~WellFormed(input.parts)
    <2>1. CASE request.status = "REQUEST_LINE"
      <3>1. PICK p : p = input.parts
        OBVIOUS
      <3>2. buff = p /\ p \in Seq(ToSet(p)) /\ p # <<>>
        BY <1>1, <2>1, <3>1, PartsAre DEF ConnInv, Parsing
      <3>3. p[1].kind = "tail"
        BY <1>1, <3>2
      <3> QED
        BY <3>1, <3>3 DEF WellFormed, EndsAt
    <2>2. CASE request.status = "HEADERS"
      BY <1>1, <2>2, HeadersAre DEF ConnInv
    <2> QED
      BY <1>1, <2>1, <2>2
  <1> QED
    BY <1>1, <1>2 DEF SurvInv, BodyLeft, Survives, Die, history

\* Fewer than two bytes are left behind the blank line only of a one-byte body.
LEMMA HeaderLineOverrunSurv ==
  ASSUME ConnInv, HeaderLineOverrun
  PROVE  SurvInv'
  <1>1. pc = "parse" /\ request.status = "HEADERS" /\ Die("aborted")
        /\ Short(Tail(buff)) /\ ~Bytes(Tail(buff), 2)
    BY DEF HeaderLineOverrun, Reading
  <1>2. WellFormed(input.parts) => SingleByte(input.parts)
    BY <1>1, HeadersAre DEF ConnInv
  <1>3. pc' = "aborted" /\ input' = input
    BY <1>1 DEF Die, history
  <1> QED
    BY <1>2, <1>3 DEF SurvInv, BodyLeft, Survives, SingleByte

\* The form is the whole body, and it is cut in an escape.
LEMMA BodyOverrunSurv ==
  ASSUME ConnInv, TypeInv, SurvInv, BodyOverrun
  PROVE  SurvInv'
  <1>1. /\ pc = "parse" /\ request.status = "BODY" /\ buff # <<>>
        /\ pc' = "aborted" /\ input' = input
    BY DEF BodyOverrun, Reading, Die, history
  <1>2. PICK body : body = BodyText(buff) /\ FormLoop(request.form, body)[Len(body)].skip > 0
    BY DEF BodyOverrun
  <1>3. body \in Seq(STRING) /\ IsForm(request.form)
    BY <1>1, <1>2, BodyTyped DEF TypeInv, RequestOK
  <1>4. CutEscape(body)
    BY <1>2, <1>3, SkipRead
  <1>5. ASSUME WellFormed(input.parts)
        PROVE  Last(input.parts).kind = "tail" /\ CutEscape(Last(input.parts).text)
    <2>1. PICK p : p = input.parts
      OBVIOUS
    <2>2. p \in Seq(ToSet(p)) /\ p # <<>> /\ Message(p)
      BY <1>1, <2>1, PartsAre DEF ConnInv, Parsing
    <2>3. PICK len \in Nat : len = Len(p) /\ len # 0 /\ DOMAIN p = 1..len
      BY <2>2, LenProperties, EmptySeq
    <2>4. Rest(buff, p, len) /\ p[len].kind = "tail"
      BY <1>1, <1>5, <2>1, <2>3 DEF SurvInv, BodyLeft
    <2>5. PICK text : text = p[len].text
      OBVIOUS
    <2>6. text \in Seq(STRING)
      <3>1. len \in DOMAIN p
        BY <2>3
      <3> QED
        BY <2>2, <2>4, <2>5, <3>1 DEF Message
    <2>7. BodyText(buff) = text
      BY <2>3, <2>4, <2>5, <2>6, WholeBody
    <2> QED
      BY <1>2, <1>4, <2>1, <2>3, <2>4, <2>5, <2>7 DEF Last
  <1> QED
    BY <1>1, <1>5 DEF SurvInv, BodyLeft, Survives

\* Behind the blank line is the body.
LEMMA HeaderLineSurv ==
  ASSUME ConnInv, HeaderLine
  PROVE  SurvInv'
  <1>1. /\ pc = "parse" /\ request.status = "HEADERS" /\ pc' = pc
        /\ buff' = Tail(buff) /\ input' = input /\ request' = ReadHeaderLine(Head(buff))
    BY DEF HeaderLine, Reading, history
  <1>2. request'.status = IF Head(buff).kind = "header" THEN request.status ELSE "BODY"
    BY <1>1, ReadHeaderIs
  <1>3. WellFormed(input.parts) /\ Head(buff).kind # "header" =>
          /\ Rest(Tail(buff), input.parts, Len(input.parts))
          /\ input.parts[Len(input.parts)].kind = "tail"
    BY <1>1, HeadersAre DEF ConnInv
  <1>4. BodyLeft'
    BY <1>1, <1>2, <1>3 DEF BodyLeft
  <1> QED
    BY <1>1, <1>4 DEF SurvInv, Survives

\* The other steps neither read a header line nor end the process in the parser.
LEMMA OtherSurv ==
  ASSUME pc' # "aborted", pc' = "parse" => request'.status # "BODY"
  PROVE  SurvInv'
  BY DEF SurvInv, BodyLeft, Survives

\* Every step keeps the invariant.
LEMMA SurvNext == ConnInv /\ TypeInv /\ SurvInv /\ [Next]_vars => SurvInv'
  <1> SUFFICES ASSUME ConnInv, TypeInv, SurvInv, [Next]_vars PROVE SurvInv'
    OBVIOUS
  <1>1. CASE RequestLine
    <2>1. pc' = "parse" /\ request'.status = "HEADERS"
      BY <1>1 DEF RequestLine, Reading, ConnInv, Fields
    <2> QED
      BY <2>1, OtherSurv
  <1>2. CASE LastHeaderLine
    <2>1. DOMAIN ReadHeaderLine(Head(buff)) = DOMAIN request
      BY ReadHeaderIs
    <2>2. pc' = "parse" /\ request'.status = "FINISHED"
      BY <1>2, <2>1 DEF LastHeaderLine, Reading, ConnInv, Fields
    <2> QED
      BY <2>2, OtherSurv
  <1>3. CASE BodyLine
    <2>1. pc' = "parse" /\ request'.status = "FINISHED"
      BY <1>3 DEF BodyLine, Reading, ConnInv, Fields
    <2> QED
      BY <2>1, OtherSurv
  <1>4. CASE BadRequestLine \/ HandlePath \/ RespondFile \/ SetContentLength \/ OpenFails
             \/ FileThrows \/ ReadFileToSharedCharArray \/ Written
    <2>1. pc' \in {"respond", "length", "load", "reply", "wait", "threw", "unopened"}
      BY <1>4 DEF BadRequestLine, HandlePath, RespondFile, Respond, SetContentLength,
                  OpenFails, FileThrows, Die, ReadFileToSharedCharArray, Written
    <2> QED
      BY <2>1, OtherSurv
  <1>5. CASE \E ok \in BOOLEAN : RespondLogin(ok)
    <2>1. pc' = "length"
      BY <1>5 DEF RespondLogin, Respond
    <2> QED
      BY <2>1, OtherSurv
  <1>6. CASE \E r \in Requests, junk \in Junks \cup {<<>>} : Receive(r, junk)
    <2>1. pc' = "parse" /\ request'.status = "REQUEST_LINE"
      BY <1>6 DEF Receive, InitRequest, ConnInv, Fields
    <2> QED
      BY <2>1, OtherSurv
  <1>7. CASE (\E files \in FileSystems : Deploy(files)) \/ UNCHANGED vars
    <2>1. pc' = pc /\ buff' = buff /\ request' = request /\ input' = input
      BY <1>7 DEF Deploy, vars
    <2> QED
      BY <2>1 DEF SurvInv, BodyLeft, Survives
  <1> QED
    BY <1>1, <1>2, <1>3, <1>4, <1>5, <1>6, <1>7, LineCutSurv, HeaderLineSurv,
       HeaderLineOverrunSurv, BodyOverrunSurv DEF Next, ProcessStep

-----------------------------------------------------------------------------
(* Forms.                                                                  *)

\* The parts of a request that posts a form: len - 1 lines, the last of them blank, and
\* the form.
PostShape(p, len) ==
    /\ len \in Nat /\ len = Len(p) /\ len >= 4
    /\ p[1].kind = "request" /\ p[1].method = "POST"
    /\ \A i \in 2..(len - 2) : p[i].kind = "header"
    /\ p[len - 1].kind = "blank" /\ p[len].kind = "tail" /\ Len(p[len].text) > 2
    /\ \E j \in 2..(len - 2) : /\ p[j].ctype = "form"
                               /\ \A i \in (j + 1)..(len - 2) : p[i].ctype = None

\* Posts implies it.
LEMMA PostIs ==
  ASSUME NEW p, p \in Seq(ToSet(p)), NEW login, Posts(p, login)
  PROVE  \E len : PostShape(p, len)
  <1>1. PICK len \in Nat : len = Len(p)
    BY LenProperties
  <1>2. PICK n \in Int : n = len - 1
    BY <1>1
  <1>3. /\ n >= 3 /\ EndsAt(p, n) /\ p[1].method = "POST"
        /\ \E j \in 2..(n - 1) : /\ p[j].ctype = "form"
                                 /\ \A i \in (j + 1)..(n - 1) : p[i].ctype = None
    BY <1>1, <1>2 DEF Posts
  <1>4. n - 1 = len - 2 /\ n + 1 = len /\ n # len /\ len >= 4
    BY <1>1, <1>2, <1>3
  <1>5. /\ p[1].kind = "request" /\ \A i \in 2..(n - 1) : p[i].kind = "header"
        /\ p[n].kind = "blank" /\ p[n + 1].kind = "tail" /\ Len(p[n + 1].text) > 2
    <2>1. Len(p[n + 1].text) > 2
      BY <1>1, <1>2 DEF Posts
    <2> QED
      BY <1>1, <1>3, <1>4, <2>1 DEF EndsAt
  <1>6. PostShape(p, len)
    BY <1>1, <1>2, <1>3, <1>4, <1>5 DEF PostShape
  <1> QED
    BY <1>6

\* In the headers of such a request there is always more to come: another header, or
\* the blank line, when the form has been announced.
LEMMA PostHeadersAre ==
  ASSUME ConnInv, PostInv, pc = "parse", request.status = "HEADERS", Posting,
         NEW t, t = Tail(buff)
  PROVE  /\ buff # <<>> /\ ~Short(t)
         /\ \/ /\ Head(buff).kind = "header"
               /\ HeadersAt(t, input.parts, ReadHeaderLine(Head(buff)).ctype)
            \/ /\ Head(buff).kind = "blank" /\ request.ctype = "form"
               /\ Rest(t, input.parts, Len(input.parts))
  <1>1. PICK p : p = input.parts
    OBVIOUS
  <1>2. p \in Seq(ToSet(p)) /\ Posts(p, input.sent)
    BY <1>1, PartsAre DEF ConnInv, PostInv, Posted
  <1>3. PICK len : PostShape(p, len)
    BY <1>2, PostIs
  <1>4. len \in Nat /\ len = Len(p) /\ len >= 4
    BY <1>3 DEF PostShape
  <1>5. PICK k \in 2..(len - 1), j \in 2..(len - 2) :
           /\ Rest(buff, p, k) /\ p[j].ctype = "form"
           /\ \A i \in (j + 1)..(len - 2) : p[i].ctype = None
           /\ k > j => request.ctype = "form"
    BY <1>1, <1>4 DEF PostInv, PostHeaders, HeadersAt
  <1>6. k \in Nat /\ 2 <= k /\ k <= len - 1 /\ j \in Nat /\ 2 <= j /\ j <= len - 2
    BY <1>4, <1>5
  <1>7. Head(buff) = p[k] /\ Rest(t, p, k + 1)
    <2>1. k \in Nat /\ 1 <= k /\ k <= Len(p)
      BY <1>4, <1>6
    <2> QED
      BY <1>2, <1>5, <2>1, RestIs
  <1>8. buff # <<>>
    <2>1. Len(buff) = len + 1 - k
      BY <1>4, <1>5 DEF Rest
    <2>2. Len(buff) # 0
      BY <1>4, <1>6, <2>1
    <2>3. Len(<<>>) = 0
      OBVIOUS
    <2> QED
      BY <2>2, <2>3, Zenon
  <1>9. Len(t) = len - k /\ t[1] = p[k + 1]
    <2>1. Len(t) = len + 1 - (k + 1) /\ \A i \in 1..Len(t) : t[i] = p[(k + 1) - 1 + i]
      BY <1>4, <1>7 DEF Rest
    <2>2. len + 1 - (k + 1) = len - k /\ 1 \in 1..(len - k) /\ (k + 1) - 1 + 1 = k + 1
      BY <1>4, <1>6
    <2> QED
      BY <2>1, <2>2
  <1>10. CASE k = len - 1
    <2>1. k + 1 = len /\ len - k = 1 /\ k > j
      BY <1>4, <1>6, <1>10
    <2>2. Len(t) = 1 /\ t[1].kind = "tail" /\ Len(t[1].text) > 2
      BY <1>3, <1>9, <2>1 DEF PostShape
    <2>3. ~Short(t)
      <3>1. PICK u : u = t
        OBVIOUS
      <3>2. Len(u) = 1 /\ u[1].kind = "tail" /\ Len(u[1].text) > 2
        BY <2>2, <3>1
      <3>3. ~Short(u)
        BY <3>2, LongIs
      <3> QED
        BY <3>1, <3>3
    <2>4. p[k].kind = "blank"
      BY <1>3, <1>10 DEF PostShape
    <2>5. Rest(t, p, len)
      BY <1>7, <2>1
    <2> QED
      BY <1>1, <1>4, <1>5, <1>7, <1>8, <2>1, <2>3, <2>4, <2>5
  <1>11. CASE k # len - 1
    <2>1. len - k \in Nat /\ len - k >= 2 /\ k \in 2..(len - 2) /\ k + 1 \in 2..(len - 1)
      BY <1>4, <1>6, <1>11
    <2>2. ~Short(t)
      <3>1. Len(t) \in Nat /\ Len(t) >= 2
        BY <1>9, <2>1
      <3> QED
        BY <3>1, LongIs
    <2>3. p[k].kind = "header"
      BY <1>3, <2>1 DEF PostShape
    <2>4. PICK c : c = ReadHeaderLine(Head(buff)).ctype
      OBVIOUS
    <2>5. c = IF p[k].ctype = None THEN request.ctype ELSE p[k].ctype
      BY <1>7, <2>3, <2>4 DEF ReadHeaderLine, ConnInv, Fields
    <2>6. k + 1 > j => c = "form"
      <3>1. CASE k = j
        <4>1. "form" \in STRING
          BY StringAssumption, Zenon
        <4>2. None # "form"
          BY <4>1, NoneAssumption, Zenon
        <4> QED
          BY <1>5, <2>5, <3>1, <4>2
      <3>2. CASE k > j
        <4>1. k \in (j + 1)..(len - 2)
          BY <1>6, <2>1, <3>2
        <4> QED
          BY <1>5, <2>5, <3>2, <4>1
      <3>3. CASE k < j
        BY <1>6, <3>3
      <3> QED
        BY <1>6, <3>1, <3>2, <3>3
    <2>7. HeadersAt(t, p, c)
      <3>1. /\ Rest(t, p, k + 1) /\ p[j].ctype = "form"
            /\ \A i \in (j + 1)..(Len(p) - 2) : p[i].ctype = None
            /\ k + 1 > j => c = "form"
        BY <1>4, <1>5, <1>7, <2>6
      <3>2. k + 1 \in 2..(Len(p) - 1) /\ j \in 2..(Len(p) - 2)
        BY <1>4, <1>5, <2>1
      <3> QED
        BY <3>1, <3>2 DEF HeadersAt
    <2> QED
      BY <1>1, <1>7, <1>8, <2>2, <2>3, <2>4, <2>7
  <1> QED
    BY <1>10, <1>11

\* A connector that has not seen a request.
LEMMA PostInit == Init => PostInv
  BY DEF Init, PostInv, Posted, Posting, PostHeaders, PostBody, PostRead, FormDecoded

\* A request arrives.
LEMMA ReceivePost ==
  ASSUME ConnInv, NEW r \in Requests, NEW junk \in Junks \cup {<<>>}, Receive(r, junk)
  PROVE  PostInv'
  <1>1. /\ pc = "wait" /\ pc' = "parse" /\ asked' = asked
        /\ request' = [request EXCEPT !.status = "REQUEST_LINE", !.tasks = FALSE,
                                      !.cgi = FALSE, !.code = "FILE_REQUEST"]
        /\ input' = [parts |-> Received(r.parts, junk), junk |-> junk, sent |-> r.sent,
                     known |-> DOMAIN request.form]
    BY DEF Receive, InitRequest
  <1>2. request'.status = "REQUEST_LINE" /\ request'.form = request.form
    BY <1>1 DEF ConnInv, Fields
  <1>3. /\ input'.parts = Received(r.parts, junk) /\ input'.sent = r.sent
        /\ input'.junk = junk /\ input'.known = DOMAIN request.form
    BY <1>1
  <1>4. Posted'
    <2>1. ASSUME PlainlySent' PROVE Posts(input'.parts, input'.sent)
      <3>1. /\ junk = <<>> /\ r.sent # None /\ Plain(r.sent[1]) /\ Plain(r.sent[2])
        BY <1>3, <2>1 DEF PlainlySent
      <3>2. input'.parts = r.parts
        BY <1>3, <3>1 DEF Received
      <3> QED
        BY <1>3, <3>1, <3>2, SentAssumption
    <2> QED
      BY <1>2, <1>3, <2>1 DEF Posted, Posting
  <1>5. PostHeaders' /\ PostBody' /\ PostRead'
    BY <1>1, <1>2 DEF PostHeaders, PostBody, PostRead
  <1>6. FormDecoded'
    BY <1>1 DEF ConnInv, Login, FormDecoded
  <1> QED
    BY <1>4, <1>5, <1>6 DEF PostInv

\* Another part is read.
LEMMA ParserPost ==
  ASSUME ConnInv, PostInv, pc = "parse", pc' = "parse", UNCHANGED history,
         \/ request'.status = "FINISHED"
         \/ request.status # "FINISHED" /\ request'.form = request.form,
         PostHeaders', PostBody', PostRead'
  PROVE  PostInv'
  <1>1. input' = input /\ asked' = asked
    BY DEF history
  <1>2. Posted'
    BY <1>1 DEF PostInv, Posted, Posting, PlainlySent
  <1>3. FormDecoded'
    BY <1>1 DEF PostInv, FormDecoded, PlainlySent
  <1> QED
    BY <1>2, <1>3 DEF PostInv

\* The request line: headers follow.
LEMMA RequestLinePost ==
  ASSUME ConnInv, PostInv, RequestLine
  PROVE  PostInv'
  <1>1. /\ pc = "parse" /\ pc' = "parse" /\ request.status = "REQUEST_LINE"
        /\ buff' = Tail(buff) /\ UNCHANGED history /\ input' = input
        /\ request' = [request EXCEPT !.method = Head(buff).method, !.status = "HEADERS",
                                      !.path = Head(buff).target]
    BY DEF RequestLine, Reading, history
  <1>2. /\ request'.status = "HEADERS" /\ request'.method = Head(buff).method
        /\ request'.form = request.form /\ request'.ctype = request.ctype
    BY <1>1 DEF ConnInv, Fields
  <1>3. PostHeaders'
    <2>1. SUFFICES ASSUME Posting
                   PROVE  /\ Head(buff).method = "POST"
                          /\ HeadersAt(Tail(buff), input.parts, request.ctype)
      BY <1>1, <1>2 DEF PostHeaders, Posting, PlainlySent
    <2>2. PICK p : p = input.parts
      OBVIOUS
    <2>3. buff = p /\ p \in Seq(ToSet(p)) /\ Posts(p, input.sent)
      BY <1>1, <2>1, <2>2, PartsAre DEF ConnInv, Parsing, PostInv, Posted
    <2>4. PICK len : PostShape(p, len)
      BY <2>3, PostIs
    <2>5. len \in Nat /\ len = Len(p) /\ len >= 4
      BY <2>4 DEF PostShape
    <2>6. PICK one \in Nat : one = 1
      OBVIOUS
    <2>7. Head(p) = p[one] /\ Rest(Tail(p), p, one + 1)
      <3>1. Rest(p, p, one)
        <4>1. Len(p) = len + 1 - 1 /\ \A i \in 1..len : 1 - 1 + i = i
          BY <2>5
        <4> QED
          BY <2>3, <2>5, <2>6, <4>1 DEF Rest
      <3>2. one \in Nat /\ 1 <= one /\ one <= Len(p)
        BY <2>5, <2>6
      <3>3. PICK t : t = Tail(p)
        OBVIOUS
      <3>4. Head(p) = p[one] /\ Rest(t, p, one + 1)
        BY <2>3, <3>1, <3>2, <3>3, RestIs
      <3> QED
        BY <3>3, <3>4
    <2>8. PICK j \in 2..(len - 2) : /\ p[j].ctype = "form"
                                    /\ \A i \in (j + 1)..(len - 2) : p[i].ctype = None
      BY <2>4 DEF PostShape
    <2>9. 2 \in 2..(len - 1) /\ ~(2 > j)
      BY <2>5, <2>8
    <2>10. PICK two \in 2..(len - 1) : two = one + 1 /\ ~(two > j)
      BY <2>6, <2>9
    <2>11. HeadersAt(Tail(p), p, request.ctype)
      BY <2>5, <2>7, <2>8, <2>10 DEF HeadersAt
    <2>12. Head(p).method = "POST"
      BY <2>4, <2>6, <2>7 DEF PostShape
    <2> QED
      BY <2>2, <2>3, <2>11, <2>12
  <1>4. PostBody' /\ PostRead'
    BY <1>1, <1>2 DEF PostBody, PostRead
  <1> QED
    BY <1>1, <1>2, <1>3, <1>4, ParserPost

\* A header line, or the blank line: the form follows.
LEMMA HeaderLinePost ==
  ASSUME ConnInv, TypeInv, PostInv, HeaderLine
  PROVE  PostInv'
  <1>1. /\ pc = "parse" /\ pc' = "parse" /\ request.status = "HEADERS"
        /\ buff' = Tail(buff) /\ UNCHANGED history /\ input' = input
        /\ request' = ReadHeaderLine(Head(buff))
    BY DEF HeaderLine, Reading, history
  <1>2. PICK h : h = ReadHeaderLine(Head(buff))
    OBVIOUS
  <1>3. h.form = request.form /\ h.method = request.method
    BY <1>2, ReadHeaderTyped
  <1>4. /\ h.status = IF Head(buff).kind = "header" THEN "HEADERS" ELSE "BODY"
        /\ Head(buff).kind = "blank" => h.ctype = request.ctype
    BY <1>1, <1>2 DEF ReadHeaderLine, ConnInv, Fields
  <1>5. PICK t : t = Tail(buff)
    OBVIOUS
  <1>6. Posting =>
          /\ request.method = "POST"
          /\ \/ Head(buff).kind = "header" /\ HeadersAt(t, input.parts, h.ctype)
             \/ /\ Head(buff).kind = "blank" /\ request.ctype = "form"
                /\ Rest(t, input.parts, Len(input.parts))
    BY <1>1, <1>2, <1>5, PostHeadersAre DEF PostInv, PostHeaders
  <1>7. request' = h /\ buff' = t /\ (Posting' => Posting)
    BY <1>1, <1>2, <1>5 DEF Posting, PlainlySent
  <1>8. PostHeaders' /\ PostBody' /\ PostRead'
    BY <1>1, <1>3, <1>4, <1>6, <1>7 DEF PostHeaders, PostBody, PostRead
  <1> QED
    BY <1>1, <1>3, <1>7, <1>8, ParserPost

\* The request ends with its headers: it posts nothing.
LEMMA LastHeaderLinePost ==
  ASSUME ConnInv, TypeInv, PostInv, LastHeaderLine
  PROVE  PostInv'
  <1>1. /\ pc = "parse" /\ pc' = "parse" /\ request.status = "HEADERS"
        /\ Short(Tail(buff)) /\ UNCHANGED history /\ input' = input
        /\ request' = [ReadHeaderLine(Head(buff)) EXCEPT !.status = "FINISHED"]
    BY DEF LastHeaderLine, Reading, history
  <1>2. request'.status = "FINISHED"
    <2>1. PICK h : h = ReadHeaderLine(Head(buff))
      OBVIOUS
    <2>2. DOMAIN h = DOMAIN request
      BY <2>1, ReadHeaderTyped
    <2> QED
      BY <1>1, <2>1, <2>2 DEF ConnInv, Fields
  <1>3. ~Posting /\ ~Posting'
    <2>1. ~Posting
      BY <1>1, PostHeadersAre
    <2> QED
      BY <1>1, <2>1 DEF Posting, PlainlySent
  <1>4. PostHeaders' /\ PostBody' /\ PostRead'
    BY <1>3 DEF PostHeaders, PostBody, PostRead
  <1> QED
    BY <1>1, <1>2, <1>4, ParserPost

\* The form is read.
LEMMA BodyLinePost ==
  ASSUME ConnInv, TypeInv, PostInv, BodyLine
  PROVE  PostInv'
  <1>1. /\ pc = "parse" /\ pc' = "parse" /\ request.status = "BODY"
        /\ UNCHANGED history /\ input' = input
    BY DEF BodyLine, Reading, history
  <1>2. PICK f : /\ f = IF IsPost
                        THEN HandleForm(request.form, BodyText(buff))
                        ELSE request.form
                 /\ request' = [request EXCEPT !.status = "FINISHED", !.form = f]
    BY DEF BodyLine
  <1>3. request'.status = "FINISHED" /\ request'.form = f
    BY <1>2 DEF ConnInv, Fields
  <1>4. ASSUME Posting PROVE Decoded(f, input.sent)
    <2>1. PICK p : p = input.parts
      OBVIOUS
    <2>2. PICK login : login = input.sent
      OBVIOUS
    <2>3. Message(p)
      BY <1>1, <2>1 DEF ConnInv, Parsing
    <2>4. p \in Seq(ToSet(p)) /\ Posts(p, login)
      BY <1>1, <1>4, <2>1, <2>2, PartsAre DEF ConnInv, PostInv, Posted
    <2>5. PICK len : PostShape(p, len)
      BY <2>4, PostIs
    <2>6. len \in Nat /\ len = Len(p) /\ len >= 4 /\ p[len].kind = "tail"
      BY <2>5 DEF PostShape
    <2>7. PICK text : text = p[len].text
      OBVIOUS
    <2>8. text \in Seq(STRING)
      <3>1. len \in DOMAIN p
        BY <2>4, <2>6, LenProperties
      <3> QED
        BY <2>3, <2>6, <2>7, <3>1 DEF Message
    <2>9. /\ request.method = "POST" /\ request.ctype = "form" /\ Rest(buff, p, len)
      BY <1>1, <1>4, <2>1, <2>6 DEF PostInv, PostBody
    <2>10. BodyText(buff) = text
      BY <2>6, <2>7, <2>8, <2>9, WholeBody
    <2>11. PICK k \in 0..Len(text) : /\ OtherFields(SubSeq(text, 1, k))
                                     /\ text = FormText(SubSeq(text, 1, k), login)
                                     /\ Plain(login[1]) /\ Plain(login[2])
      <3>1. (Len(p) - 1) + 1 = len
        BY <2>6
      <3> QED
        BY <2>4, <2>7, <3>1, Zenon DEF Posts
    <2>12. PICK front : front = SubSeq(text, 1, k)
      OBVIOUS
    <2>13. front \in Seq(STRING)
      <3>1. k \in Nat /\ k <= Len(text)
        BY <2>8, <2>11, LenProperties
      <3> QED
        BY <2>8, <2>12, <3>1, PrefixIs
    <2>14. PICK form : form = request.form
      OBVIOUS
    <2>15. IsForm(form) /\ input.known = DOMAIN form
      BY <1>1, <2>14 DEF TypeInv, RequestOK, PostInv, Posted
    <2>16. f = HandleForm(form, text)
      BY <1>2, <2>9, <2>10, <2>14 DEF IsPost
    <2>17. OtherFields(front) /\ text = FormText(front, login) /\ Plain(login[1]) /\ Plain(login[2])
      BY <2>11, <2>12
    <2>18. /\ User \in DOMAIN f /\ f[User] = login[1]
           /\ Pwd \notin DOMAIN form =>
                IF Pwd \in DOMAIN f THEN f[Pwd] = login[2] ELSE login[2] = <<>>
      BY <2>13, <2>15, <2>16, <2>17, FormRead
    <2> QED
      BY <2>2, <2>15, <2>18 DEF Decoded
  <1>5. PostRead'
    <2>1. Posting' => Posting
      BY <1>1 DEF Posting, PlainlySent
    <2> QED
      BY <1>1, <1>3, <1>4, <2>1 DEF PostRead, Decoded
  <1>6. PostHeaders' /\ PostBody'
    BY <1>3 DEF PostHeaders, PostBody
  <1> QED
    BY <1>1, <1>3, <1>5, <1>6, ParserPost

\* The parser is done.
LEMMA ParsedPost ==
  ASSUME ConnInv, PostInv, pc = "parse", pc' = "respond", UNCHANGED history,
         Posting => request.status = "FINISHED" /\ request'.form = request.form
  PROVE  PostInv'
  <1>1. input' = input /\ asked' = asked /\ (Posting' => Posting)
    BY DEF history, Posting, PlainlySent
  <1>2. Posted' /\ FormDecoded'
    BY <1>1 DEF PostInv, Posted, FormDecoded, PlainlySent
  <1>3. PostRead'
    BY <1>1 DEF PostInv, PostRead, Decoded
  <1>4. PostHeaders' /\ PostBody'
    BY DEF PostHeaders, PostBody
  <1> QED
    BY <1>2, <1>3, <1>4 DEF PostInv

\* A request line that is not understood posts nothing.
LEMMA BadRequestLinePost ==
  ASSUME ConnInv, PostInv, BadRequestLine
  PROVE  PostInv'
  <1>1. /\ pc = "parse" /\ request.status = "REQUEST_LINE" /\ pc' = "respond"
        /\ Head(buff).kind # "request" /\ UNCHANGED history
    BY DEF BadRequestLine, Reading
  <1>2. ~Posting
    <2>1. SUFFICES ASSUME Posting PROVE FALSE
      OBVIOUS
    <2>2. PICK p : p = input.parts
      OBVIOUS
    <2>3. buff = p /\ p \in Seq(ToSet(p)) /\ p # <<>> /\ Posts(p, input.sent)
      BY <1>1, <2>1, <2>2, PartsAre DEF ConnInv, Parsing, PostInv, Posted
    <2>4. PICK len : PostShape(p, len)
      BY <2>3, PostIs
    <2>5. p[1].kind = "request"
      BY <2>4 DEF PostShape
    <2> QED
      BY <1>1, <2>3, <2>5
  <1> QED
    BY <1>1, <1>2, ParsedPost

\* _Handle_Path: all of the request has been read.
LEMMA HandlePathPost ==
  ASSUME ConnInv, TypeInv, PostInv, HandlePath
  PROVE  PostInv'
  <1>1. /\ pc = "parse" /\ pc' = "respond" /\ UNCHANGED history
        /\ (buff = <<>> \/ request.status = "FINISHED")
    BY DEF HandlePath
  <1>2. request'.form = request.form
    BY HandlePathTyped
  <1>3. ASSUME Posting PROVE request.status = "FINISHED"
    <2>1. request.status # "REQUEST_LINE"
      BY <1>1, PartsAre DEF ConnInv, Parsing
    <2>2. request.status = "HEADERS" => buff # <<>>
      BY <1>1, <1>3, PostHeadersAre
    <2>3. request.status = "BODY" => buff # <<>>
      <3>1. SUFFICES ASSUME request.status = "BODY", buff = <<>> PROVE FALSE
        OBVIOUS
      <3>2. Rest(buff, input.parts, Len(input.parts))
        BY <1>1, <1>3, <3>1 DEF PostInv, PostBody
      <3>3. PICK len \in Nat : len = Len(input.parts)
        BY <1>1, PartsAre, LenProperties DEF ConnInv
      <3>4. Len(buff) = len + 1 - len
        BY <3>2, <3>3 DEF Rest
      <3>5. Len(buff) = 1
        BY <3>3, <3>4
      <3> QED
        BY <3>1, <3>5
    <2>4. request.status \in {"REQUEST_LINE", "HEADERS", "BODY", "FINISHED"}
      BY DEF TypeInv, RequestOK
    <2> QED
      BY <1>1, <2>1, <2>2, <2>3, <2>4
  <1> QED
    BY <1>1, <1>2, <1>3, ParsedPost

\* Behind the parser the request and its form no longer change.
LEMMA LaterPost ==
  ASSUME PostInv, pc # "wait", pc' \notin {"parse", "respond"}, input' = input, FormDecoded'
  PROVE  PostInv'
  <1>1. Posting' => Posting
    BY DEF Posting, PlainlySent
  <1>2. Posted'
    BY <1>1 DEF PostInv, Posted
  <1>3. PostHeaders' /\ PostBody' /\ PostRead'
    BY DEF PostHeaders, PostBody, PostRead
  <1> QED
    BY <1>2, <1>3 DEF PostInv

\* What _Login looks up is what the form has.
LEMMA RespondLoginPost ==
  ASSUME ConnInv, PostInv, NEW ok \in BOOLEAN, RespondLogin(ok)
  PROVE  PostInv'
  <1>1. pc = "respond" /\ pc' = "length" /\ input' = input
    BY DEF RespondLogin, Respond
  <1>2. PICK form : form = SelectForm(SelectForm(request.form, User), Pwd)
    OBVIOUS
  <1>3. asked' = <<form[User], form[Pwd]>>
    BY <1>2 DEF RespondLogin
  <1>4. FormDecoded'
    <2>1. SUFFICES ASSUME PlainlySent
                   PROVE  /\ form[User] = input.sent[1]
                          /\ Pwd \notin input.known => form[Pwd] = input.sent[2]
      BY <1>1, <1>3 DEF FormDecoded, PlainlySent
    <2>2. PICK g : g = request.form
      OBVIOUS
    <2>3. /\ User \in DOMAIN g /\ g[User] = input.sent[1]
          /\ Pwd \notin input.known =>
               IF Pwd \in DOMAIN g THEN g[Pwd] = input.sent[2] ELSE input.sent[2] = <<>>
      BY <1>1, <2>1, <2>2 DEF PostInv, PostRead, Posting, Decoded
    <2>4. form = SelectForm(g, Pwd)
      BY <1>2, <2>2, <2>3 DEF SelectForm
    <2>5. User # Pwd
      BY DEF User, Pwd
    <2>6. CASE Pwd \in DOMAIN g
      BY <2>3, <2>4, <2>6 DEF SelectForm
    <2>7. CASE Pwd \notin DOMAIN g
      <3>1. form = Put(g, Pwd, <<>>)
        BY <2>4, <2>7 DEF SelectForm
      <3>2. form[User] = g[User] /\ form[Pwd] = <<>>
        BY <2>3, <2>5, <3>1 DEF Put
      <3> QED
        BY <2>3, <2>7, <3>2
    <2> QED
      BY <2>6, <2>7
  <1> QED
    BY <1>1, <1>4, LaterPost

\* The other steps behind the parser do not look at it.
LEMMA OtherPost ==
  ASSUME PostInv,
         \/ LineCut \/ HeaderLineOverrun \/ BodyOverrun \/ RespondFile
         \/ SetContentLength \/ OpenFails \/ FileThrows \/ ReadFileToSharedCharArray
  PROVE  PostInv'
  <1>1. /\ pc # "wait" /\ pc' \notin {"parse", "respond"} /\ UNCHANGED history
    BY DEF LineCut, HeaderLineOverrun, BodyOverrun, RespondFile, Respond, SetContentLength,
           OpenFails, FileThrows, ReadFileToSharedCharArray, Die, Reading
  <1>2. input' = input /\ asked' = asked
    BY <1>1 DEF history
  <1>3. FormDecoded'
    BY <1>2 DEF PostInv, FormDecoded, PlainlySent
  <1> QED
    BY <1>1, <1>2, <1>3, LaterPost

\* The reply is sent.
LEMMA WrittenPost ==
  ASSUME Written
  PROVE  PostInv'
  BY DEF Written, PostInv, Posted, Posting, PostHeaders, PostBody, PostRead, FormDecoded

\* Nothing but the files changes.
LEMMA StillPost ==
  ASSUME PostInv, pc' = pc, buff' = buff, request' = request, input' = input, asked' = asked
  PROVE  PostInv'
  BY DEF PostInv, Posted, Posting, PostHeaders, PostBody, PostRead, Decoded, FormDecoded,
         HeadersAt, PlainlySent

\* Every step keeps what is known of forms.
LEMMA PostNext == ConnInv /\ TypeInv /\ PostInv /\ [Next]_vars => PostInv'
  <1> SUFFICES ASSUME ConnInv, TypeInv, PostInv, [Next]_vars PROVE PostInv'
    OBVIOUS
  <1>1. CASE ProcessStep
    <2>1. CASE \E ok \in BOOLEAN : RespondLogin(ok)
      BY <2>1, RespondLoginPost
    <2> QED
      BY <1>1, <2>1, OtherPost, RequestLinePost, BadRequestLinePost, HeaderLinePost,
         LastHeaderLinePost, BodyLinePost, HandlePathPost
         DEF ProcessStep
  <1>2. CASE \E r \in Requests, junk \in Junks \cup {<<>>} : Receive(r, junk)
    BY <1>2, ReceivePost
  <1>5. CASE Written
    BY <1>5, WrittenPost
  <1>3. CASE pc \notin Ended /\ \E files \in FileSystems : Deploy(files)
    BY <1>3, StillPost DEF Deploy
  <1>4. CASE UNCHANGED vars
    BY <1>4, StillPost DEF vars
  <1> QED
    BY <1>1, <1>2, <1>3, <1>4, <1>5 DEF Next

-----------------------------------------------------------------------------
(* The theorems.                                                           *)

\* The invariant holds in every state of a connector.
THEOREM ConnInvariant == SafeSpec => []ConnInv
  BY InvInit, InvNext, PTL DEF SafeSpec

\* HttpRequest::Init clears what an earlier request could show in the answer to one
\* whose request line is understood; the page of a login is left to the database.
THEOREM AnswerTheorem == SafeSpec => []AnswerOfRequest
  <1>1. ConnInv => AnswerOfRequest
    BY DEF ConnInv, Responded, AnswerOfRequest
  <1> QED
    BY <1>1, ConnInvariant, PTL

\* Set_ContentLength_From_File throws over a page that the site should have and over
\* nothing that a client names.
THEOREM PagesTheorem == SafeSpec => []OnlyMissingPages
  <1>1. ConnInv => OnlyMissingPages
    <2>1. SUFFICES ASSUME ConnInv, pc = "threw", ~touched, input.parts[1].kind = "request"
                   PROVE  IF input.parts[1].target \in tasks
                          THEN \E page \in Pages : ~Regular(page)
                          ELSE ~Regular(Answer(input.parts[1].target)[2])
      BY DEF OnlyMissingPages
    <2>2. ~Regular(response.path)
      BY <2>1 DEF ConnInv, Missing
    <2>3. IF input.parts[1].target \in tasks
          THEN response.path \in Pages
          ELSE <<response.code, response.path>> = Answer(input.parts[1].target)
      BY <2>1 DEF ConnInv, Responded
    <2>4. <<response.code, response.path>>[2] = response.path
      OBVIOUS
    <2> QED
      BY <2>2, <2>3, <2>4
  <1> QED
    BY <1>1, ConnInvariant, PTL

\* _Login is reached by a request for /login only, and not by one whose request line
\* Read_Buff rejects.
THEOREM LoginTheorem == SafeSpec => []LoginOnlyWhenAsked
  <1>1. ConnInv => LoginOnlyWhenAsked
    BY DEF ConnInv, Login
  <1> QED
    BY <1>1, ConnInvariant, PTL

\* The types hold in every state of a connector, and so does what is known of forms.
THEOREM FormInvariant == SafeSpec => []TypeInv /\ []PostInv
  BY TypeInit, PostInit, TypeNext, PostNext, ConnInvariant, PTL DEF SafeSpec

\* Read_Buff and _Handle_Form survive a well-formed request, however many requests the
\* connector has seen and whatever Read_FD adds to it, unless one byte follows its
\* blank line or it ends inside an escape.
THEOREM SurvivesTheorem == SafeSpec => []Survives
  <1>1. Init => SurvInv
    BY DEF Init, SurvInv, BodyLeft, Survives
  <1>2. SurvInv => Survives
    BY DEF SurvInv
  <1> QED
    BY <1>1, <1>2, SurvNext, ConnInvariant, FormInvariant, PTL DEF SafeSpec

\* Every variable has its type; in particular every value that a form or a path takes
\* from what a client sent, in any encoding, is a string.
THEOREM TypeTheorem == SafeSpec => []TypeOK
  <1>1. TypeInv => TypeOK
    BY DEF TypeInv, RequestOK, ResponseOK, IsForm, TypeOK
  <1> QED
    BY <1>1, FormInvariant, PTL

\* _Handle_Form returns to _Login the user name that was sent, if it needs no escape and
\* Read_FD added nothing, of any length and behind any other fields, and the password
\* unless an earlier request has left one.
THEOREM FormTheorem == SafeSpec => []FormDecoded
  <1>1. PostInv => FormDecoded
    BY DEF PostInv
  <1> QED
    BY <1>1, FormInvariant, PTL

\* A step of Process uses up a part of the request or a stage: Read_Buff ends on every
\* input after as many turns as it has parts.
THEOREM AdvancesTheorem == SafeSpec => Advances
  <1>1. ConnInv /\ TypeInv /\ [Next]_vars => [ProcessStep => Left' < Left]_vars
    BY StepAdvances
  <1> QED
    BY <1>1, ConnInvariant, FormInvariant, PTL DEF SafeSpec, Advances

=============================================================================
