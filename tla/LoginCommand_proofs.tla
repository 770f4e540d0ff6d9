------------------------- MODULE LoginCommand_proofs -------------------------
(***************************************************************************)
(* The dialogue of a command that logs in (LoginCommand): what the far end   *)
(* reads is what it asked for, and the outcome is what happened; for every    *)
(* host, every list of passwords and settings, and every cut of the text.     *)
(*                                                                           *)
(* The argument: the text that the command has not got past is a chain of     *)
(* lines (TextInv), so each line that ends, or is looked at before it ends,   *)
(* is one of few (LineTexts) and is answered in one of few ways (Answers).    *)
(* Each token that asks for an answer is either marked as answered or is the  *)
(* last that was printed, where the far end waits for just that answer        *)
(* (TokensFit); therefore at most one answer is unread when the far end asks  *)
(* for a password or a confirmation (TypedFits).                              *)
(*                                                                           *)
(* At the end: neither end waits for the other (NeitherWaits), for whatever    *)
(* forbids the command an answer comes from one that is still on its way, or  *)
(* that the far end has gone on from (ProgressInv).                           *)
(***************************************************************************)
EXTENDS LoginCommand, SequenceTheorems, TLAPS

Text == line \o wire

-----------------------------------------------------------------------------
(* What the far end prints, token by token.                                *)

Prompts == {"yes/no", "login:", "password:", "resize", "local", "remote", "first"}
Firsts ==
    Prompts \cup {"connected", "id_dsa", "bad_key", "denied", "disconnected", "Last", Newline}
Tokens == Firsts \cup {"echo", "date", "again", "methods"}
PromptsAt(at) ==
    CASE at = "confirm" -> {"yes/no"}
      [] at = "login" -> {"login:"}
      [] at = "password" -> {"password:"}
      [] at = "resize" -> {"resize"}
      [] at = "local" -> {"local"}
      [] OTHER -> {"remote", "first"}

\* Token b may come after token a.
Follows(a, b) ==
    /\ a = Newline => b \in Firsts
    /\ a \in Prompts => b \in {"echo", Newline} \/ (a = "login:" /\ b = "date")
    /\ a = "denied" => b \in {"again", "methods"}
    /\ a = "Last" => b = "login:"
    /\ a \notin Prompts \cup {Newline, "denied", "Last"} => b = Newline
Chained(text) ==
    /\ text # <<>> => text[1] \in Firsts
    /\ \A i \in 1..(Len(text) - 1) : Follows(text[i], text[i + 1])
    /\ \A i \in 1..(Len(text) - 2) : text[i] = "Last" => text[i + 2] = "date"
\* It ends where the far end waits for an answer.
Waits(text, prompts) ==
    /\ text # <<>> /\ text[Len(text)] \in prompts
    /\ Len(text) > 1 => text[Len(text) - 1] # "Last"

TextInv ==
    /\ Chained(Text)
    /\ \A i \in DOMAIN line : line[i] # Newline
    /\ far.at # "stopped" => Waits(Text, PromptsAt(far.at))

-----------------------------------------------------------------------------
(* Types.                                                                  *)

Phases == {"confirm", "login", "password", "resize", "shell", "local", "stopped"}
Keys == {"unknown", "known", "changed"}
FarEnds == [at : Phases, key : Keys, user : BOOLEAN, accepted : Nat, wrong : Nat, session : Nat,
            ready : BOOLEAN, refused : BOOLEAN]
\* All that may be typed.
Words ==
    {"", "user", "yes", "ctrl+c", "keygen", "ssh"}
    \cup UNION {ToSet(s.passwords) \cup ToSet(s.settings) : s \in Setups}
Inputs == [for : Phases \cup {"any"}, text : Words]
Commands == [sent : BOOLEAN, resizeSent : BOOLEAN, sentLogin : BOOLEAN, sentContinue : BOOLEAN,
             passwords : Seq(Words), lastPassword : Words, whenPrompt : Seq(Words),
             afterLogin : Seq(Words), stored : BOOLEAN,
             outcome : {"running", "result", "exception"}, out : Seq(Inputs)]
\* No password and no setting is the text that logs in again.
Harmless(c) ==
    /\ \A i \in DOMAIN c.passwords : c.passwords[i] # "ssh"
    /\ \A i \in DOMAIN c.afterLogin : c.afterLogin[i] # "ssh"
    /\ c.lastPassword # "ssh"

TypeInv ==
    /\ setup \in Setups
    /\ far \in FarEnds /\ far.accepted < Len(setup.asks)
    /\ wire \in Seq(Tokens) /\ line \in Seq(Tokens) /\ typed \in Seq(Inputs)
    /\ cmd \in Commands /\ cmd.out = <<>> /\ Harmless(cmd)
    /\ misread \in BOOLEAN /\ excused \in BOOLEAN /\ lost \in BOOLEAN

-----------------------------------------------------------------------------
(* While the connection lasts and the command can cope.                     *)

\* What the line that the command looks at began with has been answered.
Answered(i) == i = 1 /\ line # <<>> /\ cmd.sent
Newest(i, at) == i = Len(Text) /\ far.at = at

\* Where each token may be: what the command would answer wrongly is behind it.
TokenFits(i, token) ==
    /\ token = "password:" => Answered(i) \/ Newest(i, "password")
    /\ token = "local" => Answered(i) \/ Newest(i, "local")
    /\ token = "yes/no" => cmd.sentContinue \/ Newest(i, "confirm")
    /\ token = "login:" => \/ i > 1 /\ Text[i - 1] = "Last"
                           \/ far.at = "login"
                           \/ (far.at = "password" /\ cmd.sentLogin /\ i < Len(Text))
    /\ token = "Last" => far.at \in {"shell", "resize"}
    /\ token = "connected" => \/ far.at \in {"shell", "resize"}
                              \/ (far.at = "login" /\ i = 1 /\ ~cmd.sentLogin)
    /\ token \in {"remote", "first"} => far.at = "shell"
    /\ token = "resize" => far.at \in {"shell", "resize"}
    /\ token \in {"id_dsa", "bad_key", "disconnected"} => far.at = "local"
    /\ token = "denied" => far.at = "local" \/ (far.at = "password" /\ Text[i + 1] = "again")
TokensFit == \A i \in DOMAIN Text : TokenFits(i, Text[i])

\* One answer is typed, and what asked for it is all there is.
OneAnswer(phase) ==
    /\ Len(typed) = 1 /\ typed[1].for = phase
    /\ wire = <<>> /\ cmd.outcome = "running"
ConfirmTyped == typed = <<>> \/ (OneAnswer("confirm") /\ cmd.sentContinue)
PasswordTyped ==
    \/ typed = <<>>
    \/ /\ OneAnswer("password") /\ cmd.sent /\ ~cmd.sentLogin
       /\ typed[1].text = "ctrl+c" \/ ~cmd.stored
LocalTyped ==
    \/ typed = <<>>
    \/ typed[1].for = "any"
    \/ OneAnswer("local") /\ cmd.sent /\ ~cmd.stored /\ setup.protocol = "ssh"
LoginTyped ==
    \A i \in DOMAIN typed :
        \/ typed[i].for = "any" /\ typed[i].text = ""
        \/ typed[i].for = "login" /\ typed[i].text = "user" /\ i = Len(typed) /\ cmd.sentLogin
TypedFits ==
    /\ far.at = "confirm" => ConfirmTyped
    /\ far.at = "password" => PasswordTyped
    /\ far.at = "local" => LocalTyped
    /\ far.at = "login" => LoginTyped
    /\ far.at = "resize" => \A i \in DOMAIN typed : typed[i].for = "any"
    /\ far.at = "shell" => \A i \in DOMAIN typed : typed[i].for \in {"any", "shell"}
    /\ \A i \in DOMAIN typed : typed[i].text = "ssh" => typed[i].for = "local"

CommandFits ==
    /\ cmd.stored => far.at = "local" \/ (far.at = "password" /\ wire = <<>> /\ typed # <<>>)
    /\ cmd.outcome = "exception" => far.at = "local"
    /\ cmd.outcome = "result" => far.at = "shell"
    /\ far.at = "local" => far.refused
    /\ cmd.whenPrompt # <<>> \/ far.at = "confirm" => setup.protocol = "ssh"
    /\ far.at = "login" => setup.protocol = "telnet"

ConnectedInv == ~lost /\ ~excused => ~misread /\ TokensFit /\ TypedFits /\ CommandFits

-----------------------------------------------------------------------------
(* After the connection was lost.                                          *)

LostInv ==
    lost /\ ~excused =>
        /\ far.at = "local"
        /\ \A i \in DOMAIN typed : typed[i].text # "ssh"
        /\ \/ cmd.outcome # "running" \/ cmd.stored
           \/ \E d \in DOMAIN Text :
                /\ Text[d] = "disconnected"
                /\ \A i \in 1..d : Text[i] = "local" => Answered(i)

LoginInv == TypeInv /\ TextInv /\ ConnectedInv /\ LostInv

-----------------------------------------------------------------------------
(* The operators of the command's tests.                                    *)

\* The first of four tests that holds.
LEMMA FirstOfFour ==
    ASSUME NEW tests, DOMAIN tests = {1, 2, 3, 4}
    PROVE  /\ tests[1][2] => FirstOf(tests) = tests[1][1]
           /\ ~tests[1][2] /\ tests[2][2] => FirstOf(tests) = tests[2][1]
           /\ ~tests[1][2] /\ ~tests[2][2] /\ tests[3][2] => FirstOf(tests) = tests[3][1]
           /\ ~tests[1][2] /\ ~tests[2][2] /\ ~tests[3][2] /\ tests[4][2]
                => FirstOf(tests) = tests[4][1]
           /\ ~tests[1][2] /\ ~tests[2][2] /\ ~tests[3][2] /\ ~tests[4][2]
                => FirstOf(tests) = "nothing"
<1> DEFINE Takes(i) == tests[i][2] /\ \A j \in 1..(i - 1) : ~tests[j][2]
<1>1. \A i \in DOMAIN tests, k \in DOMAIN tests : Takes(i) /\ Takes(k) => i = k
  <2>1. \A i \in {1, 2, 3, 4}, k \in {1, 2, 3, 4} : i < k => i \in 1..(k - 1)
    OBVIOUS
  <2>2. \A i \in {1, 2, 3, 4}, k \in {1, 2, 3, 4} : i < k \/ k < i \/ i = k
    OBVIOUS
  <2> QED
    BY <2>1, <2>2
<1>2. \A i \in DOMAIN tests : Takes(i) => FirstOf(tests) = tests[i][1]
  <2>1. SUFFICES ASSUME NEW i \in DOMAIN tests, Takes(i) PROVE FirstOf(tests) = tests[i][1]
    OBVIOUS
  <2>2. (CHOOSE k \in DOMAIN tests : Takes(k)) = i
    BY <1>1, <2>1
  <2> QED
    BY <2>1, <2>2 DEF FirstOf
<1>3. tests[1][2] => Takes(1)
  OBVIOUS
<1>4. tests[2][2] /\ ~tests[1][2] => Takes(2)
  <2>1. 1..(2 - 1) = {1}
    OBVIOUS
  <2> QED
    BY <2>1
<1>5. tests[3][2] /\ ~tests[1][2] /\ ~tests[2][2] => Takes(3)
  <2>1. 1..(3 - 1) = {1, 2}
    OBVIOUS
  <2> QED
    BY <2>1
<1>6. tests[4][2] /\ ~tests[1][2] /\ ~tests[2][2] /\ ~tests[3][2] => Takes(4)
  <2>1. 1..(4 - 1) = {1, 2, 3}
    OBVIOUS
  <2> QED
    BY <2>1
<1>7. ~tests[1][2] /\ ~tests[2][2] /\ ~tests[3][2] /\ ~tests[4][2]
        => FirstOf(tests) = "nothing"
  BY DEF FirstOf
<1> HIDE DEF Takes
<1> QED
  BY <1>2, <1>3, <1>4, <1>5, <1>6, <1>7

\* A line begins with one of Firsts, and two or three tokens follow at most.
LineTexts ==
    {<<>>} \cup {<<a>> : a \in Firsts \ {Newline}} \cup {<<p, "echo">> : p \in Prompts}
    \cup {<<"login:", "date">>, <<"denied", "again">>, <<"denied", "methods">>,
          <<"Last", "login:">>, <<"Last", "login:", "date">>}

\* A short sequence is the tuple of its elements.
LEMMA Tuples ==
    ASSUME NEW S, NEW s \in Seq(S)
    PROVE  /\ Len(s) = 1 => s = <<s[1]>>
           /\ Len(s) = 2 => s = <<s[1], s[2]>>
           /\ Len(s) = 3 => s = <<s[1], s[2], s[3]>>
<1>1. ASSUME Len(s) = 1 PROVE s = <<s[1]>>
  <2>1. <<s[1]>> \in Seq(S) /\ Len(<<s[1]>>) = 1
    BY <1>1, ElementOfSeq
  <2>2. \A i \in 1..1 : s[i] = <<s[1]>>[i]
    OBVIOUS
  <2> QED
    BY <1>1, <2>1, <2>2, SeqEqual
<1>2. ASSUME Len(s) = 2 PROVE s = <<s[1], s[2]>>
  <2>0. s[1] \in S /\ s[2] \in S
    BY <1>2, ElementOfSeq, Len(s) = 2, 1 \in 1..2, 2 \in 1..2
  <2>1. <<s[1], s[2]>> \in Seq(S) /\ Len(<<s[1], s[2]>>) = 2
    BY <2>0
  <2>2. \A i \in 1..2 : s[i] = <<s[1], s[2]>>[i]
    OBVIOUS
  <2> QED
    BY <1>2, <2>1, <2>2, SeqEqual
<1>3. ASSUME Len(s) = 3 PROVE s = <<s[1], s[2], s[3]>>
  <2>0. s[1] \in S /\ s[2] \in S /\ s[3] \in S
    <3>1. 1 \in 1..Len(s) /\ 2 \in 1..Len(s) /\ 3 \in 1..Len(s)
      BY <1>3
    <3> QED
      BY <3>1, ElementOfSeq
  <2>1. <<s[1], s[2], s[3]>> \in Seq(S) /\ Len(<<s[1], s[2], s[3]>>) = 3
    BY <2>0
  <2>2. \A i \in 1..3 : s[i] = <<s[1], s[2], s[3]>>[i]
    OBVIOUS
  <2> QED
    BY <1>3, <2>1, <2>2, SeqEqual
<1> QED
  BY <1>1, <1>2, <1>3

\* What can come after the first token of a line, and after the second.
LEMMA After ==
    ASSUME NEW a, NEW b, Follows(a, b), a \in Firsts, a # Newline, b # Newline
    PROVE  \/ a \in Prompts /\ b = "echo"
           \/ a = "login:" /\ b = "date"
           \/ a = "denied" /\ b \in {"again", "methods"}
           \/ a = "Last" /\ b = "login:"
BY DEF Follows

\* What lies between two ends of line is one of the lines the far end prints, or a beginning
\* of one.
LEMMA LineShape ==
    ASSUME NEW t \in Seq(Tokens), Chained(t), NEW k \in 0..Len(t),
           \A i \in 1..k : t[i] # Newline
    PROVE  SubSeq(t, 1, k) \in LineTexts
<1> DEFINE s == SubSeq(t, 1, k)
<1>1. s \in Seq(Tokens) /\ Len(s) = k /\ \A i \in 1..k : s[i] = t[i]
  BY SubSeqProperties
<1> HIDE DEF s
<1>2. k = 0 => s = <<>>
  BY <1>1
<1>3. k > 0 => t[1] \in Firsts \ {Newline}
  BY DEF Chained
<1>4. k = 1 => s = <<t[1]>>
  BY <1>1, Tuples
<1>5. k > 1 => Follows(t[1], t[2]) /\ t[2] # Newline
  BY DEF Chained
<1>6. k = 2 => s = <<t[1], t[2]>>
  BY <1>1, Tuples
<1>7. k > 2 => Follows(t[2], t[3]) /\ t[3] # Newline /\ (t[1] = "Last" => t[3] = "date")
  BY DEF Chained
<1>8. k = 3 => s = <<t[1], t[2], t[3]>>
  BY <1>1, Tuples
<1>9. k > 3 => Follows(t[3], t[4]) /\ t[4] # Newline
  BY DEF Chained
<1> HIDE DEF s
<1>10. k > 1 => \/ t[1] \in Prompts /\ t[2] = "echo"
                \/ t[1] = "login:" /\ t[2] = "date"
                \/ t[1] = "denied" /\ t[2] \in {"again", "methods"}
                \/ t[1] = "Last" /\ t[2] = "login:"
  <2>1. ASSUME k > 1
           PROVE  /\ Follows(t[1], t[2]) /\ t[1] \in Firsts
                  /\ t[1] # Newline /\ t[2] # Newline
    BY <1>3, <1>5, <2>1
  <2> QED
    BY <2>1, After
<1>11. k > 2 => t[1] = "Last" /\ t[2] = "login:" /\ t[3] = "date"
  BY <1>3, <1>7, <1>10 DEF Follows, Prompts, Newline
<1>12. k <= 3
  BY <1>11, <1>9 DEF Follows, Prompts, Newline
<1>13. k \in {0, 1, 2, 3}
  BY <1>12
<1>14. CASE k = 0
  BY <1>14, <1>2 DEF LineTexts, s
<1>15. CASE k = 1
  BY <1>15, <1>3, <1>4 DEF LineTexts, s
<1>16. CASE k = 2
  BY <1>16, <1>6, <1>10 DEF LineTexts, s
<1>17. CASE k = 3
  BY <1>17, <1>8, <1>11 DEF LineTexts, s
<1> QED
  BY <1>13, <1>14, <1>15, <1>16, <1>17

\* The tests on a line of one, two or three tokens.
LEMMA TestsOnOne ==
    ASSUME NEW a
    PROVE  /\ \A x : Has(<<a>>, x) <=> x = a
           /\ \A x, y : ~HasPair(<<a>>, x, y)
           /\ IsLoginRequested(<<a>>) <=> a = "login:"
           /\ IsFailure(<<a>>) <=> a \in {"disconnected", "denied"}
<1>1. DOMAIN <<a>> = {1} /\ <<a>>[1] = a /\ Len(<<a>>) = 1 /\ <<a>> # <<>>
  OBVIOUS
<1>2. \A x : Has(<<a>>, x) <=> x = a
  BY <1>1 DEF Has, ToSet
<1>3. \A x, y : ~HasPair(<<a>>, x, y)
  BY <1>1 DEF HasPair
<1>4. IsLoginRequested(<<a>>) <=> a = "login:"
  BY <1>1 DEF IsLoginRequested, Last
<1>5. IsFailure(<<a>>) <=> a \in {"disconnected", "denied"}
  BY <1>1, <1>2 DEF IsFailure
<1> QED
  BY <1>2, <1>3, <1>4, <1>5

\* The same for two tokens ...
LEMMA TestsOnTwo ==
    ASSUME NEW a, NEW b
    PROVE  /\ \A x : Has(<<a, b>>, x) <=> x \in {a, b}
           /\ \A x, y : HasPair(<<a, b>>, x, y) <=> x = a /\ y = b
           /\ IsLoginRequested(<<a, b>>) <=> b = "login:"
           /\ IsFailure(<<a, b>>) <=> \/ "disconnected" \in {a, b} \/ b = "denied"
                                      \/ a = "denied" /\ b \notin {"again", "methods"}
<1>1. /\ DOMAIN <<a, b>> = {1, 2} /\ <<a, b>>[1] = a /\ <<a, b>>[2] = b
      /\ Len(<<a, b>>) = 2 /\ <<a, b>> # <<>>
  OBVIOUS
<1>2. \A x : Has(<<a, b>>, x) <=> x \in {a, b}
  BY <1>1 DEF Has, ToSet
<1>3. \A x, y : HasPair(<<a, b>>, x, y) <=> x = a /\ y = b
  <2>1. 1..(2 - 1) = {1} /\ 1 + 1 = 2
    OBVIOUS
  <2> QED
    BY <1>1, <2>1 DEF HasPair
<1>4. IsLoginRequested(<<a, b>>) <=> b = "login:"
  BY <1>1 DEF IsLoginRequested, Last
<1>5. IsFailure(<<a, b>>) <=> \/ "disconnected" \in {a, b} \/ b = "denied"
                              \/ a = "denied" /\ b \notin {"again", "methods"}
  <2>1. 1 + 1 = 2 /\ 1 # 2
    OBVIOUS
  <2> QED
    BY <1>1, <1>2, <2>1 DEF IsFailure
<1> QED
  BY <1>2, <1>3, <1>4, <1>5

\* ... for the only line of three ...
LEMMA TestsOnThree ==
    /\ \A x : Has(<<"Last", "login:", "date">>, x) <=> x \in {"Last", "login:", "date"}
    /\ \A y : ~HasPair(<<"Last", "login:", "date">>, "denied", y)
    /\ ~IsLoginRequested(<<"Last", "login:", "date">>)
    /\ ~IsFailure(<<"Last", "login:", "date">>)
<1> DEFINE t == <<"Last", "login:", "date">>
<1>1. /\ DOMAIN t = {1, 2, 3} /\ t[1] = "Last" /\ t[2] = "login:" /\ t[3] = "date"
      /\ Len(t) = 3 /\ t # <<>>
  OBVIOUS
<1> HIDE DEF t
<1>2. \A x : Has(t, x) <=> x \in {"Last", "login:", "date"}
  BY <1>1 DEF Has, ToSet
<1>3. \A y : ~HasPair(t, "denied", y)
  BY <1>1 DEF HasPair
<1>4. ~IsLoginRequested(t)
  BY <1>1 DEF IsLoginRequested, Last
<1>5. ~IsFailure(t)
  BY <1>1, <1>2 DEF IsFailure
<1> QED
  BY <1>2, <1>3, <1>4, <1>5 DEF t

\* ... and for a line of which nothing has come yet.
LEMMA TestsOnNone ==
    /\ \A x : ~Has(<<>>, x)
    /\ \A x, y : ~HasPair(<<>>, x, y)
    /\ ~IsLoginRequested(<<>>) /\ ~IsFailure(<<>>)
<1>1. DOMAIN <<>> = {} /\ Len(<<>>) = 0
  OBVIOUS
<1>2. \A x : ~Has(<<>>, x)
  BY <1>1 DEF Has, ToSet
<1>3. \A x, y : ~HasPair(<<>>, x, y)
  BY <1>1 DEF HasPair
<1>4. ~IsLoginRequested(<<>>) /\ ~IsFailure(<<>>)
  BY <1>1, <1>2 DEF IsLoginRequested, IsFailure
<1> QED
  BY <1>2, <1>3, <1>4

\* What a line begins with, or nothing.
Begins(text, token) == text # <<>> /\ text[1] = token

\* What the tests find is what the line begins with.
Looked == (Prompts \ {"login:"}) \cup {"connected", "id_dsa", "bad_key", "disconnected"}

\* The searches of Ssh and of GenericTelnetSsh, on every line they may meet: at most one of them
\* finds anything, and it is what the line begins with.
LEMMA Tests ==
    ASSUME NEW text \in LineTexts
    PROVE  /\ \A x \in Looked : Has(text, x) <=> Begins(text, x)
           /\ IsLoginRequested(text) <=> text \in {<<"login:">>, <<"Last", "login:">>}
           /\ IsFailure(text) <=> text \in {<<"disconnected">>, <<"denied">>}
           /\ IsKeyDenied(text) <=> text \in {<<"bad_key">>, <<"denied", "methods">>}
<1>1. \/ text = <<>>
      \/ \E a \in Firsts : text = <<a>>
      \/ \E a \in Prompts : text = <<a, "echo">>
      \/ text \in {<<"login:", "date">>, <<"denied", "again">>, <<"denied", "methods">>,
                   <<"Last", "login:">>}
      \/ text = <<"Last", "login:", "date">>
  BY DEF LineTexts
<1>2. CASE text = <<>>
  BY <1>2, TestsOnNone DEF Begins, Looked, Prompts, IsKeyDenied
<1>3. CASE \E a \in Firsts : text = <<a>>
  <2>1. PICK a \in Firsts : text = <<a>>
    BY <1>3
  <2>2. \A b, c : <<a>> # <<b, c>>
    OBVIOUS
  <2>3. \A b : <<a>> = <<b>> <=> a = b
    OBVIOUS
  <2>4. text # <<>> /\ text[1] = a
    BY <2>1
  <2>5. IsKeyDenied(text) <=> a = "bad_key"
    BY <2>1, TestsOnOne DEF IsKeyDenied
  <2> QED
    BY <2>1, <2>2, <2>3, <2>4, <2>5, TestsOnOne DEF Begins
<1>4. CASE \E a \in Prompts : text = <<a, "echo">>
  <2>1. PICK a \in Prompts : text = <<a, "echo">>
    BY <1>4
  <2>2. \A b : <<a, "echo">> # <<b>>
    OBVIOUS
  <2>3. <<a, "echo">> # <<"denied", "methods">> /\ <<a, "echo">> # <<"Last", "login:">>
    OBVIOUS
  <2>4. text # <<>> /\ text[1] = a
    BY <2>1
  <2>5. "echo" \notin Looked /\ a # "denied" /\ a # "bad_key" /\ a # "disconnected"
    BY <2>1 DEF Looked, Prompts
  <2>10. /\ \A x : Has(text, x) <=> x \in {a, "echo"}
        /\ \A x, y : HasPair(text, x, y) <=> x = a /\ y = "echo"
    BY <2>1, TestsOnTwo
  <2>6. ~IsKeyDenied(text)
    BY <2>10, <2>5 DEF IsKeyDenied
  <2>7. ~IsFailure(text) /\ ~IsLoginRequested(text)
    BY <2>1, <2>5, TestsOnTwo
  <2>8. \A x \in Looked : Has(text, x) <=> Begins(text, x)
    BY <2>10, <2>4, <2>5 DEF Begins
  <2> QED
    BY <2>1, <2>2, <2>3, <2>6, <2>7, <2>8
<1>5. CASE text \in {<<"login:", "date">>, <<"denied", "again">>, <<"denied", "methods">>,
                     <<"Last", "login:">>}
  <2>1. PICK a \in {"login:", "denied", "Last"}, b \in {"date", "again", "methods", "login:"} :
            text = <<a, b>>
    BY <1>5
  <2>2. \A c, d : <<a, b>> = <<c, d>> => a = c /\ b = d
    OBVIOUS
  <2>3. \A c : <<a, b>> # <<c>>
    OBVIOUS
  <2>4. text # <<>> /\ text[1] = a
    BY <2>1
  <2>5. a \notin Looked /\ b \notin Looked
    BY <2>1 DEF Looked, Prompts
  <2>6. \/ a = "login:" /\ b = "date"
        \/ a = "denied" /\ b = "again"
        \/ a = "denied" /\ b = "methods"
        \/ a = "Last" /\ b = "login:"
    <3>1. \/ <<a, b>> = <<"login:", "date">> \/ <<a, b>> = <<"denied", "again">>
          \/ <<a, b>> = <<"denied", "methods">> \/ <<a, b>> = <<"Last", "login:">>
      BY <1>5, <2>1
    <3> QED
      BY <3>1, <2>2, Zenon
  <2>10. /\ \A x : Has(text, x) <=> x \in {a, b}
        /\ \A x, y : HasPair(text, x, y) <=> x = a /\ y = b
    BY <2>1, TestsOnTwo
  <2>7. IsKeyDenied(text) <=> a = "denied" /\ b = "methods"
    <3>1. "bad_key" \notin {a, b}
      BY <2>1
    <3> QED
      BY <2>10, <2>6, <3>1 DEF IsKeyDenied
  <2>8. ~IsFailure(text) /\ (IsLoginRequested(text) <=> b = "login:")
    BY <2>1, <2>6, TestsOnTwo
  <2>9. \A x \in Looked : Has(text, x) <=> Begins(text, x)
    BY <2>1, <2>4, <2>5, TestsOnTwo DEF Begins
  <2> QED
    BY <2>1, <2>2, <2>3, <2>6, <2>7, <2>8, <2>9
<1>6. CASE text = <<"Last", "login:", "date">>
  <2>1. \A a, b : text # <<a>> /\ text # <<a, b>>
    BY <1>6
  <2>2. text # <<>> /\ text[1] = "Last"
    BY <1>6
  <2>3. {"Last", "login:", "date"} \cap Looked = {}
    BY DEF Looked, Prompts
  <2>4. ~IsKeyDenied(text)
    <3>1. /\ \A x : Has(text, x) <=> x \in {"Last", "login:", "date"}
          /\ \A y : ~HasPair(text, "denied", y)
      BY <1>6, TestsOnThree
    <3>2. ~Has(text, "bad_key")
      <4>1. "bad_key" \notin {"Last", "login:", "date"}
        OBVIOUS
      <4> QED
        BY <3>1, <4>1, Zenon
    <3>3. ~HasPair(text, "denied", "methods")
      BY <3>1
    <3> QED
      BY <3>2, <3>3 DEF IsKeyDenied
  <2>5. \A x \in Looked : Has(text, x) <=> Begins(text, x)
    BY <1>6, <2>2, <2>3, TestsOnThree DEF Begins
  <2> QED
    BY <1>6, <2>1, <2>4, <2>5, TestsOnThree
<1> QED
  BY <1>1, <1>2, <1>3, <1>4, <1>5, <1>6

-----------------------------------------------------------------------------
(* What the command makes of a line.                                        *)

\* All that a step of the command does not change, when it only types.
Alike(c, d) ==
    /\ d.resizeSent = c.resizeSent /\ d.sentLogin = c.sentLogin
    /\ d.sentContinue = c.sentContinue /\ d.passwords = c.passwords
    /\ d.lastPassword = c.lastPassword /\ d.whenPrompt = c.whenPrompt
    /\ d.afterLogin = c.afterLogin /\ d.stored = c.stored /\ d.outcome = c.outcome
Types(d, phase, text) == d.out = <<[for |-> phase, text |-> text]>>

\* What is typed is not nothing.
LEMMA TypesOne ==
    ASSUME NEW d, NEW phase, NEW text, Types(d, phase, text)
    PROVE  d.out # <<>>
<1>1. \A input : <<input>> # <<>>
  OBVIOUS
<1> QED
  BY <1>1 DEF Types

\* _send() types one answer and marks the line as answered; sendline() alone only types it.
LEMMA Typing ==
    ASSUME NEW c \in Commands, c.out = <<>>, NEW phase \in Phases \cup {"any"},
           NEW text \in Words
    PROVE  /\ Type(c, phase, text) \in Commands /\ Send(c, phase, text) \in Commands
           /\ Types(Type(c, phase, text), phase, text) /\ Types(Send(c, phase, text), phase, text)
           /\ Alike(c, Type(c, phase, text)) /\ Alike(c, Send(c, phase, text))
           /\ Type(c, phase, text).sent = c.sent /\ Send(c, phase, text).sent
<1> DEFINE input == [for |-> phase, text |-> text]
           d == Type(c, phase, text)
           e == Send(c, phase, text)
<1>1. input \in Inputs
  BY DEF Inputs
<1>2. Append(c.out, input) \in Seq(Inputs) /\ Append(c.out, input) = <<input>>
  <2>1. c.out \in Seq(Inputs)
    BY DEF Commands
  <2> HIDE DEF input
  <2>2. Append(c.out, input) \in Seq(Inputs)
    BY <1>1, <2>1, AppendProperties
  <2>3. Append(<<>>, input) = <<input>>
    OBVIOUS
  <2> QED
    BY <2>2, <2>3
<1>3. d = [c EXCEPT !.out = <<input>>]
  BY <1>2 DEF Type
<1>4. e = [d EXCEPT !.sent = TRUE]
  BY DEF Send
<1> HIDE DEF d, e, input
<1>5. <<input>> \in Seq(Inputs)
  BY <1>2
<1>6. d \in Commands /\ d.out = <<input>> /\ d.sent = c.sent
  BY <1>3, <1>5 DEF Commands
<1>7. Alike(c, d)
  BY <1>3 DEF Commands, Alike
<1>8. e \in Commands /\ e.sent /\ e.out = <<input>>
  BY <1>4, <1>6 DEF Commands
<1>9. Alike(c, e)
  <2>1. Alike(d, e)
    BY <1>4, <1>6 DEF Commands, Alike
  <2> QED
    BY <1>7, <2>1 DEF Alike
<1> QED
  BY <1>6, <1>7, <1>8, <1>9 DEF d, e, input, Types

\* set_exception() and set_result() end the command or store the exception, and leave what it
\* has to type as it was.
LEMMA Settled ==
    ASSUME NEW c \in Commands
    PROVE  /\ [c EXCEPT !.stored = TRUE] \in Commands
           /\ [c EXCEPT !.stored = TRUE].stored
           /\ Done(c) \in Commands
           /\ Done(c).outcome = IF c.stored THEN "exception" ELSE "result"
           /\ Done(c).stored = c.stored
           /\ Harmless(c) => Harmless([c EXCEPT !.stored = TRUE]) /\ Harmless(Done(c))
<1>1. (IF c.stored THEN "exception" ELSE "result") \in {"running", "result", "exception"}
  OBVIOUS
<1>2. /\ [c EXCEPT !.stored = TRUE] \in Commands /\ [c EXCEPT !.stored = TRUE].stored
  BY DEF Commands
<1>3. Done(c) \in Commands
  BY <1>1 DEF Commands, Done
<1>4. /\ Done(c).outcome = IF c.stored THEN "exception" ELSE "result"
      /\ Done(c).stored = c.stored
  BY DEF Commands, Done
<1>5. Harmless(c) => Harmless([c EXCEPT !.stored = TRUE])
  BY DEF Commands, Harmless
<1>6. Harmless(c) => Harmless(Done(c))
  BY DEF Commands, Harmless, Done
<1> QED
  BY <1>2, <1>3, <1>4, <1>5, <1>6

\* What a command may yet type is harmless, whatever else of it changes.
LEMMA SameWords ==
    ASSUME NEW c, NEW d, Harmless(c), d.passwords = c.passwords,
           d.afterLogin = c.afterLogin, d.lastPassword = c.lastPassword
    PROVE  Harmless(d)
BY DEF Harmless

\* _resize_sent and _sent_continue_connecting are set beside what is sent.
LEMMA Flagged ==
    ASSUME NEW c \in Commands, NEW d,
           d = [c EXCEPT !.resizeSent = TRUE] \/ d = [c EXCEPT !.sentContinue = TRUE]
    PROVE  /\ d \in Commands /\ d.sent = c.sent /\ d.out = c.out /\ d.sentLogin = c.sentLogin
           /\ d.passwords = c.passwords /\ d.afterLogin = c.afterLogin
           /\ d.lastPassword = c.lastPassword /\ d.whenPrompt = c.whenPrompt
           /\ d.stored = c.stored /\ d.outcome = c.outcome
           /\ d = [c EXCEPT !.resizeSent = TRUE] => d.sentContinue = c.sentContinue
           /\ d = [c EXCEPT !.sentContinue = TRUE]
                => d.sentContinue /\ d.resizeSent = c.resizeSent
<1>1. CASE d = [c EXCEPT !.resizeSent = TRUE]
  <2>1. d \in Commands
    BY <1>1 DEF Commands
  <2>2. /\ d.sent = c.sent /\ d.out = c.out /\ d.sentLogin = c.sentLogin
        /\ d.passwords = c.passwords /\ d.afterLogin = c.afterLogin
        /\ d.lastPassword = c.lastPassword /\ d.whenPrompt = c.whenPrompt
        /\ d.stored = c.stored /\ d.outcome = c.outcome /\ d.sentContinue = c.sentContinue
    BY <1>1 DEF Commands
  <2>3. d = [c EXCEPT !.sentContinue = TRUE] => d.sentContinue /\ d.resizeSent = c.resizeSent
    BY DEF Commands
  <2> QED
    BY <2>1, <2>2, <2>3
<1>2. CASE d = [c EXCEPT !.sentContinue = TRUE]
  <2>1. d \in Commands /\ d.sentContinue
    BY <1>2 DEF Commands
  <2>2. /\ d.sent = c.sent /\ d.out = c.out /\ d.sentLogin = c.sentLogin
        /\ d.passwords = c.passwords /\ d.afterLogin = c.afterLogin
        /\ d.lastPassword = c.lastPassword /\ d.whenPrompt = c.whenPrompt
        /\ d.stored = c.stored /\ d.outcome = c.outcome /\ d.resizeSent = c.resizeSent
    BY <1>2 DEF Commands
  <2>3. d = [c EXCEPT !.resizeSent = TRUE] => d.sentContinue = c.sentContinue
    BY DEF Commands
  <2> QED
    BY <2>1, <2>2, <2>3
<1> QED
  BY <1>1, <1>2

\* What it has to type at a password or at a shell is left as it is.
KeepsWords(c, d) ==
    /\ d.resizeSent = c.resizeSent /\ d.afterLogin = c.afterLogin
    /\ d.passwords = c.passwords /\ d.lastPassword = c.lastPassword
\* No password is the text that breaks off.
NeverBreaks(c) ==
    /\ \A i \in DOMAIN c.passwords : c.passwords[i] # "ctrl+c"
    /\ c.lastPassword # "ctrl+c"

\* More is owed to the prompt.
Owing(c, more) == [c EXCEPT !.whenPrompt = more]
\* It is a command, and nothing else of it changes.
LEMMA Owed ==
    ASSUME NEW c \in Commands, NEW more \in Seq(Words), NEW d, d = Owing(c, more)
    PROVE  /\ d \in Commands /\ (Harmless(c) => Harmless(d))
           /\ d.out = c.out /\ d.sent = c.sent /\ d.sentLogin = c.sentLogin
           /\ d.sentContinue = c.sentContinue /\ d.stored = c.stored /\ d.outcome = c.outcome
           /\ d.whenPrompt = more /\ KeepsWords(c, d)
<1>1. d \in Commands
  BY DEF Commands, Owing
<1>2. /\ d.out = c.out /\ d.sent = c.sent /\ d.sentLogin = c.sentLogin
      /\ d.sentContinue = c.sentContinue /\ d.stored = c.stored /\ d.outcome = c.outcome
      /\ d.whenPrompt = more
  BY DEF Commands, Owing
<1>3. /\ d.passwords = c.passwords /\ d.afterLogin = c.afterLogin
      /\ d.lastPassword = c.lastPassword /\ d.resizeSent = c.resizeSent
  BY DEF Commands, Owing
<1>4. Harmless(c) => Harmless(d)
  BY <1>3, SameWords, Zenon
<1> QED
  BY <1>1, <1>2, <1>3, <1>4 DEF KeepsWords

\* What the command types of its own is among what may be typed.
LEMMA PlainWords ==
    /\ "" \in Words /\ "user" \in Words /\ "yes" \in Words /\ "ctrl+c" \in Words
    /\ <<"keygen", "ssh">> \in Seq(Words)
<1>1. /\ "" \in Words /\ "user" \in Words /\ "yes" \in Words /\ "ctrl+c" \in Words
      /\ "keygen" \in Words /\ "ssh" \in Words
  BY DEF Words
<1>2. \A W, a, b : a \in W /\ b \in W => <<a, b>> \in Seq(W)
  OBVIOUS
<1> QED
  BY <1>1, <1>2

\* One of them happens to the command c, that becomes d, when it looks at a line.
LooksOn(c, text, d) ==
    /\ d = c /\ text # <<"disconnected">>
    /\ text \in {<<"bad_key">>, <<"denied", "methods">>} => setup.protocol # "ssh"
Enters(c, text, d) ==
    /\ Begins(text, "resize") \/ Begins(text, "id_dsa") \/ Begins(text, "connected")
    /\ Types(d, "any", "") /\ (c.sent => d.sent)
    /\ d.sentLogin = c.sentLogin /\ d.sentContinue = c.sentContinue
    /\ d.whenPrompt = c.whenPrompt /\ d.stored = c.stored /\ d.outcome = c.outcome
    /\ d.resizeSent = c.resizeSent \/ Begins(text, "resize")
    /\ d.afterLogin = c.afterLogin /\ d.passwords = c.passwords /\ d.lastPassword = c.lastPassword
SaysYes(c, text, d) ==
    /\ Begins(text, "yes/no") /\ ~c.sentContinue /\ setup.protocol = "ssh"
    /\ Types(d, "confirm", "yes") /\ d.sent /\ d.sentContinue
    /\ d.sentLogin = c.sentLogin
    /\ d.whenPrompt = c.whenPrompt /\ d.stored = c.stored /\ d.outcome = c.outcome
    /\ KeepsWords(c, d)
RemovesKey(c, text, d) ==
    /\ text \in {<<"bad_key">>, <<"denied", "methods">>} /\ setup.protocol = "ssh"
    /\ d.out = <<>> /\ d.sent = c.sent
    /\ d.sentLogin = c.sentLogin /\ d.sentContinue = c.sentContinue
    /\ d.stored = c.stored /\ d.outcome = c.outcome
    /\ d.whenPrompt = c.whenPrompt \o <<"keygen", "ssh">> /\ KeepsWords(c, d)
Fails(c, text, d) ==
    /\ text \in {<<"bad_key">>, <<"denied", "methods">>, <<"disconnected">>, <<"denied">>}
    /\ d.out = <<>> /\ d.sent = c.sent /\ d.stored
    /\ d.sentLogin = c.sentLogin /\ d.sentContinue = c.sentContinue
    /\ d.whenPrompt = c.whenPrompt /\ d.outcome = c.outcome
    /\ KeepsWords(c, d)
LogsIn(c, text, d) ==
    /\ text \in {<<"login:">>, <<"Last", "login:">>} /\ ~c.sentLogin
    /\ Types(d, "login", "user") /\ d.sentLogin
    /\ d.sentContinue = c.sentContinue
    /\ d.whenPrompt = c.whenPrompt /\ d.stored = c.stored /\ d.outcome = c.outcome
    /\ KeepsWords(c, d)
GivesPassword(c, text, d) ==
    /\ Begins(text, "password:") /\ ~c.sent
    /\ \E password \in Words :
        /\ Types(d, "password", password) /\ password # "ssh"
        /\ d.stored = c.stored \/ password = "ctrl+c"
        /\ NeverBreaks(c) => NeverBreaks(d) /\ (password = "ctrl+c" => d.stored)
    /\ d.sent /\ ~d.sentLogin /\ d.sentContinue = c.sentContinue
    /\ d.whenPrompt = c.whenPrompt /\ d.outcome = c.outcome /\ (c.stored => d.stored)
    /\ d.resizeSent = c.resizeSent /\ d.afterLogin = c.afterLogin
Succeeds(c, text, d) ==
    /\ \/ Begins(text, "remote")
       \/ Begins(text, "local") /\ c.stored
    /\ d.out = <<>> /\ d.sent = c.sent
    /\ d.sentLogin = c.sentLogin /\ d.sentContinue = c.sentContinue
    /\ d.whenPrompt = c.whenPrompt /\ d.stored = c.stored
    /\ d.outcome = IF c.stored THEN "exception" ELSE "result"
    /\ KeepsWords(c, d)
TriesAgain(c, text, d) ==
    /\ Begins(text, "local") /\ ~c.stored /\ ~c.sent /\ c.whenPrompt # <<>>
    /\ \E command \in Words : Types(d, "local", command) /\ command = Head(c.whenPrompt)
    /\ d.whenPrompt = Tail(c.whenPrompt)
    /\ d.sent /\ d.sentLogin = c.sentLogin /\ d.sentContinue = c.sentContinue
    /\ d.stored = c.stored /\ d.outcome = c.outcome
    /\ KeepsWords(c, d)
Sets(c, text, d) ==
    /\ Begins(text, "remote") \/ Begins(text, "first")
    /\ \E setting \in Words :
        /\ Types(d, "shell", setting) /\ setting # "ssh" /\ setting = Head(c.afterLogin)
    /\ c.afterLogin # <<>> /\ d.afterLogin = Tail(c.afterLogin)
    /\ d.sent /\ d.sentLogin = c.sentLogin /\ d.sentContinue = c.sentContinue
    /\ d.whenPrompt = c.whenPrompt /\ d.stored = c.stored /\ d.outcome = c.outcome
    /\ d.resizeSent = c.resizeSent
    /\ d.passwords = c.passwords /\ d.lastPassword = c.lastPassword

\* The tests of Ssh pass over a line that they have answered or do not look for.
SshIgnores(c, text) ==
    /\ Begins(text, "resize") => c.resizeSent
    /\ Begins(text, "yes/no") => c.sentContinue
\* So do those of GenericTelnetSsh ...
GenericIgnores(c, text) ==
    /\ text = <<"login:">> => c.sentLogin
    /\ Begins(text, "password:") => c.sent
\* ... and those of CommandChangingPrompt, on a line that is not complete.
PromptIgnores(c, text) ==
    /\ Begins(text, "local") => ~c.stored /\ (c.sent \/ c.whenPrompt = <<>>)
    /\ Begins(text, "remote") => c.sent \/ (c.afterLogin # <<>> /\ setup.twoPrompts)
    /\ Begins(text, "first") => c.sent \/ c.afterLogin = <<>> \/ ~setup.twoPrompts
Ignores(c, text) ==
    /\ setup.protocol = "ssh" => SshIgnores(c, text)
    /\ GenericIgnores(c, text) /\ PromptIgnores(c, text)

\* What these lines begin with.
LEMMA Beginnings ==
    ASSUME NEW text
    PROVE  /\ text = <<"disconnected">> => Begins(text, "disconnected")
           /\ text \in {<<"denied">>, <<"denied", "methods">>} => Begins(text, "denied")
           /\ text = <<"bad_key">> => Begins(text, "bad_key")
           /\ text = <<"login:">> => Begins(text, "login:")
           /\ text = <<"Last", "login:">> => Begins(text, "Last")
<1>1. \A a : <<a>> # <<>> /\ <<a>>[1] = a
  OBVIOUS
<1>2. \A a, b : <<a, b>> # <<>> /\ <<a, b>>[1] = a
  OBVIOUS
<1>3. \A a : text = <<a>> => Begins(text, a)
  BY <1>1 DEF Begins
<1>4. \A a, b : text = <<a, b>> => Begins(text, a)
  BY <1>2 DEF Begins
<1> QED
  BY <1>3, <1>4

\* Ssh.on_new_line() looks for four things.
LEMMA SshAnswers ==
    ASSUME NEW c \in Commands, c.out = <<>>, Harmless(c), setup \in Setups,
           setup.protocol = "ssh", NEW text \in LineTexts, NEW d, d = SshLooks(c, text)
    PROVE  /\ d \in Commands /\ Harmless(d)
           /\ \/ d = c /\ text \notin {<<"bad_key">>, <<"denied", "methods">>}
              \/ Enters(c, text, d) /\ ~Begins(text, "connected")
              \/ SaysYes(c, text, d)
              \/ RemovesKey(c, text, d)
              \/ Fails(c, text, d) /\ text \in {<<"bad_key">>, <<"denied", "methods">>}
           /\ d.out # <<>> \/ SshIgnores(c, text)
<1> DEFINE b1 == ~c.resizeSent /\ Has(text, "resize")
           b2 == ~c.sentContinue /\ Has(text, "yes/no")
           b3 == Has(text, "id_dsa")
           b4 == IsKeyDenied(text)
           n1 == "resize"  n2 == "yes/no"  n3 == "id_dsa"  n4 == "key denied"
           tests == << <<n1, b1>>, <<n2, b2>>, <<n3, b3>>, <<n4, b4>> >>
           found == FirstOf(tests)
           enter == Send(c, "any", "")
           yes == Send(c, "confirm", "yes")
<1>1. b1 \in BOOLEAN /\ b2 \in BOOLEAN /\ b3 \in BOOLEAN /\ b4 \in BOOLEAN
  BY DEF Has, IsKeyDenied, HasPair
<1>2. /\ b1 <=> Begins(text, "resize") /\ ~c.resizeSent
      /\ b2 <=> Begins(text, "yes/no") /\ ~c.sentContinue
      /\ b3 => Begins(text, "id_dsa")
      /\ b4 <=> text \in {<<"bad_key">>, <<"denied", "methods">>}
  BY Tests DEF Looked, Prompts
<1>3. /\ enter \in Commands /\ Types(enter, "any", "") /\ Alike(c, enter) /\ enter.sent
      /\ yes \in Commands /\ Types(yes, "confirm", "yes") /\ Alike(c, yes) /\ yes.sent
  <2>1. "any" \in Phases \cup {"any"} /\ "confirm" \in Phases \cup {"any"}
    BY DEF Phases
  <2>2. "" \in Words /\ "yes" \in Words
    BY PlainWords
  <2>3. enter \in Commands /\ Types(enter, "any", "") /\ Alike(c, enter) /\ enter.sent
    BY <2>1, <2>2, Typing
  <2>4. yes \in Commands /\ Types(yes, "confirm", "yes") /\ Alike(c, yes) /\ yes.sent
    BY <2>1, <2>2, Typing
  <2> QED
    BY <2>3, <2>4
<1>4. d = CASE found = "resize" -> [enter EXCEPT !.resizeSent = TRUE]
            [] found = "yes/no" -> [yes EXCEPT !.sentContinue = TRUE]
            [] found = "id_dsa" -> enter
            [] found = "key denied" /\ setup.removesKey ->
                   [c EXCEPT !.whenPrompt = @ \o <<"keygen", "ssh">>]
            [] found = "key denied" /\ ~setup.removesKey -> [c EXCEPT !.stored = TRUE]
            [] OTHER -> c
  BY DEF SshLooks
<1> HIDE DEF b1, b2, b3, b4, enter, yes
<1>5. /\ found = "resize" => b1
      /\ found = "yes/no" => b2
      /\ found = "id_dsa" => b3
      /\ found = "key denied" => b4
      /\ found \notin {"resize", "yes/no", "id_dsa", "key denied"} => ~b1 /\ ~b2 /\ ~b4
  <2> HIDE DEF n1, n2, n3, n4
  <2>1. /\ DOMAIN tests = {1, 2, 3, 4}
        /\ tests[1] = <<n1, b1>> /\ tests[2] = <<n2, b2>>
        /\ tests[3] = <<n3, b3>> /\ tests[4] = <<n4, b4>>
    OBVIOUS
  <2>2. /\ tests[1][1] = n1 /\ tests[2][1] = n2 /\ tests[3][1] = n3 /\ tests[4][1] = n4
        /\ tests[1][2] = b1 /\ tests[2][2] = b2 /\ tests[3][2] = b3 /\ tests[4][2] = b4
    BY <2>1
  <2> HIDE DEF tests
  <2>3. /\ b1 => found = n1
        /\ ~b1 /\ b2 => found = n2
        /\ ~b1 /\ ~b2 /\ b3 => found = n3
        /\ ~b1 /\ ~b2 /\ ~b3 /\ b4 => found = n4
        /\ ~b1 /\ ~b2 /\ ~b3 /\ ~b4 => found = "nothing"
    BY <2>1, <2>2, FirstOfFour
  <2> HIDE DEF found
  <2> QED
    BY <2>3 DEF n1, n2, n3, n4
<1> HIDE DEF found
<1>6. CASE found = "resize"
  <2>1. d = [enter EXCEPT !.resizeSent = TRUE]
    BY <1>4, <1>6
  <2>2. /\ d \in Commands /\ d.sent = enter.sent /\ d.out = enter.out
        /\ d.sentLogin = enter.sentLogin /\ d.sentContinue = enter.sentContinue
        /\ d.passwords = enter.passwords /\ d.afterLogin = enter.afterLogin
        /\ d.lastPassword = enter.lastPassword /\ d.whenPrompt = enter.whenPrompt
        /\ d.stored = enter.stored /\ d.outcome = enter.outcome
    <3>1. enter \in Commands
      BY <1>3
    <3> QED
      BY <2>1, <3>1, Flagged, Zenon
  <2>3. Harmless(d)
    <3>1. /\ d.passwords = c.passwords /\ d.afterLogin = c.afterLogin
          /\ d.lastPassword = c.lastPassword
      BY <1>3, <2>2 DEF Alike
    <3> QED
      BY <3>1, SameWords, Zenon
  <2>4. Begins(text, "resize") /\ ~Begins(text, "connected")
    <3>1. Begins(text, "resize")
      BY <1>2, <1>5, <1>6
    <3> QED
      BY <3>1 DEF Begins
  <2>5. Enters(c, text, d)
    BY <1>3, <2>2, <2>4 DEF Alike, Enters, Types
  <2>6. d.out # <<>>
    BY <2>5, TypesOne DEF Enters
  <2> QED
    BY <2>2, <2>3, <2>4, <2>5, <2>6
<1>7. CASE found = "yes/no"
  <2>1. d = [yes EXCEPT !.sentContinue = TRUE]
    BY <1>4, <1>7
  <2>2. /\ d \in Commands /\ d.sent = yes.sent /\ d.out = yes.out
        /\ d.sentLogin = yes.sentLogin /\ d.sentContinue
        /\ d.passwords = yes.passwords /\ d.afterLogin = yes.afterLogin
        /\ d.lastPassword = yes.lastPassword /\ d.whenPrompt = yes.whenPrompt
        /\ d.stored = yes.stored /\ d.outcome = yes.outcome
        /\ d.resizeSent = yes.resizeSent
    <3>1. yes \in Commands
      BY <1>3
    <3> QED
      BY <2>1, <3>1, Flagged, Zenon
  <2>3. Harmless(d)
    <3>1. /\ d.passwords = c.passwords /\ d.afterLogin = c.afterLogin
          /\ d.lastPassword = c.lastPassword
      BY <1>3, <2>2 DEF Alike
    <3> QED
      BY <3>1, SameWords, Zenon
  <2>4. Begins(text, "yes/no") /\ ~c.sentContinue
    BY <1>2, <1>5, <1>7
  <2>5. SaysYes(c, text, d)
    BY <1>3, <2>2, <2>4 DEF Alike, SaysYes, Types, KeepsWords
  <2>6. d.out # <<>>
    BY <2>5, TypesOne DEF SaysYes
  <2> QED
    BY <2>2, <2>3, <2>5, <2>6
<1>8. CASE found = "id_dsa"
  <2>1. d = enter
    BY <1>4, <1>8
  <2>2. d \in Commands /\ Types(d, "any", "") /\ Alike(c, d) /\ d.sent
    BY <2>1, <1>3, Zenon
  <2>3. Harmless(d)
    <3>1. /\ d.passwords = c.passwords /\ d.afterLogin = c.afterLogin
          /\ d.lastPassword = c.lastPassword
      BY <2>2 DEF Alike
    <3> QED
      BY <3>1, SameWords, Zenon
  <2>4. Begins(text, "id_dsa") /\ ~Begins(text, "connected")
    <3>1. Begins(text, "id_dsa")
      BY <1>2, <1>5, <1>8
    <3> QED
      BY <3>1 DEF Begins
  <2>5. Enters(c, text, d)
    BY <2>2, <2>4 DEF Alike, Enters
  <2>6. d.out # <<>>
    BY <2>2, TypesOne
  <2> QED
    BY <2>2, <2>3, <2>4, <2>5, <2>6
<1>12. found = "key denied" => SshIgnores(c, text)
  <2>1. found = "key denied" => Begins(text, "bad_key") \/ Begins(text, "denied")
    BY <1>2, <1>5, Beginnings
  <2> QED
    BY <2>1 DEF SshIgnores, Begins
<1>9. CASE found = "key denied" /\ setup.removesKey
  <2>1. d = [c EXCEPT !.whenPrompt = c.whenPrompt \o <<"keygen", "ssh">>]
    BY <1>4, <1>9
  <2>2. c.whenPrompt \o <<"keygen", "ssh">> \in Seq(Words)
    <3>1. <<"keygen", "ssh">> \in Seq(Words)
      BY PlainWords
    <3>2. c.whenPrompt \in Seq(Words)
      BY DEF Commands
    <3> QED
      BY <3>1, <3>2, ConcatProperties
  <2>3. /\ d \in Commands /\ Harmless(d)
        /\ d.out = c.out /\ d.sent = c.sent /\ d.sentLogin = c.sentLogin
        /\ d.sentContinue = c.sentContinue /\ d.stored = c.stored /\ d.outcome = c.outcome
        /\ d.whenPrompt = c.whenPrompt \o <<"keygen", "ssh">> /\ KeepsWords(c, d)
    <3>1. PICK more : more = c.whenPrompt \o <<"keygen", "ssh">>
      OBVIOUS
    <3>2. d = Owing(c, more) /\ more \in Seq(Words)
      BY <2>1, <2>2, <3>1 DEF Owing
    <3>3. /\ d \in Commands /\ (Harmless(c) => Harmless(d))
          /\ d.out = c.out /\ d.sent = c.sent /\ d.sentLogin = c.sentLogin
          /\ d.sentContinue = c.sentContinue /\ d.stored = c.stored /\ d.outcome = c.outcome
          /\ d.whenPrompt = more /\ KeepsWords(c, d)
      BY <3>2, Owed
    <3> QED
      BY <3>1, <3>3
  <2>4. RemovesKey(c, text, d)
    BY <2>3, <1>2, <1>5, <1>9 DEF RemovesKey
  <2> QED
    BY <1>12, <1>9, <2>3, <2>4
<1>10. CASE found = "key denied" /\ ~setup.removesKey
  <2>1. d = [c EXCEPT !.stored = TRUE]
    BY <1>4, <1>10
  <2>2. d \in Commands /\ Harmless(d) /\ d.stored
    BY <2>1, Settled
  <2>3. Fails(c, text, d) /\ text \in {<<"bad_key">>, <<"denied", "methods">>}
    BY <2>1, <2>2, <1>2, <1>5, <1>10 DEF Commands, Fails, KeepsWords
  <2> QED
    BY <1>12, <1>10, <2>2, <2>3
<1>11. CASE found \notin {"resize", "yes/no", "id_dsa", "key denied"}
  BY <1>2, <1>4, <1>5, <1>11 DEF SshIgnores
<1> QED
  BY <1>6, <1>7, <1>8, <1>9, <1>10, <1>11

\* A password is taken off the list as it is sent, and kept as the last one.
Popped(c, word, rest) ==
    [[c EXCEPT !.lastPassword = word, !.passwords = rest] EXCEPT !.sentLogin = FALSE, !.sent = TRUE]
\* It is a command, and nothing else of it changes.
LEMMA Taken ==
    ASSUME NEW c \in Commands, NEW word \in Words, NEW rest \in Seq(Words), NEW d,
           d = Popped(c, word, rest)
    PROVE  /\ d \in Commands /\ d.lastPassword = word /\ d.passwords = rest
           /\ d.afterLogin = c.afterLogin
           /\ d.sent /\ ~d.sentLogin /\ d.sentContinue = c.sentContinue
           /\ d.whenPrompt = c.whenPrompt /\ d.stored = c.stored
           /\ d.outcome = c.outcome /\ d.out = c.out /\ d.resizeSent = c.resizeSent
<1>1. PICK b : b = [c EXCEPT !.lastPassword = word, !.passwords = rest]
  OBVIOUS
<1>2. b \in Commands
  BY <1>1 DEF Commands
<1>3. /\ b.lastPassword = word /\ b.passwords = rest /\ b.afterLogin = c.afterLogin
      /\ b.sentContinue = c.sentContinue /\ b.whenPrompt = c.whenPrompt
      /\ b.stored = c.stored /\ b.outcome = c.outcome /\ b.out = c.out
      /\ b.resizeSent = c.resizeSent
  BY <1>1 DEF Commands
<1>4. d = [b EXCEPT !.sentLogin = FALSE, !.sent = TRUE]
  BY <1>1 DEF Popped
<1>5. d \in Commands
  BY <1>2, <1>4 DEF Commands
<1>6. /\ d.lastPassword = b.lastPassword /\ d.passwords = b.passwords
      /\ d.afterLogin = b.afterLogin /\ d.sentContinue = b.sentContinue
      /\ d.whenPrompt = b.whenPrompt /\ d.stored = b.stored
      /\ d.outcome = b.outcome /\ d.out = b.out /\ d.resizeSent = b.resizeSent
  BY <1>2, <1>4 DEF Commands
<1>7. d.sent /\ ~d.sentLogin
  BY <1>2, <1>4 DEF Commands
<1> QED
  BY <1>3, <1>5, <1>6, <1>7

\* The next password, the last one again, or ctrl+c when there is none left.
LEMMA PasswordAnswer ==
    ASSUME NEW c \in Commands, c.out = <<>>, Harmless(c), ~c.sent, NEW text,
           Begins(text, "password:"), NEW d, d = SendPassword(c)
    PROVE  d \in Commands /\ Harmless(d) /\ GivesPassword(c, text, d)
<1> DEFINE first == Send(c, "password", Head(c.passwords))
           again == Send(c, "password", c.lastPassword)
           stop == Type(c, "password", "ctrl+c")
<1>1. "password" \in Phases \cup {"any"} /\ "ctrl+c" \in Words /\ c.lastPassword \in Words
  BY PlainWords DEF Phases, Commands
<1>2. CASE c.passwords # <<>>
  <2> DEFINE word == Head(c.passwords)  rest == Tail(c.passwords)
  <2>1. c.passwords \in Seq(Words)
    BY DEF Commands
  <2>2. /\ word \in Words /\ word = c.passwords[1] /\ 1 \in DOMAIN c.passwords
        /\ rest \in Seq(Words)
        /\ \A i \in DOMAIN rest : i + 1 \in DOMAIN c.passwords /\ rest[i] = c.passwords[i + 1]
    BY <2>1, <1>2, HeadTailProperties
  <2> HIDE DEF word, rest
  <2>3. word # "ssh" /\ \A i \in DOMAIN rest : rest[i] # "ssh"
    BY <2>2 DEF Harmless
  <2>4. /\ first \in Commands /\ Types(first, "password", word) /\ Alike(c, first) /\ first.sent
    BY <1>1, <2>2, Typing DEF word
  <2>5. d = Popped(first, word, rest)
    <3>1. first.passwords = c.passwords
      BY <2>4 DEF Alike
    <3> QED
      BY <1>2, <3>1 DEF SendPassword, Popped, word, rest
  <2> HIDE DEF first
  <2>6. /\ d \in Commands /\ d.lastPassword = word /\ d.passwords = rest
        /\ d.afterLogin = first.afterLogin
        /\ d.sent /\ ~d.sentLogin /\ d.sentContinue = first.sentContinue
        /\ d.whenPrompt = first.whenPrompt /\ d.stored = first.stored
        /\ d.outcome = first.outcome /\ d.out = first.out /\ d.resizeSent = first.resizeSent
    <3>1. first \in Commands /\ word \in Words /\ rest \in Seq(Words)
      BY <2>2, <2>4
    <3> QED
      BY <2>5, <3>1, Taken
  <2>7. Harmless(d)
    BY <2>3, <2>4, <2>6 DEF Harmless, Alike
  <2>8. NeverBreaks(c) => NeverBreaks(d) /\ word # "ctrl+c"
    BY <2>2, <2>6 DEF NeverBreaks
  <2>9. GivesPassword(c, text, d)
    BY <2>2, <2>3, <2>4, <2>6, <2>8 DEF GivesPassword, Alike, Types
  <2> QED
    BY <2>6, <2>7, <2>9
<1>3. CASE c.passwords = <<>> /\ setup.repeatPassword
  <2>1. again \in Commands /\ Types(again, "password", c.lastPassword) /\ Alike(c, again)
        /\ again.sent
    BY <1>1, Typing
  <2>2. d = [again EXCEPT !.sentLogin = FALSE, !.sent = TRUE]
    BY <1>3 DEF SendPassword
  <2> HIDE DEF again
  <2>3. /\ d \in Commands /\ d.lastPassword = again.lastPassword
        /\ d.passwords = again.passwords /\ d.afterLogin = again.afterLogin
        /\ d.sent /\ ~d.sentLogin /\ d.sentContinue = again.sentContinue
        /\ d.whenPrompt = again.whenPrompt /\ d.stored = again.stored
        /\ d.outcome = again.outcome /\ d.out = again.out /\ d.resizeSent = again.resizeSent
    BY <2>1, <2>2 DEF Commands
  <2>4. Harmless(d)
    BY <2>1, <2>3 DEF Harmless, Alike
  <2>5. c.lastPassword # "ssh"
    BY DEF Harmless
  <2>6. NeverBreaks(c) => NeverBreaks(d) /\ c.lastPassword # "ctrl+c"
    BY <2>1, <2>3 DEF NeverBreaks, Alike
  <2>7. GivesPassword(c, text, d)
    BY <1>1, <2>1, <2>3, <2>5, <2>6 DEF GivesPassword, Alike, Types
  <2> QED
    BY <2>3, <2>4, <2>7
<1>4. CASE c.passwords = <<>> /\ ~setup.repeatPassword
  <2>1. stop \in Commands /\ Types(stop, "password", "ctrl+c") /\ Alike(c, stop)
    BY <1>1, Typing
  <2>2. d = [[stop EXCEPT !.stored = TRUE] EXCEPT !.sentLogin = FALSE, !.sent = TRUE]
    BY <1>4 DEF SendPassword
  <2> HIDE DEF stop
  <2>3. /\ d \in Commands /\ d.lastPassword = stop.lastPassword
        /\ d.passwords = stop.passwords /\ d.afterLogin = stop.afterLogin
        /\ d.sent /\ ~d.sentLogin /\ d.sentContinue = stop.sentContinue
        /\ d.whenPrompt = stop.whenPrompt /\ d.stored
        /\ d.outcome = stop.outcome /\ d.out = stop.out /\ d.resizeSent = stop.resizeSent
    BY <2>1, <2>2 DEF Commands
  <2>4. Harmless(d)
    BY <2>1, <2>3 DEF Harmless, Alike
  <2>5. Types(d, "password", "ctrl+c") /\ "ctrl+c" # "ssh"
    BY <2>1, <2>3 DEF Types
  <2>6. NeverBreaks(c) => NeverBreaks(d)
    BY <2>1, <2>3 DEF NeverBreaks, Alike
  <2>7. GivesPassword(c, text, d)
    BY <1>1, <2>1, <2>3, <2>5, <2>6 DEF GivesPassword, Alike
  <2> QED
    BY <2>3, <2>4, <2>7
<1> QED
  BY <1>2, <1>3, <1>4

\* GenericTelnetSsh.on_new_line() looks for four things, too.
LEMMA GenericAnswers ==
    ASSUME NEW c \in Commands, c.out = <<>>, Harmless(c), NEW text \in LineTexts, NEW d,
           d = GenericLooks(c, text)
    PROVE  /\ d \in Commands /\ Harmless(d)
           /\ \/ d = c /\ text \notin {<<"disconnected">>, <<"denied">>}
              \/ Fails(c, text, d) /\ text \in {<<"disconnected">>, <<"denied">>}
              \/ LogsIn(c, text, d)
              \/ GivesPassword(c, text, d)
              \/ Enters(c, text, d) /\ Begins(text, "connected")
           /\ d.out # <<>> \/ GenericIgnores(c, text)
<1> DEFINE b1 == IsFailure(text)
           b2 == ~c.sentLogin /\ IsLoginRequested(text)
           b3 == PasswordWanted(c, text)
           b4 == Has(text, "connected")
           n1 == "failure"  n2 == "login"  n3 == "password"  n4 == "connected"
           tests == << <<n1, b1>>, <<n2, b2>>, <<n3, b3>>, <<n4, b4>> >>
           found == FirstOf(tests)
           enter == Type(c, "any", "")
           login == Type(c, "login", "user")
<1>1. b1 \in BOOLEAN /\ b2 \in BOOLEAN /\ b3 \in BOOLEAN /\ b4 \in BOOLEAN
  BY DEF Has, IsFailure, IsLoginRequested, PasswordWanted
<1>2. /\ b1 <=> text \in {<<"disconnected">>, <<"denied">>}
      /\ b2 <=> text \in {<<"login:">>, <<"Last", "login:">>} /\ ~c.sentLogin
      /\ b3 <=> Begins(text, "password:") /\ ~c.sent
      /\ b4 => Begins(text, "connected")
  BY Tests DEF Looked, Prompts, PasswordWanted
<1>3. /\ enter \in Commands /\ Types(enter, "any", "") /\ Alike(c, enter) /\ enter.sent = c.sent
      /\ login \in Commands /\ Types(login, "login", "user") /\ Alike(c, login)
  <2>1. "any" \in Phases \cup {"any"} /\ "login" \in Phases \cup {"any"}
    BY DEF Phases
  <2>2. "" \in Words /\ "user" \in Words
    BY PlainWords
  <2>3. enter \in Commands /\ Types(enter, "any", "") /\ Alike(c, enter) /\ enter.sent = c.sent
    BY <2>1, <2>2, Typing
  <2>4. login \in Commands /\ Types(login, "login", "user") /\ Alike(c, login)
    BY <2>1, <2>2, Typing
  <2> QED
    BY <2>3, <2>4
<1>4. d = CASE found = "failure" -> [c EXCEPT !.stored = TRUE]
            [] found = "login" -> [login EXCEPT !.sentLogin = TRUE, !.sent = FALSE]
            [] found = "password" -> SendPassword(c)
            [] found = "connected" -> enter
            [] OTHER -> c
  BY DEF GenericLooks
<1> HIDE DEF b1, b2, b3, b4, enter, login
<1>5. /\ found = "failure" => b1
      /\ found = "login" => b2
      /\ found = "password" => b3
      /\ found = "connected" => b4
      /\ b1 => found = "failure"
      /\ found \notin {"failure", "login", "password", "connected"} => ~b2 /\ ~b3
  <2> HIDE DEF n1, n2, n3, n4
  <2>1. /\ DOMAIN tests = {1, 2, 3, 4}
        /\ tests[1] = <<n1, b1>> /\ tests[2] = <<n2, b2>>
        /\ tests[3] = <<n3, b3>> /\ tests[4] = <<n4, b4>>
    OBVIOUS
  <2>2. /\ tests[1][1] = n1 /\ tests[2][1] = n2 /\ tests[3][1] = n3 /\ tests[4][1] = n4
        /\ tests[1][2] = b1 /\ tests[2][2] = b2 /\ tests[3][2] = b3 /\ tests[4][2] = b4
    BY <2>1
  <2> HIDE DEF tests
  <2>3. /\ b1 => found = n1
        /\ ~b1 /\ b2 => found = n2
        /\ ~b1 /\ ~b2 /\ b3 => found = n3
        /\ ~b1 /\ ~b2 /\ ~b3 /\ b4 => found = n4
        /\ ~b1 /\ ~b2 /\ ~b3 /\ ~b4 => found = "nothing"
    BY <2>1, <2>2, FirstOfFour
  <2> HIDE DEF found
  <2> QED
    BY <2>3 DEF n1, n2, n3, n4
<1> HIDE DEF found
<1>6. CASE found = "failure"
  <2>1. d = [c EXCEPT !.stored = TRUE]
    BY <1>4, <1>6
  <2>2. d \in Commands /\ Harmless(d) /\ d.stored
    BY <2>1, Settled
  <2>3. text \in {<<"disconnected">>, <<"denied">>}
    BY <1>2, <1>5, <1>6
  <2>4. Fails(c, text, d)
    BY <2>1, <2>2, <2>3 DEF Commands, Fails, KeepsWords
  <2>5. GenericIgnores(c, text)
    <3>1. Begins(text, "disconnected") \/ Begins(text, "denied")
      BY <2>3, Beginnings
    <3>2. ~Begins(text, "login:") /\ ~Begins(text, "password:")
      BY <3>1 DEF Begins
    <3> QED
      BY <3>2, Beginnings DEF GenericIgnores
  <2> QED
    BY <2>2, <2>3, <2>4, <2>5
<1>7. CASE found = "login"
  <2>1. d = [login EXCEPT !.sentLogin = TRUE, !.sent = FALSE]
    BY <1>4, <1>7
  <2>2. d \in Commands /\ d.passwords = login.passwords /\ d.afterLogin = login.afterLogin
        /\ d.lastPassword = login.lastPassword
    BY <2>1, <1>3 DEF Commands
  <2>3. Harmless(d)
    BY <2>2, <1>3 DEF Harmless, Alike
  <2>4. LogsIn(c, text, d)
    <3>1. Types(login, "login", "user") /\ Alike(c, login)
      BY <1>3
    <3>2. /\ d.out = login.out /\ d.sentLogin
          /\ d.sentContinue = login.sentContinue /\ d.whenPrompt = login.whenPrompt
          /\ d.stored = login.stored /\ d.outcome = login.outcome
          /\ d.resizeSent = login.resizeSent
      BY <1>3, <2>1 DEF Commands
    <3>3. Types(d, "login", "user")
      BY <3>1, <3>2 DEF Types
    <3>4. text \in {<<"login:">>, <<"Last", "login:">>} /\ ~c.sentLogin
      BY <1>2, <1>5, <1>7
    <3>5. KeepsWords(c, d)
      BY <2>2, <3>1, <3>2 DEF Alike, KeepsWords
    <3> QED
      BY <3>1, <3>2, <3>3, <3>4, <3>5 DEF Alike, LogsIn
  <2>5. d.out # <<>>
    BY <2>4, TypesOne DEF LogsIn
  <2> QED
    BY <2>2, <2>3, <2>4, <2>5
<1>8. CASE found = "password"
  <2>1. d = SendPassword(c) /\ Begins(text, "password:") /\ ~c.sent
    BY <1>2, <1>4, <1>5, <1>8
  <2>2. d \in Commands /\ Harmless(d) /\ GivesPassword(c, text, d)
    BY <2>1, PasswordAnswer
  <2>3. d.out # <<>>
    BY <2>2, TypesOne DEF GivesPassword
  <2> QED
    BY <2>2, <2>3
<1>9. CASE found = "connected"
  <2>1. d = enter /\ Begins(text, "connected")
    BY <1>2, <1>4, <1>5, <1>9
  <2>2. Harmless(d)
    BY <2>1, <1>3 DEF Harmless, Alike
  <2>3. Enters(c, text, d)
    BY <2>1, <1>3 DEF Alike, Enters
  <2>4. d.out # <<>>
    BY <2>3, TypesOne DEF Enters
  <2> QED
    BY <2>1, <2>2, <2>3, <2>4, <1>3
<1>10. CASE found \notin {"failure", "login", "password", "connected"}
  <2>1. d = c
    BY <1>4, <1>10
  <2>2. text \notin {<<"disconnected">>, <<"denied">>}
    BY <1>2, <1>5, <1>10
  <2>3. GenericIgnores(c, text)
    BY <1>2, <1>5, <1>10 DEF GenericIgnores
  <2> QED
    BY <2>1, <2>2, <2>3
<1> QED
  BY <1>6, <1>7, <1>8, <1>9, <1>10

\* CommandChangingPrompt.on_new_line() looks for a prompt, in four ways.
LEMMA PromptAnswers ==
    ASSUME NEW c \in Commands, c.out = <<>>, Harmless(c), NEW text \in LineTexts,
           NEW full \in BOOLEAN, NEW d, d = PromptLooks(c, text, full)
    PROVE  /\ d \in Commands /\ Harmless(d)
           /\ \/ d = c
              \/ Succeeds(c, text, d)
              \/ TriesAgain(c, text, d)
              \/ Sets(c, text, d)
           /\ full \/ d.out # <<>> \/ d.outcome # "running" \/ PromptIgnores(c, text)
<1> DEFINE b1 == /\ Has(text, ExpectedPrompt) /\ (~full \/ setup.newlineAfterPrompt)
                 /\ ~c.sent /\ c.afterLogin = <<>>
           b2 == c.stored /\ Has(text, "local")
           b3 == ~c.sent /\ c.whenPrompt # <<>> /\ Has(text, "local")
           b4 == ~c.sent /\ c.afterLogin # <<>> /\ Has(text, PromptAfterLogin)
           n1 == "final"  n2 == "exception"  n3 == "prompt"  n4 == "after login"
           tests == << <<n1, b1>>, <<n2, b2>>, <<n3, b3>>, <<n4, b4>> >>
           found == FirstOf(tests)
           again == Send(c, "local", Head(c.whenPrompt))
           sets == Send(c, "shell", Head(c.afterLogin))
<1>1. b1 \in BOOLEAN /\ b2 \in BOOLEAN /\ b3 \in BOOLEAN /\ b4 \in BOOLEAN
  BY DEF Commands
<1>2. /\ b1 => Begins(text, "remote")
      /\ ~full /\ Begins(text, "remote") /\ ~c.sent /\ c.afterLogin = <<>> => b1
      /\ b2 <=> c.stored /\ Begins(text, "local")
      /\ b3 <=> ~c.sent /\ c.whenPrompt # <<>> /\ Begins(text, "local")
      /\ ~c.sent /\ c.afterLogin # <<>> /\ setup.twoPrompts /\ Begins(text, "first") => b4
      /\ ~c.sent /\ c.afterLogin # <<>> /\ ~setup.twoPrompts /\ Begins(text, "remote") => b4
      /\ b4 => (Begins(text, "remote") \/ Begins(text, "first")) /\ c.afterLogin # <<>>
  <2>1. /\ Has(text, "remote") <=> Begins(text, "remote")
        /\ Has(text, "first") <=> Begins(text, "first")
        /\ Has(text, "local") <=> Begins(text, "local")
    BY Tests DEF Looked, Prompts
  <2> QED
    BY <2>1 DEF ExpectedPrompt, PromptAfterLogin, Commands
<1>3. d = CASE found \in {"final", "exception"} -> Done(c)
            [] found = "prompt" -> [again EXCEPT !.whenPrompt = Tail(@)]
            [] found = "after login" -> [sets EXCEPT !.afterLogin = Tail(@)]
            [] OTHER -> c
  BY DEF PromptLooks
<1> HIDE DEF b1, b2, b3, b4, again, sets
<1>4. /\ found = "final" => b1
      /\ found = "exception" => b2
      /\ found = "prompt" => b3
      /\ found = "after login" => b4
      /\ b2 => found \in {"final", "exception"}
      /\ found \notin {"final", "exception", "prompt", "after login"}
           => ~b1 /\ ~b2 /\ ~b3 /\ ~b4
  <2> HIDE DEF n1, n2, n3, n4
  <2>1. /\ DOMAIN tests = {1, 2, 3, 4}
        /\ tests[1] = <<n1, b1>> /\ tests[2] = <<n2, b2>>
        /\ tests[3] = <<n3, b3>> /\ tests[4] = <<n4, b4>>
    OBVIOUS
  <2>2. /\ tests[1][1] = n1 /\ tests[2][1] = n2 /\ tests[3][1] = n3 /\ tests[4][1] = n4
        /\ tests[1][2] = b1 /\ tests[2][2] = b2 /\ tests[3][2] = b3 /\ tests[4][2] = b4
    BY <2>1
  <2> HIDE DEF tests
  <2>3. /\ b1 => found = n1
        /\ ~b1 /\ b2 => found = n2
        /\ ~b1 /\ ~b2 /\ b3 => found = n3
        /\ ~b1 /\ ~b2 /\ ~b3 /\ b4 => found = n4
        /\ ~b1 /\ ~b2 /\ ~b3 /\ ~b4 => found = "nothing"
    BY <2>1, <2>2, FirstOfFour
  <2> HIDE DEF found
  <2> QED
    BY <2>3 DEF n1, n2, n3, n4
<1> HIDE DEF found
<1>5. CASE found \in {"final", "exception"}
  <2>1. d = Done(c) /\ (Begins(text, "remote") \/ (Begins(text, "local") /\ c.stored))
    BY <1>2, <1>3, <1>4, <1>5
  <2>2. d \in Commands /\ Harmless(d)
    <3>1. Done(c) \in Commands /\ Harmless(Done(c))
      BY Settled
    <3> QED
      BY <2>1, <3>1
  <2>3. /\ d.out = c.out /\ d.sent = c.sent
        /\ d.sentLogin = c.sentLogin /\ d.sentContinue = c.sentContinue
        /\ d.whenPrompt = c.whenPrompt /\ d.stored = c.stored
        /\ d.outcome = IF c.stored THEN "exception" ELSE "result"
        /\ KeepsWords(c, d)
    BY <2>1 DEF Done, Commands, KeepsWords
  <2>4. Succeeds(c, text, d)
    BY <2>1, <2>3 DEF Succeeds
  <2>5. d.outcome # "running"
    BY <2>3
  <2> QED
    BY <2>2, <2>4, <2>5
<1>6. CASE found = "prompt"
  <2> DEFINE word == Head(c.whenPrompt)
  <2>1. b3 /\ ~b2
    BY <1>4, <1>6
  <2>2. c.whenPrompt \in Seq(Words) /\ c.whenPrompt # <<>>
    BY <1>2, <2>1 DEF Commands
  <2>3. word \in Words /\ "local" \in Phases \cup {"any"}
    BY <2>2, HeadTailProperties DEF Phases
  <2>4. again \in Commands /\ Types(again, "local", word) /\ Alike(c, again) /\ again.sent
    BY <2>3, Typing DEF again
  <2>5. again.whenPrompt = c.whenPrompt /\ Tail(c.whenPrompt) \in Seq(Words)
    BY <2>2, <2>4, HeadTailProperties DEF Alike
  <2>6. d = [again EXCEPT !.whenPrompt = Tail(c.whenPrompt)]
    BY <1>3, <1>6, <2>5
  <2>7. /\ d \in Commands /\ d.out = again.out /\ d.sent = again.sent
        /\ d.sentLogin = again.sentLogin /\ d.sentContinue = again.sentContinue
        /\ d.stored = again.stored /\ d.outcome = again.outcome
        /\ d.passwords = again.passwords /\ d.afterLogin = again.afterLogin
        /\ d.lastPassword = again.lastPassword /\ d.resizeSent = again.resizeSent
        /\ d.whenPrompt = Tail(c.whenPrompt)
    BY <2>4, <2>5, <2>6 DEF Commands
  <2>8. Harmless(d)
    BY <2>4, <2>7 DEF Harmless, Alike
  <2>9. Begins(text, "local") /\ ~c.stored /\ ~c.sent /\ c.whenPrompt # <<>>
    BY <1>2, <2>1
  <2>10. TriesAgain(c, text, d)
    BY <2>3, <2>4, <2>7, <2>9 DEF TriesAgain, Types, Alike, KeepsWords
  <2>11. d.out # <<>>
    BY <2>10 DEF TriesAgain, Types
  <2> QED
    BY <2>7, <2>8, <2>10, <2>11
<1>7. CASE found = "after login"
  <2> DEFINE word == Head(c.afterLogin)  rest == Tail(c.afterLogin)
  <2>1. b4
    BY <1>4, <1>7
  <2>2. c.afterLogin \in Seq(Words) /\ c.afterLogin # <<>>
    BY <1>2, <2>1 DEF Commands
  <2>3. /\ word \in Words /\ word = c.afterLogin[1] /\ 1 \in DOMAIN c.afterLogin
        /\ rest \in Seq(Words)
        /\ \A i \in DOMAIN rest : i + 1 \in DOMAIN c.afterLogin /\ rest[i] = c.afterLogin[i + 1]
    BY <2>2, HeadTailProperties
  <2>4. "shell" \in Phases \cup {"any"}
    BY DEF Phases
  <2>5. sets \in Commands /\ Types(sets, "shell", word) /\ Alike(c, sets) /\ sets.sent
    BY <2>3, <2>4, Typing DEF sets
  <2>6. sets.afterLogin = c.afterLogin
    BY <2>5 DEF Alike
  <2>7. d = [sets EXCEPT !.afterLogin = rest]
    BY <1>3, <1>7, <2>6
  <2> HIDE DEF word, rest
  <2>8. /\ d \in Commands /\ d.out = sets.out /\ d.sent = sets.sent
        /\ d.sentLogin = sets.sentLogin /\ d.sentContinue = sets.sentContinue
        /\ d.stored = sets.stored /\ d.outcome = sets.outcome
        /\ d.whenPrompt = sets.whenPrompt
        /\ d.passwords = sets.passwords /\ d.afterLogin = rest
        /\ d.lastPassword = sets.lastPassword /\ d.resizeSent = sets.resizeSent
    BY <2>3, <2>5, <2>7 DEF Commands
  <2>9. word # "ssh" /\ \A i \in DOMAIN rest : rest[i] # "ssh"
    BY <2>3 DEF Harmless
  <2>10. Harmless(d)
    BY <2>5, <2>8, <2>9 DEF Harmless, Alike
  <2>11. Begins(text, "remote") \/ Begins(text, "first")
    BY <1>2, <2>1
  <2>12. Sets(c, text, d)
    BY <2>2, <2>3, <2>5, <2>8, <2>9, <2>11 DEF Sets, Types, Alike, word, rest
  <2>13. d.out # <<>>
    BY <2>12 DEF Sets, Types
  <2> QED
    BY <2>8, <2>10, <2>12, <2>13
<1>8. CASE found \notin {"final", "exception", "prompt", "after login"}
  <2>1. d = c /\ ~b1 /\ ~b2 /\ ~b3 /\ ~b4
    BY <1>3, <1>4, <1>8
  <2>2. full \/ PromptIgnores(c, text)
    BY <1>2, <2>1 DEF PromptIgnores
  <2> QED
    BY <2>1, <2>2
<1> QED
  BY <1>5, <1>6, <1>7, <1>8

\* A line that none of the tests looks for leaves the command as it is.
LEMMA GenericIsQuiet ==
    ASSUME NEW c, NEW text \in LineTexts,
           text \notin {<<"disconnected">>, <<"denied">>, <<"login:">>, <<"Last", "login:">>},
           ~Begins(text, "password:"), ~Begins(text, "connected")
    PROVE  GenericLooks(c, text) = c
<1> DEFINE b1 == IsFailure(text)
           b2 == ~c.sentLogin /\ IsLoginRequested(text)
           b3 == PasswordWanted(c, text)
           b4 == Has(text, "connected")
           n1 == "failure"  n2 == "login"  n3 == "password"  n4 == "connected"
           tests == << <<n1, b1>>, <<n2, b2>>, <<n3, b3>>, <<n4, b4>> >>
<1>1. ~b1 /\ ~b2 /\ ~b3 /\ ~b4
  BY Tests DEF Looked, Prompts, PasswordWanted
<1>2. b1 \in BOOLEAN /\ b2 \in BOOLEAN /\ b3 \in BOOLEAN /\ b4 \in BOOLEAN
  BY DEF Has, IsFailure, IsLoginRequested, PasswordWanted
<1>3. GenericLooks(c, text) = IF FirstOf(tests) = "nothing" THEN c ELSE GenericLooks(c, text)
  BY DEF GenericLooks
<1> HIDE DEF b1, b2, b3, b4, n1, n2, n3, n4
<1>4. /\ DOMAIN tests = {1, 2, 3, 4}
      /\ tests[1] = <<n1, b1>> /\ tests[2] = <<n2, b2>>
      /\ tests[3] = <<n3, b3>> /\ tests[4] = <<n4, b4>>
  OBVIOUS
<1>5. tests[1][2] = b1 /\ tests[2][2] = b2 /\ tests[3][2] = b3 /\ tests[4][2] = b4
  BY <1>4
<1> HIDE DEF tests
<1>6. ~tests[1][2] /\ ~tests[2][2] /\ ~tests[3][2] /\ ~tests[4][2]
  BY <1>1, <1>2, <1>5
<1>7. FirstOf(tests) = "nothing"
  BY <1>4, <1>6, FirstOfFour
<1> QED
  BY <1>3, <1>7

\* Nor does a line that ends in no prompt of a shell.
LEMMA PromptIsQuiet ==
    ASSUME NEW c, NEW text \in LineTexts, NEW full \in BOOLEAN,
           ~Begins(text, "remote"), ~Begins(text, "first"), ~Begins(text, "local")
    PROVE  PromptLooks(c, text, full) = c
<1> DEFINE b1 == /\ Has(text, ExpectedPrompt) /\ (~full \/ setup.newlineAfterPrompt)
                 /\ ~c.sent /\ c.afterLogin = <<>>
           b2 == c.stored /\ Has(text, "local")
           b3 == ~c.sent /\ c.whenPrompt # <<>> /\ Has(text, "local")
           b4 == ~c.sent /\ c.afterLogin # <<>> /\ Has(text, PromptAfterLogin)
           n1 == "final"  n2 == "exception"  n3 == "prompt"  n4 == "after login"
           tests == << <<n1, b1>>, <<n2, b2>>, <<n3, b3>>, <<n4, b4>> >>
<1>1. ~b1 /\ ~b2 /\ ~b3 /\ ~b4
  <2>1. ~Has(text, "remote") /\ ~Has(text, "first") /\ ~Has(text, "local")
    BY Tests DEF Looked, Prompts
  <2> QED
    BY <2>1 DEF ExpectedPrompt, PromptAfterLogin
<1>3. PromptLooks(c, text, full) =
        IF FirstOf(tests) = "nothing" THEN c ELSE PromptLooks(c, text, full)
  BY DEF PromptLooks
<1>2. b1 \in BOOLEAN /\ b2 \in BOOLEAN /\ b3 \in BOOLEAN /\ b4 \in BOOLEAN
  BY <1>1
<1> HIDE DEF b1, b2, b3, b4, n1, n2, n3, n4
<1>4. /\ DOMAIN tests = {1, 2, 3, 4}
      /\ tests[1] = <<n1, b1>> /\ tests[2] = <<n2, b2>>
      /\ tests[3] = <<n3, b3>> /\ tests[4] = <<n4, b4>>
  OBVIOUS
<1>5. tests[1][2] = b1 /\ tests[2][2] = b2 /\ tests[3][2] = b3 /\ tests[4][2] = b4
  BY <1>4
<1> HIDE DEF tests
<1>6. ~tests[1][2] /\ ~tests[2][2] /\ ~tests[3][2] /\ ~tests[4][2]
  BY <1>1, <1>2, <1>5
<1>7. FirstOf(tests) = "nothing"
  BY <1>4, <1>6, FirstOfFour
<1> QED
  BY <1>3, <1>7

\* What becomes of the command when it looks at a line: one answer at most, and of one kind.
Answers(c, text, d) ==
    \/ LooksOn(c, text, d) \/ Enters(c, text, d) \/ SaysYes(c, text, d)
    \/ RemovesKey(c, text, d) \/ Fails(c, text, d)
    \/ LogsIn(c, text, d) \/ GivesPassword(c, text, d)
    \/ Succeeds(c, text, d) \/ TriesAgain(c, text, d) \/ Sets(c, text, d)

\* A beginning of a line that is passed over was answered before, or nothing answers it.
Responds(text, full, d) ==
    full \/ d.out # <<>> \/ d.outcome # "running" \/ Ignores(cmd, text)
\* A line that says that the host does not take the key.
Denials == {<<"bad_key">>, <<"denied", "methods">>}

\* One call of on_new_line() answers, in one of the ways above, what the line begins with.
LEMMA LineIsAnswered ==
    ASSUME cmd \in Commands, cmd.out = <<>>, Harmless(cmd), setup \in Setups,
           NEW text \in LineTexts, NEW full \in BOOLEAN, NEW d \in OnNewLine(text, full)
    PROVE  \E e \in Commands : /\ d = ForgetSent(e, full)
                               /\ Harmless(e) /\ Answers(cmd, text, e)
                               /\ Responds(text, full, e)
<1> DEFINE one == IF setup.protocol = "ssh" THEN SshLooks(cmd, text) ELSE cmd
           two == GenericLooks(one, text)
           three == PromptLooks(two, text, full)
<1>1. d = ForgetSent(three, full)
  BY DEF OnNewLine
<1>2. /\ one \in Commands /\ Harmless(one)
      /\ \/ one = cmd /\ (text \in Denials => setup.protocol # "ssh")
         \/ Enters(cmd, text, one) /\ ~Begins(text, "connected")
         \/ SaysYes(cmd, text, one)
         \/ RemovesKey(cmd, text, one)
         \/ Fails(cmd, text, one) /\ text \in Denials
      /\ setup.protocol = "ssh" => one.out # <<>> \/ SshIgnores(cmd, text)
  <2>1. CASE setup.protocol = "ssh"
    BY <2>1, SshAnswers DEF Denials
  <2>2. CASE setup.protocol # "ssh"
    BY <2>2
  <2> QED
    BY <2>1, <2>2
<1> HIDE DEF one
<1>3. SUFFICES /\ three \in Commands /\ Harmless(three) /\ Answers(cmd, text, three)
               /\ Responds(text, full, three)
  BY <1>1
<1>4. \A a, b, c : <<c>> # <<a, b>>
  OBVIOUS
<1>5. CASE ~(one = cmd /\ (text \in Denials => setup.protocol # "ssh"))
  <2>1. \/ Begins(text, "resize") \/ Begins(text, "id_dsa") \/ Begins(text, "yes/no")
        \/ text \in Denials
    BY <1>2, <1>5 DEF Enters, SaysYes, RemovesKey, Denials
  <2>0. \/ Begins(text, "resize") \/ Begins(text, "id_dsa") \/ Begins(text, "yes/no")
        \/ Begins(text, "bad_key") \/ Begins(text, "denied")
    BY <2>1, Beginnings DEF Denials
  <2>2. /\ ~Begins(text, "remote") /\ ~Begins(text, "first") /\ ~Begins(text, "local")
        /\ ~Begins(text, "password:") /\ ~Begins(text, "connected")
    BY <2>0 DEF Begins
  <2>3. text \notin {<<"disconnected">>, <<"denied">>, <<"login:">>, <<"Last", "login:">>}
    <3>1. text # <<"denied">>
      <4>1. ASSUME text = <<"denied">> PROVE FALSE
        <5>1. Begins(text, "denied") /\ text # <<"denied", "methods">>
          BY <1>4, <4>1, Beginnings
        <5>2. text = <<"bad_key">>
          BY <2>1, <5>1 DEF Begins, Denials
        <5> QED
          BY <5>1, <5>2, Beginnings DEF Begins
      <4> QED
        BY <4>1
    <3>2. ~Begins(text, "disconnected") /\ ~Begins(text, "login:") /\ ~Begins(text, "Last")
      BY <2>0 DEF Begins
    <3> QED
      BY <3>1, <3>2, Beginnings
  <2>4. two = one
    BY <2>2, <2>3, GenericIsQuiet
  <2>5. three = one
    BY <2>2, <2>4, PromptIsQuiet
  <2>6. Answers(cmd, text, one)
    BY <1>2, <1>5 DEF Answers
  <2>7. GenericIgnores(cmd, text) /\ PromptIgnores(cmd, text)
    BY <2>2, <2>3 DEF GenericIgnores, PromptIgnores
  <2>8. Responds(text, full, one)
    BY <1>2, <2>7 DEF Responds, Ignores
  <2> HIDE DEF two, three
  <2> QED
    BY <1>2, <2>5, <2>6, <2>8
<1>6. CASE one = cmd /\ (text \in Denials => setup.protocol # "ssh")
  <2>1. /\ two \in Commands /\ Harmless(two)
        /\ \/ two = cmd /\ text \notin {<<"disconnected">>, <<"denied">>}
           \/ Fails(cmd, text, two) /\ text \in {<<"disconnected">>, <<"denied">>}
           \/ LogsIn(cmd, text, two)
           \/ GivesPassword(cmd, text, two)
           \/ Enters(cmd, text, two) /\ Begins(text, "connected")
        /\ two.out # <<>> \/ GenericIgnores(cmd, text)
    BY <1>6, GenericAnswers
  <2> HIDE DEF two
  <2>2. CASE ~(two = cmd /\ text \notin {<<"disconnected">>, <<"denied">>})
    <3>1. \/ text \in {<<"disconnected">>, <<"denied">>, <<"login:">>, <<"Last", "login:">>}
          \/ Begins(text, "password:") \/ Begins(text, "connected")
      BY <2>1, <2>2 DEF LogsIn, GivesPassword
    <3>2. ~Begins(text, "remote") /\ ~Begins(text, "first") /\ ~Begins(text, "local")
      BY <3>1, Beginnings DEF Begins
    <3>3. three = two
      BY <3>2, PromptIsQuiet
    <3>4. Answers(cmd, text, two)
      BY <2>1, <2>2 DEF Answers
    <3>5. SshIgnores(cmd, text)
      <4>1. ~Begins(text, "resize") /\ ~Begins(text, "yes/no")
        BY <3>1, Beginnings DEF Begins
      <4> QED
        BY <4>1 DEF SshIgnores
    <3>6. Responds(text, full, two)
      BY <2>1, <3>2, <3>5 DEF Responds, Ignores, PromptIgnores
    <3> HIDE DEF three
    <3> QED
      BY <2>1, <3>3, <3>4, <3>6
  <2>3. CASE two = cmd /\ text \notin {<<"disconnected">>, <<"denied">>}
    <3>1. text # <<"disconnected">>
      BY <2>3
    <3>2. /\ three \in Commands /\ Harmless(three)
          /\ \/ three = cmd
             \/ Succeeds(cmd, text, three)
             \/ TriesAgain(cmd, text, three)
             \/ Sets(cmd, text, three)
          /\ \/ full \/ three.out # <<>> \/ three.outcome # "running"
             \/ PromptIgnores(cmd, text)
      BY <2>3, PromptAnswers
    <3> HIDE DEF three
    <3>3. LooksOn(cmd, text, cmd)
      BY <1>6, <3>1 DEF LooksOn, Denials
    <3>4. Answers(cmd, text, three)
      BY <3>2, <3>3 DEF Answers
    <3>5. GenericIgnores(cmd, text) /\ (setup.protocol = "ssh" => SshIgnores(cmd, text))
      BY <1>2, <1>6, <2>1, <2>3
    <3>6. Responds(text, full, three)
      BY <3>2, <3>5 DEF Responds, Ignores
    <3> QED
      BY <3>2, <3>4, <3>6
  <2> QED
    BY <2>2, <2>3
<1> QED
  BY <1>5, <1>6

-----------------------------------------------------------------------------
(* A chunk comes.                                                           *)

\* The beginning of a sequence, and the rest of it.
LEMMA PrefixIs ==
    ASSUME NEW S, NEW t \in Seq(S), NEW m \in 0..Len(t)
    PROVE  /\ SubSeq(t, 1, m) \in Seq(S) /\ Len(SubSeq(t, 1, m)) = m
           /\ \A i \in 1..m : SubSeq(t, 1, m)[i] = t[i]
BY SubSeqProperties

\* What is left of a sequence behind its first m elements.
LEMMA RestIs ==
    ASSUME NEW t \in Seq(Tokens), NEW m \in 0..Len(t)
    PROVE  LET rest == SubSeq(t, m + 1, Len(t))
           IN  /\ rest \in Seq(Tokens) /\ Len(rest) = Len(t) - m
               /\ \A i \in 1..(Len(t) - m) : rest[i] = t[i + m]
               /\ (rest = <<>>) <=> m = Len(t)
<1> DEFINE rest == SubSeq(t, m + 1, Len(t))
<1>1. Len(t) \in Nat /\ m \in Nat /\ m <= Len(t) /\ m + 1 \in Int
  OBVIOUS
<1>2. \A i \in (m + 1)..Len(t) : t[i] \in Tokens
  <2>1. \A i \in (m + 1)..Len(t) : i \in 1..Len(t)
    BY <1>1
  <2> QED
    BY <2>1, ElementOfSeq
<1>3. /\ rest \in Seq(Tokens)
      /\ Len(rest) = IF m + 1 <= Len(t) THEN Len(t) - (m + 1) + 1 ELSE 0
      /\ \A i \in 1..(Len(t) - (m + 1) + 1) : rest[i] = t[(m + 1) + i - 1]
  BY <1>1, <1>2, PrefixIs
<1> HIDE DEF rest
<1>4. Len(rest) = Len(t) - m
  BY <1>1, <1>3
<1>5. \A i \in 1..(Len(t) - m) : rest[i] = t[i + m]
  <2>1. SUFFICES ASSUME NEW i \in 1..(Len(t) - m) PROVE rest[i] = t[i + m]
    OBVIOUS
  <2>2. i \in 1..(Len(t) - (m + 1) + 1) /\ (m + 1) + i - 1 = i + m
    BY <1>1
  <2> QED
    BY <1>3, <2>2
<1>6. rest = <<>> <=> Len(rest) = 0
  BY <1>3, EmptySeq
<1>7. rest = <<>> <=> m = Len(t)
  BY <1>1, <1>4, <1>6
<1> QED
  BY <1>3, <1>4, <1>5, <1>7 DEF rest

\* All that was printed and is not behind the command: what it looks at, then what is to come.
LEMMA TextIs ==
    ASSUME line \in Seq(Tokens), wire \in Seq(Tokens)
    PROVE  /\ Text \in Seq(Tokens) /\ Len(Text) = Len(line) + Len(wire)
           /\ \A i \in 1..Len(line) : Text[i] = line[i]
           /\ \A i \in 1..Len(wire) : Text[Len(line) + i] = wire[i]
           /\ Len(line) \in Nat /\ Len(wire) \in Nat /\ DOMAIN Text = 1..Len(Text)
           /\ DOMAIN line = 1..Len(line) /\ DOMAIN wire = 1..Len(wire)
<1>1. \A i \in 1..Len(wire) : (Len(line) + i) - Len(line) = i /\ Len(line) + i > Len(line)
                              /\ Len(line) + i \in 1..(Len(line) + Len(wire))
  OBVIOUS
<1>2. /\ Text \in Seq(Tokens) /\ Len(Text) = Len(line) + Len(wire)
      /\ \A i \in 1..(Len(line) + Len(wire)) :
            Text[i] = IF i <= Len(line) THEN line[i] ELSE wire[i - Len(line)]
  BY ConcatProperties DEF Text
<1> HIDE DEF Text
<1>3. ASSUME NEW i \in 1..Len(wire) PROVE Text[Len(line) + i] = wire[i]
  <2>1. /\ Len(line) + i \in 1..(Len(line) + Len(wire)) /\ ~(Len(line) + i <= Len(line))
        /\ (Len(line) + i) - Len(line) = i
    BY <1>1
  <2> QED
    BY <1>2, <2>1
<1> QED
  BY <1>2, <1>3

\* Where the line that is looked at ends, and what is left of the text.
LineEnds(k, full) ==
    /\ k \in 0..Len(Text) /\ Len(line) <= k /\ \A i \in 1..k : Text[i] # Newline
    /\ wire # <<>>
    /\ ~full => /\ line' = SubSeq(Text, 1, k) /\ k > Len(line)
                /\ Text' = Text /\ (k = Len(Text) <=> wire' = <<>>)
    /\ full => /\ line' = <<>> /\ k < Len(Text) /\ Text[k + 1] = Newline
               /\ Text' = SubSeq(Text, k + 2, Len(Text)) /\ wire' = Text'
               /\ Len(Text') = Len(Text) - (k + 1)
               /\ \A i \in 1..(Len(Text) - (k + 1)) : Text'[i] = Text[i + (k + 1)]
Received(k, full) ==
    \E e \in Commands :
        /\ SubSeq(Text, 1, k) \in LineTexts
        /\ Harmless(e) /\ Answers(cmd, SubSeq(Text, 1, k), e)
        /\ Responds(SubSeq(Text, 1, k), full, e)
        /\ cmd' = [ForgetSent(e, full) EXCEPT !.out = <<>>]
        /\ typed' = typed \o e.out
        /\ excused => excused'
        /\ ~excused' => SubSeq(Text, 1, k) \notin {<<"denied">>, <<"Last", "login:">>}

\* A chunk that ends anywhere in what is to come ends a line or a beginning of it.
LEMMA Cut ==
    ASSUME line \in Seq(Tokens), wire \in Seq(Tokens), NEW n \in DOMAIN wire
    PROVE  LET m == Len(line) + n
               grown == line \o SubSeq(wire, 1, n)
               rest == SubSeq(wire, n + 1, Len(wire))
           IN  /\ m \in 1..Len(Text) /\ m > Len(line)
               /\ grown = SubSeq(Text, 1, m) /\ Last(grown) = Text[m]
               /\ Front(grown) = SubSeq(Text, 1, m - 1)
               /\ rest = SubSeq(Text, m + 1, Len(Text)) /\ rest \in Seq(Tokens)
               /\ Len(rest) = Len(Text) - m
               /\ \A i \in 1..(Len(Text) - m) : rest[i] = Text[i + m]
               /\ grown \o rest = Text
               /\ (rest = <<>>) <=> m = Len(Text)
               /\ ~Has(SubSeq(wire, 1, n - 1), Newline)
                    => \A i \in (Len(line) + 1)..(m - 1) : Text[i] # Newline
<1> DEFINE l == Len(line)  w == Len(wire)  m == l + n
           first == SubSeq(wire, 1, n)
           grown == line \o first
           rest == SubSeq(wire, n + 1, w)
<1>1. /\ Text \in Seq(Tokens) /\ Len(Text) = l + w /\ l \in Nat /\ w \in Nat /\ n \in 1..w
      /\ \A i \in 1..l : Text[i] = line[i]
      /\ \A i \in 1..w : Text[l + i] = wire[i]
  BY TextIs
<1>2. /\ m \in 1..Len(Text) /\ m \in 0..Len(Text) /\ m > l /\ m - 1 \in 0..Len(Text)
      /\ n \in 0..Len(wire)
  BY <1>1
<1>3. /\ first \in Seq(Tokens) /\ Len(first) = n /\ \A i \in 1..n : first[i] = wire[i]
  BY <1>1, PrefixIs
<1>4. /\ rest \in Seq(Tokens) /\ Len(rest) = w - n
      /\ \A i \in 1..(w - n) : rest[i] = wire[i + n]
  <2>1. wire \in Seq(Tokens) /\ n \in 0..Len(wire)
    BY <1>2
  <2> QED
    <3>1. /\ SubSeq(wire, n + 1, Len(wire)) \in Seq(Tokens)
          /\ Len(SubSeq(wire, n + 1, Len(wire))) = Len(wire) - n
          /\ \A i \in 1..(Len(wire) - n) : SubSeq(wire, n + 1, Len(wire))[i] = wire[i + n]
      <4> HIDE DEF m, first, grown, rest
      <4> QED
        BY <2>1, RestIs
    <3> QED
      BY <3>1
<1> HIDE DEF first, rest
<1>5. /\ grown \in Seq(Tokens) /\ Len(grown) = m
      /\ \A i \in 1..m : grown[i] = IF i <= l THEN line[i] ELSE first[i - l]
  BY <1>1, <1>3, ConcatProperties
<1> HIDE DEF grown
<1>6. \A i \in 1..m : grown[i] = Text[i]
  <2>1. SUFFICES ASSUME NEW i \in 1..m PROVE grown[i] = Text[i]
    OBVIOUS
  <2>2. CASE i <= l
    <3>1. i \in 1..l
      BY <1>1, <2>2
    <3> QED
      BY <1>1, <1>5, <2>2, <3>1
  <2>3. CASE ~(i <= l)
    <3>1. i - l \in 1..n /\ i - l \in 1..w /\ l + (i - l) = i
      BY <1>1, <2>3
    <3>2. grown[i] = wire[i - l]
      BY <1>3, <1>5, <2>3, <3>1
    <3>3. Text[l + (i - l)] = wire[i - l]
      BY <1>1, <3>1
    <3> QED
      BY <3>1, <3>2, <3>3
  <2> QED
    BY <2>2, <2>3
<1>7. /\ SubSeq(Text, 1, m) \in Seq(Tokens) /\ Len(SubSeq(Text, 1, m)) = m
      /\ \A i \in 1..m : SubSeq(Text, 1, m)[i] = Text[i]
  BY <1>1, <1>2, PrefixIs
<1>8. grown = SubSeq(Text, 1, m)
  BY <1>5, <1>6, <1>7, SeqEqual
<1>9. Last(grown) = Text[m]
  BY <1>2, <1>5, <1>6 DEF Last
<1>10. Front(grown) = SubSeq(Text, 1, m - 1)
  <2>1. Front(grown) = SubSeq(grown, 1, m - 1)
    BY <1>5 DEF Front
  <2>2. /\ SubSeq(grown, 1, m - 1) \in Seq(Tokens) /\ Len(SubSeq(grown, 1, m - 1)) = m - 1
        /\ \A i \in 1..(m - 1) : SubSeq(grown, 1, m - 1)[i] = grown[i]
    BY <1>2, <1>5, PrefixIs
  <2>3. /\ SubSeq(Text, 1, m - 1) \in Seq(Tokens) /\ Len(SubSeq(Text, 1, m - 1)) = m - 1
        /\ \A i \in 1..(m - 1) : SubSeq(Text, 1, m - 1)[i] = Text[i]
    BY <1>1, <1>2, PrefixIs
  <2>4. \A i \in 1..(m - 1) : i \in 1..m
    BY <1>2
  <2>5. SubSeq(grown, 1, m - 1) = SubSeq(Text, 1, m - 1)
    BY <1>6, <2>2, <2>3, <2>4, SeqEqual
  <2> QED
    BY <2>1, <2>5
<1>11. Len(rest) = Len(Text) - m /\ \A i \in 1..(Len(Text) - m) : rest[i] = Text[i + m]
  <2>1. Len(Text) - m = w - n
    BY <1>1
  <2>2. ASSUME NEW i \in 1..(w - n) PROVE rest[i] = Text[i + m]
    <3>1. i + n \in 1..w /\ i + m = l + (i + n)
      BY <1>1
    <3>2. Text[l + (i + n)] = wire[i + n]
      BY <1>1, <3>1
    <3> QED
      BY <1>4, <3>1, <3>2
  <2> QED
    BY <1>4, <2>1, <2>2
<1>12. rest = SubSeq(Text, m + 1, Len(Text)) /\ (rest = <<>> <=> m = Len(Text))
  <2> DEFINE tail == SubSeq(Text, m + 1, Len(Text))
  <2>1. /\ tail \in Seq(Tokens) /\ Len(tail) = Len(Text) - m
        /\ \A i \in 1..(Len(Text) - m) : tail[i] = Text[i + m]
        /\ (tail = <<>>) <=> m = Len(Text)
    BY <1>1, <1>2, RestIs
  <2> HIDE DEF tail
  <2>2. rest = tail
    BY <1>4, <1>11, <2>1, SeqEqual
  <2> QED
    BY <2>1, <2>2 DEF tail
<1>13. grown \o rest = Text
  <2>1. /\ 1 \in 1..(Len(Text) + 1) /\ m \in (1 - 1)..Len(Text) /\ Len(Text) \in m..Len(Text)
    BY <1>1, <1>2
  <2>2. SubSeq(Text, 1, m) \o SubSeq(Text, m + 1, Len(Text)) = SubSeq(Text, 1, Len(Text))
    BY <1>1, <2>1, ConcatAdjacentSubSeq
  <2> QED
    BY <1>1, <1>8, <1>12, <2>2, SubSeqFull
<1>15. ASSUME ~Has(SubSeq(wire, 1, n - 1), Newline), NEW i \in (l + 1)..(m - 1)
       PROVE  Text[i] # Newline
  <2>1. i - l \in 1..(n - 1) /\ i - l \in 1..w /\ l + (i - l) = i /\ n - 1 \in 0..w
    BY <1>1
  <2>2. /\ DOMAIN SubSeq(wire, 1, n - 1) = 1..(n - 1)
        /\ \A j \in 1..(n - 1) : SubSeq(wire, 1, n - 1)[j] = wire[j]
    <3>1. wire \in Seq(Tokens) /\ n - 1 \in 0..Len(wire)
      BY <2>1
    <3>2. /\ SubSeq(wire, 1, n - 1) \in Seq(Tokens) /\ Len(SubSeq(wire, 1, n - 1)) = n - 1
          /\ \A j \in 1..(n - 1) : SubSeq(wire, 1, n - 1)[j] = wire[j]
      BY <3>1, PrefixIs
    <3> QED
      BY <3>2
  <2>3. wire[i - l] # Newline
    BY <1>15, <2>1, <2>2 DEF Has, ToSet
  <2>4. Text[l + (i - l)] = wire[i - l]
    BY <1>1, <2>1
  <2> QED
    BY <2>1, <2>3, <2>4
<1> QED
  BY <1>2, <1>4, <1>8, <1>9, <1>10, <1>11, <1>12, <1>13, <1>15 DEF grown, first, rest

\* A sequence ends with itself.
LEMMA SuffixIsItself == IsSuffix(<<"Last", "login:">>, <<"Last", "login:">>)
<1>1. \A t : Len(Reverse(t)) \in Nat => IsSuffix(t, t)
  BY DEF IsSuffix, IsPrefix
<1>2. Len(Reverse(<<"Last", "login:">>)) = 2
  BY DEF Reverse
<1> QED
  BY <1>1, <1>2

\* data_received() looks at the lines one by one; each look is at a line or a beginning of it.
LEMMA ReceiveIs ==
    ASSUME TypeInv, TextInv, Receive
    PROVE  /\ \E k \in Nat, full \in BOOLEAN : LineEnds(k, full) /\ Received(k, full)
           /\ cmd.outcome = "running" /\ UNCHANGED <<setup, far, misread, lost>>
<1>1. /\ line \in Seq(Tokens) /\ wire \in Seq(Tokens) /\ cmd \in Commands /\ cmd.out = <<>>
      /\ Harmless(cmd) /\ setup \in Setups /\ excused \in BOOLEAN
  BY DEF TypeInv
<1>2. PICK n \in DOMAIN wire :
        /\ ~Has(SubSeq(wire, 1, n - 1), Newline)
        /\ LET grown == line \o SubSeq(wire, 1, n)
               full == Last(grown) = Newline
               text == IF full THEN Front(grown) ELSE grown
           IN /\ \E looked \in OnNewLine(text, full) :
                    cmd' = [looked EXCEPT !.out = <<>>] /\ typed' = typed \o looked.out
              /\ line' = IF full THEN <<>> ELSE grown
              /\ excused' = (excused \/ (~full /\ (Last(text) = "denied"
                                                   \/ IsSuffix(<<"Last", "login:">>, text))))
        /\ wire' = SubSeq(wire, n + 1, Len(wire))
  BY DEF Receive
<1> DEFINE m == Len(line) + n
           grown == line \o SubSeq(wire, 1, n)
           rest == SubSeq(wire, n + 1, Len(wire))
           full == Text[m] = Newline
           k == IF full THEN m - 1 ELSE m
           text == SubSeq(Text, 1, k)
<1>3. /\ Text \in Seq(Tokens) /\ Len(Text) = Len(line) + Len(wire)
      /\ \A i \in 1..Len(line) : Text[i] = line[i]
      /\ Len(line) \in Nat /\ Len(wire) \in Nat /\ DOMAIN line = 1..Len(line)
  BY <1>1, TextIs
<1>4. /\ m \in 1..Len(Text) /\ m > Len(line)
      /\ grown = SubSeq(Text, 1, m) /\ Last(grown) = Text[m]
      /\ Front(grown) = SubSeq(Text, 1, m - 1)
      /\ rest = SubSeq(Text, m + 1, Len(Text)) /\ rest \in Seq(Tokens)
      /\ Len(rest) = Len(Text) - m
      /\ \A i \in 1..(Len(Text) - m) : rest[i] = Text[i + m]
      /\ grown \o rest = Text
      /\ (rest = <<>>) <=> m = Len(Text)
      /\ ~Has(SubSeq(wire, 1, n - 1), Newline)
           => \A i \in (Len(line) + 1)..(m - 1) : Text[i] # Newline
  BY <1>1, Cut
<1> HIDE DEF m, grown, rest
<1>5. \A i \in 1..(m - 1) : Text[i] # Newline
  <2>1. \A i \in DOMAIN line : line[i] # Newline
    BY DEF TextInv
  <2>2. \A i \in 1..(m - 1) : i \in 1..Len(line) \/ i \in (Len(line) + 1)..(m - 1)
    BY <1>3, <1>4
  <2> QED
    BY <1>2, <1>3, <1>4, <2>1, <2>2
<1>6. k \in 0..Len(Text) /\ k \in Nat /\ Len(line) <= k /\ \A i \in 1..k : Text[i] # Newline
  <2>1. m \in Nat /\ m >= 1 /\ m <= Len(Text) /\ Len(line) < m /\ Len(line) \in Nat
        /\ Len(Text) \in Nat
    BY <1>3, <1>4
  <2>2. CASE full
    <3>1. k = m - 1
      BY <2>2
    <3> QED
      BY <1>5, <2>1, <3>1
  <2>3. CASE ~full
    <3>1. k = m /\ Text[m] # Newline
      BY <2>3
    <3>2. \A i \in 1..m : i \in 1..(m - 1) \/ i = m
      BY <2>1
    <3>3. \A i \in 1..k : Text[i] # Newline
      BY <1>5, <3>1, <3>2
    <3> QED
      BY <2>1, <3>1, <3>3
  <2> QED
    BY <2>2, <2>3
<1>7. /\ \E looked \in OnNewLine(text, full) :
            cmd' = [looked EXCEPT !.out = <<>>] /\ typed' = typed \o looked.out
      /\ line' = IF full THEN <<>> ELSE grown
      /\ excused' = (excused \/ (~full /\ (Last(text) = "denied"
                                           \/ IsSuffix(<<"Last", "login:">>, text))))
      /\ wire' = rest
  <2>1. full <=> Last(grown) = Newline
    BY <1>4
  <2>2. (IF full THEN Front(grown) ELSE grown) = text
    BY <1>4
  <2> HIDE DEF full, text
  <2> QED
    BY <1>2, <2>1, <2>2 DEF grown, rest
<1>8. Chained(Text)
  BY DEF TextInv
<1>9. text \in LineTexts
  BY <1>3, <1>6, <1>8, LineShape
<1>10. /\ text \in Seq(Tokens) /\ Len(text) = k /\ \A i \in 1..k : text[i] = Text[i]
  BY <1>3, <1>6, PrefixIs
<1>11. LineEnds(k, full)
  <2>1. wire # <<>>
    BY <1>1
  <2>2. CASE full
    <3>1. k = m - 1 /\ k + 1 = m /\ k + 2 = m + 1 /\ k < Len(Text)
      BY <1>3, <1>4, <2>2
    <3>2. line' = <<>> /\ wire' = rest
      BY <1>7, <2>2
    <3>3. Text' = rest
      <4>1. <<>> \o rest = rest
        BY <1>4, ConcatEmptySeq
      <4> QED
        BY <3>2, <4>1 DEF Text
    <3> HIDE DEF k
    <3> QED
      BY <1>4, <1>6, <2>1, <2>2, <3>1, <3>2, <3>3 DEF LineEnds
  <2>3. CASE ~full
    <3>1. k = m /\ k > Len(line)
      BY <1>4, <2>3
    <3>2. line' = grown /\ wire' = rest
      BY <1>7, <2>3
    <3>3. Text' = Text
      BY <1>4, <3>2 DEF Text
    <3> HIDE DEF k
    <3> QED
      BY <1>4, <1>6, <2>1, <2>3, <3>1, <3>2, <3>3 DEF LineEnds
  <2> QED
    BY <2>2, <2>3
<1>12. Received(k, full)
  <2>1. PICK looked \in OnNewLine(text, full) :
            cmd' = [looked EXCEPT !.out = <<>>] /\ typed' = typed \o looked.out
    BY <1>7
  <2>2. full \in BOOLEAN
    OBVIOUS
  <2>3. PICK e \in Commands : /\ looked = ForgetSent(e, full) /\ Harmless(e)
                              /\ Answers(cmd, text, e) /\ Responds(text, full, e)
    <3> HIDE DEF text, full
    <3> QED
      BY <1>1, <1>9, <2>2, LineIsAnswered
  <2>4. looked.out = e.out
    BY <2>3 DEF ForgetSent, Commands
  <2>5. ~excused' => text \notin {<<"denied">>, <<"Last", "login:">>}
    <3>1. CASE full
      <4>1. k + 1 \in 1..Len(Text) /\ Text[k + 1] = Newline
        BY <1>11, <3>1 DEF LineEnds
      <4>2. ASSUME text = <<"denied">> PROVE FALSE
        <5>1. k = 1 /\ Text[1] = "denied"
          <6> HIDE DEF text, k
          <6>1. Len(text) = 1 /\ text[1] = "denied"
            BY <4>2
          <6>2. k = 1 /\ 1 \in 1..k
            BY <1>10, <6>1
          <6> QED
            BY <1>10, <6>1, <6>2
        <5>2. Follows(Text[1], Text[2]) /\ Text[2] = Newline
          BY <1>3, <1>8, <4>1, <5>1 DEF Chained
        <5> QED
          BY <5>1, <5>2 DEF Follows, Newline
      <4>3. ASSUME text = <<"Last", "login:">> PROVE FALSE
        <5>1. k = 2 /\ Text[1] = "Last"
          <6> HIDE DEF text, k
          <6>1. Len(text) = 2 /\ text[1] = "Last"
            BY <4>3
          <6>2. k = 2 /\ 1 \in 1..k
            BY <1>10, <6>1
          <6> QED
            BY <1>10, <6>1, <6>2
        <5>2. Text[3] = "date" /\ Text[3] = Newline
          BY <1>3, <1>8, <4>1, <5>1 DEF Chained
        <5> QED
          BY <5>2 DEF Newline
      <4> QED
        BY <4>2, <4>3
    <3>2. CASE ~full
      <4>1. text = <<"denied">> => Last(text) = "denied"
        <5> HIDE DEF text
        <5> QED
          BY DEF Last
      <4>2. text = <<"Last", "login:">> => IsSuffix(<<"Last", "login:">>, text)
        BY SuffixIsItself
      <4> QED
        BY <1>7, <3>2, <4>1, <4>2
    <3> QED
      BY <3>1, <3>2
  <2>6. excused => excused'
    BY <1>7
  <2> HIDE DEF k, full
  <2> QED
    BY <1>9, <2>1, <2>3, <2>4, <2>5, <2>6 DEF Received
<1>13. full \in BOOLEAN
  OBVIOUS
<1>14. cmd.outcome = "running" /\ UNCHANGED <<setup, far, misread, lost>>
  BY DEF Receive
<1> QED
  BY <1>6, <1>11, <1>12, <1>13, <1>14

\* When a line is complete, what was sent for it is forgotten, and nothing else.
LEMMA CommandAfter ==
    ASSUME NEW e \in Commands, NEW full \in BOOLEAN,
           cmd' = [ForgetSent(e, full) EXCEPT !.out = <<>>]
    PROVE  /\ cmd' \in Commands /\ cmd'.out = <<>> /\ (Harmless(e) => Harmless(cmd)')
           /\ cmd'.sent = (e.sent /\ ~full)
           /\ cmd'.sentLogin = e.sentLogin /\ cmd'.sentContinue = e.sentContinue
           /\ cmd'.whenPrompt = e.whenPrompt /\ cmd'.stored = e.stored
           /\ cmd'.outcome = e.outcome /\ KeepsWords(e, cmd')
<1> DEFINE d == ForgetSent(e, full)  c == [d EXCEPT !.out = <<>>]
<1>1. d = IF full THEN [e EXCEPT !.sent = FALSE] ELSE e
  BY DEF ForgetSent
<1> HIDE DEF d
<1>2. /\ d \in Commands /\ d.sent = (e.sent /\ ~full)
      /\ d.sentLogin = e.sentLogin /\ d.sentContinue = e.sentContinue
      /\ d.whenPrompt = e.whenPrompt /\ d.stored = e.stored
      /\ d.outcome = e.outcome /\ d.passwords = e.passwords
      /\ d.afterLogin = e.afterLogin /\ d.lastPassword = e.lastPassword
      /\ d.resizeSent = e.resizeSent
  <2>1. CASE full
    BY <1>1, <2>1 DEF Commands
  <2>2. CASE ~full
    <3>1. e.sent \in BOOLEAN
      BY DEF Commands
    <3> QED
      BY <1>1, <2>2, <3>1
  <2> QED
    BY <2>1, <2>2
<1>3. <<>> \in Seq(Inputs)
  BY EmptySeq
<1>4. /\ c \in Commands /\ c.out = <<>> /\ c.sent = d.sent
      /\ c.sentLogin = d.sentLogin /\ c.sentContinue = d.sentContinue
      /\ c.whenPrompt = d.whenPrompt /\ c.stored = d.stored
      /\ c.outcome = d.outcome /\ c.passwords = d.passwords
      /\ c.afterLogin = d.afterLogin /\ c.lastPassword = d.lastPassword
      /\ c.resizeSent = d.resizeSent
  BY <1>2, <1>3 DEF Commands
<1>5. cmd' = c
  BY DEF d
<1> HIDE DEF c
<1>6. Harmless(e) => Harmless(c)
  BY <1>2, <1>4 DEF Harmless
<1>7. Harmless(e) => Harmless(cmd)'
  BY <1>5, <1>6 DEF Harmless
<1>8. KeepsWords(e, cmd')
  BY <1>2, <1>4, <1>5 DEF KeepsWords
<1> QED
  BY <1>2, <1>4, <1>5, <1>7, <1>8

\* A look at a line keeps the types.
LEMMA ReceiveKeepsTypes ==
    ASSUME TypeInv, TextInv, Receive
    PROVE  TypeInv'
<1>1. /\ \E k \in Nat, full \in BOOLEAN : LineEnds(k, full) /\ Received(k, full)
      /\ UNCHANGED <<setup, far, misread, lost>>
  BY ReceiveIs
<1>2. PICK k \in Nat, full \in BOOLEAN : LineEnds(k, full) /\ Received(k, full)
  BY <1>1
<1>3. PICK e \in Commands :
        /\ Harmless(e) /\ cmd' = [ForgetSent(e, full) EXCEPT !.out = <<>>]
        /\ typed' = typed \o e.out
  BY <1>2 DEF Received
<1>4. cmd' \in Commands /\ cmd'.out = <<>> /\ Harmless(cmd)'
  BY <1>3, CommandAfter
<1>5. typed' \in Seq(Inputs)
  <2>1. typed \in Seq(Inputs) /\ e.out \in Seq(Inputs)
    BY DEF TypeInv, Commands
  <2> QED
    BY <1>3, <2>1, ConcatProperties
<1>6. wire' \in Seq(Tokens) /\ line' \in Seq(Tokens) /\ excused' \in BOOLEAN
  <2>1. PICK n \in DOMAIN wire :
            /\ wire' = SubSeq(wire, n + 1, Len(wire))
            /\ excused' \in BOOLEAN
    BY DEF Receive
  <2>2. wire \in Seq(Tokens) /\ line \in Seq(Tokens)
    BY DEF TypeInv
  <2>3. n \in 0..Len(wire)
    BY <2>2
  <2>4. wire' \in Seq(Tokens)
    BY <2>1, <2>2, <2>3, RestIs
  <2>5. Text \in Seq(Tokens) /\ k \in 0..Len(Text)
    BY <1>2, <2>2, TextIs DEF LineEnds
  <2>6. SubSeq(Text, 1, k) \in Seq(Tokens)
    BY <2>5, PrefixIs
  <2>7. line' \in {<<>>, SubSeq(Text, 1, k)}
    BY <1>2 DEF LineEnds
  <2> QED
    BY <2>1, <2>4, <2>6, <2>7, EmptySeq
<1>7. /\ setup \in Setups /\ far \in FarEnds /\ far.accepted < Len(setup.asks)
      /\ misread \in BOOLEAN /\ lost \in BOOLEAN
  BY DEF TypeInv
<1> QED
  BY <1>1, <1>4, <1>5, <1>6, <1>7 DEF TypeInv

\* A look at a line keeps the shape of the text: a whole line is gone, or nothing is.
LEMMA ReceiveKeepsText ==
    ASSUME TypeInv, TextInv, NEW k \in Nat, NEW full \in BOOLEAN, LineEnds(k, full),
           UNCHANGED far
    PROVE  TextInv'
<1>1. Text \in Seq(Tokens) /\ Len(Text) \in Nat
  BY TextIs DEF TypeInv
<1>2. Chained(Text) /\ (far.at # "stopped" => Waits(Text, PromptsAt(far.at)))
  BY DEF TextInv
<1>3. CASE ~full
  <2>1. Text' = Text /\ line' = SubSeq(Text, 1, k) /\ k \in 0..Len(Text)
        /\ \A i \in 1..k : Text[i] # Newline
    BY <1>3 DEF LineEnds
  <2>2. DOMAIN line' = 1..k /\ \A i \in 1..k : line'[i] = Text[i]
    BY <1>1, <2>1, PrefixIs
  <2>3. \A i \in DOMAIN line' : line'[i] # Newline
    BY <2>1, <2>2
  <2>4. Chained(Text') /\ (far'.at # "stopped" => Waits(Text', PromptsAt(far'.at)))
    BY <1>2, <2>1
  <2> QED
    BY <2>3, <2>4 DEF TextInv
<1>4. CASE full
  <2> DEFINE m == k + 1
             rest == SubSeq(Text, m + 1, Len(Text))
  <2>1. /\ m \in 1..Len(Text) /\ Text[m] = Newline /\ line' = <<>> /\ k + 2 = m + 1
        /\ Text' = SubSeq(Text, k + 2, Len(Text))
    BY <1>1, <1>4 DEF LineEnds
  <2>2. /\ rest \in Seq(Tokens) /\ Len(rest) = Len(Text) - m
        /\ \A i \in 1..(Len(Text) - m) : rest[i] = Text[i + m]
        /\ rest = <<>> <=> m = Len(Text)
    <3>1. m \in 0..Len(Text)
      BY <1>1, <2>1
    <3> QED
      BY <1>1, <3>1, RestIs
  <2>3. Text' = rest
    BY <2>1
  <2> HIDE DEF rest, m
  <2>4. Chained(rest)
    <3>1. ASSUME rest # <<>> PROVE rest[1] \in Firsts
      <4>1. m \in 1..(Len(Text) - 1) /\ 1 \in 1..(Len(Text) - m) /\ 1 + m = m + 1
        BY <1>1, <2>1, <2>2, <3>1
      <4>2. Follows(Text[m], Text[m + 1]) /\ rest[1] = Text[m + 1]
        BY <1>2, <2>2, <4>1 DEF Chained
      <4> QED
        BY <2>1, <4>2 DEF Follows
    <3>2. ASSUME NEW i \in 1..(Len(rest) - 1) PROVE Follows(rest[i], rest[i + 1])
      <4>1. /\ i \in 1..(Len(Text) - m) /\ i + 1 \in 1..(Len(Text) - m)
            /\ i + m \in 1..(Len(Text) - 1) /\ (i + 1) + m = (i + m) + 1
        BY <1>1, <2>1, <2>2
      <4>2. Follows(Text[i + m], Text[(i + m) + 1])
        BY <1>2, <4>1 DEF Chained
      <4> QED
        BY <2>2, <4>1, <4>2
    <3>3. ASSUME NEW i \in 1..(Len(rest) - 2), rest[i] = "Last" PROVE rest[i + 2] = "date"
      <4>1. /\ i \in 1..(Len(Text) - m) /\ i + 2 \in 1..(Len(Text) - m)
            /\ i + m \in 1..(Len(Text) - 2) /\ (i + 2) + m = (i + m) + 2
        BY <1>1, <2>1, <2>2
      <4>2. Text[i + m] = "Last" => Text[(i + m) + 2] = "date"
        BY <1>2, <4>1 DEF Chained
      <4>3. rest[i] = Text[i + m] /\ rest[i + 2] = Text[(i + m) + 2]
        BY <2>2, <4>1
      <4> QED
        BY <3>3, <4>2, <4>3
    <3> QED
      BY <3>1, <3>2, <3>3 DEF Chained
  <2>5. ASSUME NEW prompts, Newline \notin prompts, Waits(Text, prompts) PROVE Waits(rest, prompts)
    <3>1. Text[Len(Text)] \in prompts /\ (Len(Text) > 1 => Text[Len(Text) - 1] # "Last")
      BY <2>5 DEF Waits
    <3>2. m # Len(Text)
      BY <2>1, <2>5, <3>1
    <3>3. Len(rest) \in Nat /\ Len(rest) > 0 /\ Len(rest) \in 1..(Len(Text) - m)
          /\ Len(rest) + m = Len(Text)
      BY <1>1, <2>1, <2>2, <3>2
    <3>4. rest[Len(rest)] \in prompts /\ rest # <<>>
      BY <2>2, <3>1, <3>2, <3>3
    <3>5. ASSUME Len(rest) > 1 PROVE rest[Len(rest) - 1] # "Last"
      <4>1. Len(rest) - 1 \in 1..(Len(Text) - m) /\ (Len(rest) - 1) + m = Len(Text) - 1
            /\ Len(Text) > 1
        BY <1>1, <2>1, <3>3, <3>5
      <4>2. rest[Len(rest) - 1] = Text[Len(Text) - 1]
        BY <2>2, <4>1
      <4> QED
        BY <3>1, <4>1, <4>2
    <3> QED
      BY <3>4, <3>5 DEF Waits
  <2>6. Newline \notin PromptsAt(far.at)
    BY DEF PromptsAt, Newline
  <2>7. far'.at # "stopped" => Waits(rest, PromptsAt(far'.at))
    BY <1>2, <2>5, <2>6
  <2>8. \A i \in DOMAIN line' : line'[i] # Newline
    BY <2>1
  <2> QED
    BY <2>3, <2>4, <2>7, <2>8 DEF TextInv
<1> QED
  BY <1>3, <1>4

\* What the line that is looked at began with.
LEMMA BeginsIs ==
    ASSUME line \in Seq(Tokens), wire \in Seq(Tokens), NEW k \in 0..Len(Text)
    PROVE  /\ \A x : Begins(SubSeq(Text, 1, k), x) <=> k >= 1 /\ Text[1] = x
           /\ \A x : SubSeq(Text, 1, k) = <<x>> => k = 1 /\ Text[1] = x
           /\ \A x, y : SubSeq(Text, 1, k) = <<x, y>> => k = 2 /\ Text[1] = x /\ Text[2] = y
<1> DEFINE text == SubSeq(Text, 1, k)
<1>1. Text \in Seq(Tokens) /\ k \in Nat
  BY TextIs
<1>2. text \in Seq(Tokens) /\ Len(text) = k /\ \A i \in 1..k : text[i] = Text[i]
  BY <1>1, PrefixIs
<1> HIDE DEF text
<1>3. text # <<>> <=> k >= 1
  <2>1. text = <<>> => Len(text) = 0
    OBVIOUS
  <2>2. text # <<>> => Len(text) # 0
    BY <1>2, EmptySeq
  <2> QED
    BY <1>1, <1>2, <2>1, <2>2
<1>4. k >= 1 => text[1] = Text[1]
  BY <1>1, <1>2
<1>5. \A x : Begins(text, x) <=> k >= 1 /\ Text[1] = x
  BY <1>3, <1>4 DEF Begins
<1>6. \A x : text = <<x>> => k = 1 /\ Text[1] = x
  <2>1. SUFFICES ASSUME NEW x, text = <<x>> PROVE k = 1 /\ Text[1] = x
    OBVIOUS
  <2>2. Len(text) = 1 /\ text[1] = x
    BY <2>1
  <2> QED
    BY <1>2, <1>4, <2>2
<1>7. \A x, y : text = <<x, y>> => k = 2 /\ Text[1] = x /\ Text[2] = y
  <2>1. SUFFICES ASSUME NEW x, NEW y, text = <<x, y>> PROVE k = 2 /\ Text[1] = x /\ Text[2] = y
    OBVIOUS
  <2>2. Len(text) = 2 /\ text[1] = x /\ text[2] = y
    BY <2>1
  <2>3. k = 2 /\ 1 \in 1..k /\ 2 \in 1..k
    BY <1>2, <2>2
  <2> QED
    BY <1>2, <2>2, <2>3
<1> QED
  BY <1>5, <1>6, <1>7 DEF text

\* What an answer does to what the command has sent.
LEMMA SentAfter ==
    ASSUME NEW c \in Commands, NEW e \in Commands, NEW text, Answers(c, text, e)
    PROVE  /\ c.sentContinue => e.sentContinue
           /\ c.sent => e.sent \/ text \in {<<"login:">>, <<"Last", "login:">>}
           /\ ~c.sentLogin /\ e.sentLogin => text \in {<<"login:">>, <<"Last", "login:">>}
           /\ c.sentLogin /\ ~e.sentLogin => Begins(text, "password:") /\ ~c.sent
<1>1. /\ c.sentContinue \in BOOLEAN /\ c.sent \in BOOLEAN /\ c.sentLogin \in BOOLEAN
      /\ e.sentContinue \in BOOLEAN /\ e.sent \in BOOLEAN /\ e.sentLogin \in BOOLEAN
  BY DEF Commands
<1>2. CASE LooksOn(c, text, e)
  BY <1>2 DEF LooksOn
<1>3. CASE Enters(c, text, e)
  BY <1>1, <1>3 DEF Enters
<1>4. CASE SaysYes(c, text, e)
  BY <1>1, <1>4 DEF SaysYes
<1>5. CASE RemovesKey(c, text, e)
  BY <1>1, <1>5 DEF RemovesKey
<1>6. CASE Fails(c, text, e)
  BY <1>1, <1>6 DEF Fails
<1>7. CASE LogsIn(c, text, e)
  BY <1>1, <1>7 DEF LogsIn
<1>8. CASE GivesPassword(c, text, e)
  BY <1>1, <1>8 DEF GivesPassword
<1>9. CASE Succeeds(c, text, e)
  BY <1>1, <1>9 DEF Succeeds
<1>10. CASE TriesAgain(c, text, e)
  BY <1>1, <1>10 DEF TriesAgain
<1>11. CASE Sets(c, text, e)
  BY <1>1, <1>11 DEF Sets
<1> QED
  BY <1>2, <1>3, <1>4, <1>5, <1>6, <1>7, <1>8, <1>9, <1>10, <1>11 DEF Answers

\* Places before and after the first m tokens are gone.
LEMMA Shifted ==
    ASSUME NEW n \in Nat, NEW m \in 1..n, NEW i \in 1..(n - m), NEW j, j = i + m
    PROVE  /\ j \in 1..n /\ j > 1 /\ j # 1 /\ j - 1 \in 1..n /\ i \in Nat
           /\ i = 1 => j - 1 = m
           /\ i # 1 => i > 1 /\ i - 1 \in 1..(n - m) /\ (i - 1) + m = j - 1
           /\ j # n => i + 1 \in 1..(n - m) /\ (i + 1) + m = j + 1
           /\ (j = n <=> i = n - m) /\ (j < n <=> i < n - m)
OBVIOUS

\* A look at a line leaves every token where the command may meet it: what it would answer
\* a second time is marked as answered, or gone.
LEMMA ReceiveKeepsTokens ==
    ASSUME TypeInv, TextInv, TokensFit, NEW k \in Nat, NEW full \in BOOLEAN,
           LineEnds(k, full), NEW e \in Commands, Answers(cmd, SubSeq(Text, 1, k), e),
           SubSeq(Text, 1, k) # <<"Last", "login:">>,
           cmd' = [ForgetSent(e, full) EXCEPT !.out = <<>>], UNCHANGED far
    PROVE  TokensFit'
<1> DEFINE text == SubSeq(Text, 1, k)
<1>1. /\ Text \in Seq(Tokens) /\ Len(Text) \in Nat /\ DOMAIN Text = 1..Len(Text)
      /\ line \in Seq(Tokens) /\ wire \in Seq(Tokens) /\ cmd \in Commands
      /\ k \in 0..Len(Text)
  BY TextIs DEF TypeInv, LineEnds
<1>2. /\ \A x : Begins(text, x) <=> k >= 1 /\ Text[1] = x
      /\ \A x : text = <<x>> => k = 1 /\ Text[1] = x
  BY <1>1, BeginsIs
<1>3. /\ cmd.sentContinue => e.sentContinue
      /\ cmd.sent => e.sent \/ text \in {<<"login:">>, <<"Last", "login:">>}
      /\ ~cmd.sentLogin /\ e.sentLogin => text \in {<<"login:">>, <<"Last", "login:">>}
      /\ cmd.sentLogin /\ ~e.sentLogin => Begins(text, "password:") /\ ~cmd.sent
  BY <1>1, SentAfter
<1>4. /\ cmd'.sent = (e.sent /\ ~full)
      /\ cmd'.sentLogin = e.sentLogin /\ cmd'.sentContinue = e.sentContinue
  BY CommandAfter
<1>5. /\ cmd.sentContinue => cmd'.sentContinue
      /\ cmd.sent => e.sent \/ (k = 1 /\ Text[1] = "login:")
      /\ ~cmd.sentLogin /\ cmd'.sentLogin => k = 1 /\ Text[1] = "login:"
      /\ cmd.sentLogin /\ ~cmd'.sentLogin => k >= 1 /\ Text[1] = "password:" /\ ~cmd.sent
  BY <1>2, <1>3, <1>4
<1> HIDE DEF text
<1>6. \A i \in 1..Len(Text) : TokenFits(i, Text[i])
  BY <1>1 DEF TokensFit
\* A password is asked for at the end.
<1>7. k >= 1 /\ Text[1] = "password:" /\ ~cmd.sent => Len(Text) = 1
  <2>1. SUFFICES ASSUME k >= 1, Text[1] = "password:", ~cmd.sent PROVE Len(Text) = 1
    OBVIOUS
  <2>2. 1 \in 1..Len(Text)
    BY <1>1, <2>1
  <2>3. TokenFits(1, "password:")
    BY <1>6, <2>1, <2>2
  <2> QED
    BY <2>1, <2>3 DEF TokenFits, Answered, Newest
<1>8. \A i \in DOMAIN Text' : \A token : token = Text'[i] => TokenFits(i, token)'
  <2>1. SUFFICES ASSUME NEW i \in DOMAIN Text', NEW token, token = Text'[i]
                 PROVE  TokenFits(i, token)'
    OBVIOUS
  <2>2. CASE ~full
    <3>1. Text' = Text /\ line' = SubSeq(Text, 1, k) /\ k > Len(line) /\ line' # <<>>
      <4>1. Text' = Text /\ line' = SubSeq(Text, 1, k) /\ k > Len(line)
        BY <2>2 DEF LineEnds
      <4>2. Len(line') = k /\ Len(line) \in Nat
        BY <1>1, <4>1, PrefixIs
      <4> QED
        BY <4>1, <4>2
    <3>2. i \in 1..Len(Text) /\ token = Text[i] /\ TokenFits(i, token) /\ i \in Nat
      BY <1>1, <1>6, <2>1, <3>1
    <3>3. Answered(i) /\ token # "login:" => Answered(i)'
      BY <1>4, <1>5, <2>2, <3>1, <3>2 DEF Answered
    <3>4. \A at : Newest(i, at) => Newest(i, at)'
      BY <3>1 DEF Newest
    <3>5. token = "login:" /\ far.at = "password" /\ i < Len(Text)
            => (cmd.sentLogin => cmd'.sentLogin)
      BY <1>1, <1>5, <1>7, <3>2
    <3>6. token = "connected" /\ i = 1 => (~cmd.sentLogin => ~cmd'.sentLogin)
      BY <1>5, <3>2
    <3> QED
      BY <1>5, <3>1, <3>2, <3>3, <3>4, <3>5, <3>6 DEF TokenFits
  <2>3. CASE full
    <3> DEFINE m == k + 1
    <3>1. /\ m \in 1..Len(Text) /\ Text[m] = Newline /\ k < Len(Text)
          /\ Len(Text') = Len(Text) - m
          /\ \A j \in 1..(Len(Text) - m) : Text'[j] = Text[j + m]
          /\ Text' = SubSeq(Text, m + 1, Len(Text))
      <4>1. /\ k < Len(Text) /\ Text[k + 1] = Newline
            /\ Text' = SubSeq(Text, k + 2, Len(Text)) /\ Len(Text') = Len(Text) - (k + 1)
            /\ \A j \in 1..(Len(Text) - (k + 1)) : Text'[j] = Text[j + (k + 1)]
        BY <2>3 DEF LineEnds
      <4>2. k + 2 = (k + 1) + 1 /\ k + 1 \in 1..Len(Text)
        BY <1>1, <4>1
      <4> QED
        BY <4>1, <4>2
    <3>2. i \in 1..(Len(Text) - m)
      <4>1. m \in 0..Len(Text)
        BY <1>1, <3>1
      <4>2. Text' \in Seq(Tokens)
        BY <1>1, <3>1, <4>1, RestIs
      <4> QED
        BY <2>1, <3>1, <4>2
    <3> HIDE DEF m
    <3> DEFINE j == i + m
    <3>3. /\ j \in 1..Len(Text) /\ j > 1 /\ j # 1 /\ j - 1 \in 1..Len(Text) /\ i \in Nat
          /\ i = 1 => j - 1 = m
          /\ i # 1 => i > 1 /\ i - 1 \in 1..(Len(Text) - m) /\ (i - 1) + m = j - 1
          /\ j # Len(Text) => i + 1 \in 1..(Len(Text) - m) /\ (i + 1) + m = j + 1
          /\ (j = Len(Text) <=> i = Len(Text) - m) /\ (j < Len(Text) <=> i < Len(Text) - m)
      BY <1>1, <3>1, <3>2, Shifted
    <3>4. token = Text[j] /\ TokenFits(j, token)
      BY <1>6, <2>1, <3>1, <3>2, <3>3
    <3> HIDE DEF j
    <3>5. ~Answered(j)
      BY <3>3 DEF Answered
    <3>6. \A at : Newest(j, at) => Newest(i, at)'
      BY <3>1, <3>3 DEF Newest
    <3>7. Text[j - 1] = "Last" => i > 1 /\ Text'[i - 1] = "Last"
      <4>1. SUFFICES ASSUME Text[j - 1] = "Last" PROVE i > 1 /\ Text'[i - 1] = "Last"
        OBVIOUS
      <4>2. i # 1
        <5>1. "Last" # "newline"
          OBVIOUS
        <5> QED
          BY <3>1, <3>3, <4>1, <5>1 DEF Newline
      <4>3. Text'[i - 1] = Text[(i - 1) + m]
        BY <3>1, <3>3, <4>2
      <4> QED
        BY <3>3, <4>1, <4>2, <4>3
    <3>8. cmd.sentLogin => cmd'.sentLogin
      <4>1. k >= 1 => Len(Text) # 1
        BY <1>1, <3>1
      <4> QED
        BY <1>5, <1>7, <4>1
    <3>9. j < Len(Text) => i < Len(Text')
      BY <3>1, <3>3
    <3>10. token = "denied" /\ far.at = "password" /\ Text[j + 1] = "again"
             => Text'[i + 1] = "again"
      <4>1. SUFFICES ASSUME token = "denied", far.at = "password", Text[j + 1] = "again"
                     PROVE  Text'[i + 1] = "again"
        OBVIOUS
      <4>2. Text[Len(Text)] = "password:"
        BY <4>1 DEF TextInv, Waits, PromptsAt
      <4>3. j # Len(Text)
        BY <3>4, <4>1, <4>2
      <4>4. Text'[i + 1] = Text[(i + 1) + m]
        BY <3>1, <3>3, <4>3
      <4> QED
        BY <3>3, <4>1, <4>3, <4>4
    <3>11. token = "login:" => \/ i > 1 /\ Text'[i - 1] = "Last"
                               \/ far'.at = "login"
                               \/ far'.at = "password" /\ cmd'.sentLogin /\ i < Len(Text')
      BY <3>4, <3>7, <3>8, <3>9 DEF TokenFits
    <3>12. token = "denied" => far'.at = "local" \/ (far'.at = "password" /\ Text'[i + 1] = "again")
      BY <3>4, <3>10 DEF TokenFits
    <3>13. token = "connected" => far'.at \in {"shell", "resize"}
      BY <3>3, <3>4 DEF TokenFits
    <3>14. /\ token = "password:" => Newest(i, "password")'
           /\ token = "local" => Newest(i, "local")'
           /\ token = "yes/no" => cmd'.sentContinue \/ Newest(i, "confirm")'
      BY <1>5, <3>4, <3>5, <3>6 DEF TokenFits
    <3>15. /\ token = "Last" => far'.at \in {"shell", "resize"}
           /\ token \in {"remote", "first"} => far'.at = "shell"
           /\ token = "resize" => far'.at \in {"shell", "resize"}
           /\ token \in {"id_dsa", "bad_key", "disconnected"} => far'.at = "local"
      BY <3>4 DEF TokenFits
    <3> QED
      BY <3>11, <3>12, <3>13, <3>14, <3>15 DEF TokenFits
  <2> QED
    BY <2>2, <2>3
<1> QED
  BY <1>8 DEF TokensFit

\* One more is typed.
LEMMA OneMore ==
    ASSUME NEW S, NEW s \in Seq(S), NEW x \in S, NEW t, t = s \o <<x>>
    PROVE  /\ t \in Seq(S) /\ Len(t) = Len(s) + 1 /\ t # <<>> /\ DOMAIN t = 1..(Len(s) + 1)
           /\ \A i \in 1..Len(s) : t[i] = s[i]
           /\ t[Len(s) + 1] = x
           /\ s = <<>> => Len(t) = 1 /\ t[1] = x
           /\ s # <<>> => t[1] = s[1]
           /\ \A i \in DOMAIN t : \/ i \in DOMAIN s /\ t[i] = s[i] /\ i # Len(t)
                                  \/ i = Len(t) /\ t[i] = x
<1>1. /\ <<x>> \in Seq(S) /\ Len(<<x>>) = 1 /\ <<x>>[1] = x /\ Len(s) \in Nat
      /\ DOMAIN s = 1..Len(s)
  OBVIOUS
<1>2. /\ t \in Seq(S) /\ Len(t) = Len(s) + 1
      /\ \A i \in 1..(Len(s) + 1) : t[i] = IF i <= Len(s) THEN s[i] ELSE <<x>>[i - Len(s)]
  <2> DEFINE y == <<x>>
  <2>1. y \in Seq(S) /\ Len(y) = 1
    BY <1>1
  <2> HIDE DEF y
  <2>2. /\ s \o y \in Seq(S) /\ Len(s \o y) = Len(s) + Len(y)
        /\ \A i \in 1..(Len(s) + Len(y)) :
              (s \o y)[i] = IF i <= Len(s) THEN s[i] ELSE y[i - Len(s)]
    BY <2>1, ConcatProperties
  <2> QED
    BY <2>1, <2>2 DEF y
<1>3. \A i \in 1..Len(s) : t[i] = s[i]
  BY <1>1, <1>2
<1>4. t[Len(s) + 1] = x
  <2>1. Len(s) + 1 \in 1..(Len(s) + 1) /\ ~(Len(s) + 1 <= Len(s)) /\ (Len(s) + 1) - Len(s) = 1
    BY <1>1
  <2> QED
    BY <1>1, <1>2, <2>1
<1>5. DOMAIN t = 1..(Len(s) + 1) /\ t # <<>>
  BY <1>1, <1>2
<1>6. s = <<>> => Len(s) = 0
  OBVIOUS
<1>7. s # <<>> => 1 \in 1..Len(s)
  BY <1>1, EmptySeq
<1>8. \A i \in DOMAIN t : (i \in DOMAIN s /\ t[i] = s[i] /\ i # Len(t)) \/ (i = Len(t) /\ t[i] = x)
  <2>1. \A i \in 1..(Len(s) + 1) : (i \in 1..Len(s) /\ i # Len(s) + 1) \/ i = Len(s) + 1
    BY <1>1
  <2> QED
    BY <1>1, <1>2, <1>3, <1>4, <1>5, <2>1
<1> QED
  BY <1>1, <1>2, <1>3, <1>4, <1>5, <1>6, <1>7, <1>8

\* A look at a line types what the far end waits for, once, and nothing else.
LEMMA ReceiveKeepsAnswers ==
    ASSUME TypeInv, TextInv, TokensFit, TypedFits, CommandFits, NEW k \in Nat,
           NEW full \in BOOLEAN, LineEnds(k, full), NEW e \in Commands,
           Answers(cmd, SubSeq(Text, 1, k), e),
           SubSeq(Text, 1, k) \notin {<<"denied">>, <<"Last", "login:">>},
           cmd' = [ForgetSent(e, full) EXCEPT !.out = <<>>], typed' = typed \o e.out,
           cmd.outcome = "running", UNCHANGED <<setup, far>>
    PROVE  TypedFits' /\ CommandFits'
<1> DEFINE text == SubSeq(Text, 1, k)
<1>1. /\ Text \in Seq(Tokens) /\ Len(Text) \in Nat /\ DOMAIN Text = 1..Len(Text)
      /\ line \in Seq(Tokens) /\ wire \in Seq(Tokens) /\ cmd \in Commands
      /\ typed \in Seq(Inputs) /\ k \in 0..Len(Text) /\ wire # <<>>
      /\ far' = far /\ setup' = setup
  BY TextIs DEF TypeInv, LineEnds
<1>2. /\ \A x : Begins(text, x) <=> k >= 1 /\ Text[1] = x
      /\ \A x : text = <<x>> => k = 1 /\ Text[1] = x
      /\ \A x, y : text = <<x, y>> => k = 2 /\ Text[1] = x /\ Text[2] = y
  BY <1>1, BeginsIs
<1>3. /\ cmd'.sent = (e.sent /\ ~full)
      /\ cmd'.sentLogin = e.sentLogin /\ cmd'.sentContinue = e.sentContinue
      /\ cmd'.whenPrompt = e.whenPrompt /\ cmd'.stored = e.stored
      /\ cmd'.outcome = e.outcome
  BY CommandAfter
<1>4. text \notin {<<"denied">>, <<"Last", "login:">>} /\ Answers(cmd, text, e)
  OBVIOUS
<1> HIDE DEF text
<1>5. k >= 1 => TokenFits(1, Text[1])
  <2>1. k >= 1 => 1 \in 1..Len(Text)
    BY <1>1
  <2> QED
    BY <1>1, <2>1 DEF TokensFit
<1>6. k >= 1 /\ Len(Text) = 1 => ~full /\ wire' = <<>>
  <2>1. k >= 1 /\ Len(Text) = 1 => k = Len(Text) /\ ~(k < Len(Text))
    BY <1>1
  <2> QED
    BY <2>1 DEF LineEnds
\* What is not yet read, as something is still to come.
<1>7. /\ far.at \in {"confirm", "password"} => typed = <<>>
      /\ far.at = "local" => typed = <<>> \/ typed[1].for = "any"
      /\ cmd.stored => far.at = "local"
  BY <1>1 DEF TypedFits, CommandFits, OneAnswer, ConfirmTyped, PasswordTyped, LocalTyped
<1>8. /\ \A i \in DOMAIN typed : typed[i].text = "ssh" => typed[i].for = "local"
      /\ far.at = "login" => LoginTyped
      /\ far.at = "resize" => \A i \in DOMAIN typed : typed[i].for = "any"
      /\ far.at = "shell" => \A i \in DOMAIN typed : typed[i].for \in {"any", "shell"}
  BY DEF TypedFits
<1>9. /\ far.at = "local" => far.refused
      /\ cmd.whenPrompt # <<>> \/ far.at = "confirm" => setup.protocol = "ssh"
      /\ far.at = "login" => setup.protocol = "telnet"
  BY DEF CommandFits
\* Nothing is typed.
<1>10. ASSUME e.out = <<>>, e.sentLogin = cmd.sentLogin PROVE TypedFits'
  <2>1. typed' = typed
    BY <1>1, <1>10, ConcatEmptySeq
  <2>2. far' = far /\ setup' = setup /\ cmd'.sentLogin = cmd.sentLogin
    BY <1>1, <1>3, <1>10
  <2>3. (far.at = "confirm" => ConfirmTyped') /\ (far.at = "password" => PasswordTyped')
    BY <1>7, <2>1 DEF ConfirmTyped, PasswordTyped
  <2>4. far.at = "local" => LocalTyped'
    BY <1>7, <2>1 DEF LocalTyped
  <2>5. far.at = "login" => LoginTyped'
    BY <1>8, <2>1, <2>2 DEF LoginTyped
  <2> QED
    BY <1>8, <2>1, <2>2, <2>3, <2>4, <2>5 DEF TypedFits
\* Something is typed: which is read where it is meant to be.
<1>11. ASSUME NEW phase \in Phases \cup {"any"}, NEW word \in Words, Types(e, phase, word)
       PROVE  /\ [for |-> phase, text |-> word] \in Inputs
              /\ Len(typed') = Len(typed) + 1 /\ typed' # <<>>
              /\ typed = <<>> => /\ Len(typed') = 1 /\ typed'[1].for = phase
                                 /\ typed'[1].text = word
              /\ typed # <<>> => typed'[1] = typed[1]
              /\ \A i \in DOMAIN typed' :
                    \/ i \in DOMAIN typed /\ typed'[i] = typed[i] /\ i # Len(typed')
                    \/ i = Len(typed') /\ typed'[i].for = phase /\ typed'[i].text = word
  <2> DEFINE x == [for |-> phase, text |-> word]
  <2>1. x \in Inputs /\ x.for = phase /\ x.text = word
    BY DEF Inputs
  <2>2. typed' = typed \o <<x>>
    BY <1>11 DEF Types
  <2> HIDE DEF x
  <2>3. /\ Len(typed') = Len(typed) + 1 /\ typed' # <<>>
        /\ typed = <<>> => Len(typed') = 1 /\ typed'[1] = x
        /\ typed # <<>> => typed'[1] = typed[1]
        /\ \A i \in DOMAIN typed' :
              \/ i \in DOMAIN typed /\ typed'[i] = typed[i] /\ i # Len(typed')
              \/ i = Len(typed') /\ typed'[i] = x
    BY <1>1, <2>1, <2>2, OneMore
  <2> QED
    BY <2>1, <2>3 DEF x
<1>12. e.stored = cmd.stored /\ e.outcome = "running" /\ e.whenPrompt = cmd.whenPrompt
         => CommandFits'
  BY <1>1, <1>3, <1>7, <1>9 DEF CommandFits
<1>13. CASE LooksOn(cmd, text, e)
  <2>1. e = cmd /\ e.out = <<>>
    BY <1>13 DEF LooksOn, TypeInv
  <2> QED
    BY <1>10, <1>12, <2>1
<1>14. CASE RemovesKey(cmd, text, e)
  <2>1. TypedFits'
    BY <1>10, <1>14 DEF RemovesKey
  <2>2. e.stored = cmd.stored /\ e.outcome = "running" /\ setup.protocol = "ssh"
    BY <1>14 DEF RemovesKey
  <2> QED
    BY <1>1, <1>3, <1>7, <1>9, <2>1, <2>2 DEF CommandFits
<1>15. CASE Fails(cmd, text, e)
  <2>1. TypedFits'
    BY <1>10, <1>15 DEF Fails
  <2>2. e.outcome = "running" /\ e.whenPrompt = cmd.whenPrompt
        /\ text \in {<<"bad_key">>, <<"denied", "methods">>, <<"disconnected">>}
    BY <1>4, <1>15 DEF Fails
  <2>3. \/ k >= 1 /\ Text[1] \in {"bad_key", "disconnected"}
        \/ k >= 1 /\ Text[1] = "denied" /\ Text[2] = "methods"
    <3>1. CASE text = <<"bad_key">>
      <4>1. k = 1
        BY <1>2, <3>1, Zenon
      <4>2. k >= 1
        BY <4>1
      <4>3. Text[1] \in {"bad_key", "disconnected"}
        BY <1>2, <3>1, Zenon
      <4> QED
        BY <4>2, <4>3, Zenon
    <3>2. CASE text = <<"denied", "methods">>
      <4>1. k = 2 /\ Text[1] = "denied" /\ Text[2] = "methods"
        BY <1>2, <3>2, Zenon
      <4>2. k >= 1
        BY <4>1
      <4> QED
        BY <4>1, <4>2, Zenon
    <3>3. CASE text = <<"disconnected">>
      <4>1. k = 1 /\ Text[1] = "disconnected"
        BY <1>2, <3>3, Zenon
      <4>2. k >= 1
        BY <4>1
      <4>3. Text[1] \in {"bad_key", "disconnected"}
        BY <4>1, Zenon
      <4> QED
        BY <4>2, <4>3, Zenon
    <3> QED
      BY <2>2, <3>1, <3>2, <3>3
  <2>4. far.at = "local"
    <3>1. CASE k >= 1 /\ Text[1] \in {"bad_key", "disconnected"}
      BY <1>5, <3>1 DEF TokenFits
    <3>2. CASE k >= 1 /\ Text[1] = "denied" /\ Text[2] = "methods"
      <4>1. TokenFits(1, "denied") /\ Text[1 + 1] # "again"
        BY <1>5, <3>2
      <4> QED
        BY <4>1 DEF TokenFits
    <3> QED
      BY <2>3, <3>1, <3>2
  <2> QED
    BY <1>1, <1>3, <1>9, <2>1, <2>2, <2>4 DEF CommandFits
<1>16. CASE Succeeds(cmd, text, e)
  <2>1. TypedFits'
    BY <1>10, <1>16 DEF Succeeds
  <2>2. e.whenPrompt = cmd.whenPrompt /\ e.stored = cmd.stored
        /\ e.outcome = IF cmd.stored THEN "exception" ELSE "result"
    BY <1>16 DEF Succeeds
  <2>3. \/ k >= 1 /\ Text[1] = "remote"
        \/ k >= 1 /\ Text[1] = "local" /\ cmd.stored
    BY <1>2, <1>16 DEF Succeeds
  <2>4. \/ far.at = "shell" /\ ~cmd.stored
        \/ far.at = "local" /\ cmd.stored
    <3>1. CASE k >= 1 /\ Text[1] = "remote"
      <4>1. TokenFits(1, "remote")
        BY <1>5, <3>1
      <4> QED
        BY <1>7, <4>1 DEF TokenFits
    <3>2. CASE k >= 1 /\ Text[1] = "local" /\ cmd.stored
      BY <1>7, <3>2
    <3> QED
      BY <2>3, <3>1, <3>2
  <2> QED
    BY <1>1, <1>3, <1>7, <1>9, <2>1, <2>2, <2>4 DEF CommandFits
<1>17. CASE Enters(cmd, text, e)
  <2>1. CommandFits'
    BY <1>12, <1>17 DEF Enters
  <2>2. k >= 1 /\ Text[1] \in {"resize", "id_dsa", "connected"}
    BY <1>2, <1>17 DEF Enters
  <2>3. far.at \in {"shell", "resize", "local"} \/ (far.at = "login" /\ ~cmd.sentLogin)
    BY <1>5, <2>2 DEF TokenFits
  <2>4. /\ typed = <<>> => typed'[1].for = "any"
        /\ typed # <<>> => typed'[1] = typed[1]
        /\ \A i \in DOMAIN typed' :
              \/ i \in DOMAIN typed /\ typed'[i] = typed[i] /\ i # Len(typed')
              \/ i = Len(typed') /\ typed'[i].for = "any" /\ typed'[i].text = ""
    <3>1. "any" \in Phases \cup {"any"} /\ "" \in Words /\ Types(e, "any", "")
      BY <1>17, PlainWords DEF Enters
    <3> QED
      BY <1>11, <3>1
  <2>5. \A i \in DOMAIN typed' : typed'[i].text = "ssh" => typed'[i].for = "local"
    <3>1. SUFFICES ASSUME NEW i \in DOMAIN typed', typed'[i].text = "ssh"
                   PROVE  typed'[i].for = "local"
      OBVIOUS
    <3>2. CASE i \in DOMAIN typed /\ typed'[i] = typed[i]
      BY <1>8, <3>1, <3>2
    <3> QED
      BY <2>4, <3>1, <3>2
  <2>6. far.at = "login" => LoginTyped'
    <3>1. SUFFICES ASSUME far.at = "login", NEW i \in DOMAIN typed'
                   PROVE  typed'[i].for = "any" /\ typed'[i].text = ""
      BY DEF LoginTyped
    <3>2. CASE i \in DOMAIN typed /\ typed'[i] = typed[i]
      BY <1>8, <2>3, <3>1, <3>2 DEF LoginTyped
    <3> QED
      BY <2>4, <3>2
  <2>7. far.at = "local" => LocalTyped'
    BY <1>7, <2>4 DEF LocalTyped
  <2>8. /\ far.at = "resize" => \A i \in DOMAIN typed' : typed'[i].for = "any"
        /\ far.at = "shell" => \A i \in DOMAIN typed' : typed'[i].for \in {"any", "shell"}
    <3>1. ASSUME far.at \in {"resize", "shell"}, NEW i \in DOMAIN typed'
          PROVE  typed'[i].for = "any" \/ (far.at = "shell" /\ typed'[i].for \in {"any", "shell"})
      <4>1. CASE i \in DOMAIN typed /\ typed'[i] = typed[i]
        BY <1>8, <3>1, <4>1
      <4> QED
        BY <2>4, <4>1
    <3> QED
      BY <3>1
  <2> QED
    BY <1>1, <2>1, <2>3, <2>5, <2>6, <2>7, <2>8 DEF TypedFits
<1>18. CASE SaysYes(cmd, text, e)
  <2>1. CommandFits'
    BY <1>12, <1>18 DEF SaysYes
  <2>2. k >= 1 /\ Text[1] = "yes/no" /\ ~cmd.sentContinue
    BY <1>2, <1>18 DEF SaysYes
  <2>3. far.at = "confirm" /\ Len(Text) = 1 /\ typed = <<>>
    BY <1>5, <1>7, <2>2 DEF TokenFits, Newest
  <2>4. Len(typed') = 1 /\ typed'[1].for = "confirm" /\ typed'[1].text = "yes"
        /\ \A i \in DOMAIN typed' : i = 1
    <3>1. "confirm" \in Phases \cup {"any"} /\ "yes" \in Words /\ Types(e, "confirm", "yes")
      BY <1>18, PlainWords DEF SaysYes, Phases
    <3>2. Len(typed') = 1 /\ typed'[1].for = "confirm" /\ typed'[1].text = "yes"
      BY <1>11, <2>3, <3>1
    <3>3. \A i \in DOMAIN typed' : i \in DOMAIN typed \/ i = Len(typed')
      BY <1>11, <3>1
    <3> QED
      BY <2>3, <3>2, <3>3
  <2>5. wire' = <<>> /\ cmd'.sentContinue /\ cmd'.outcome = "running"
    BY <1>3, <1>6, <1>18, <2>2, <2>3 DEF SaysYes
  <2> QED
    BY <1>1, <2>1, <2>3, <2>4, <2>5 DEF TypedFits, ConfirmTyped, OneAnswer
<1>19. CASE LogsIn(cmd, text, e)
  <2>1. CommandFits'
    BY <1>12, <1>19 DEF LogsIn
  <2>2. text = <<"login:">> /\ ~cmd.sentLogin
    BY <1>4, <1>19 DEF LogsIn
  <2>3. far.at = "login"
    <3>1. k >= 1 /\ Text[1] = "login:"
      BY <1>2, <2>2
    <3> QED
      BY <1>5, <2>2, <3>1 DEF TokenFits
  <2>4. \A i \in DOMAIN typed' :
            \/ i \in DOMAIN typed /\ typed'[i] = typed[i] /\ i # Len(typed')
            \/ i = Len(typed') /\ typed'[i].for = "login" /\ typed'[i].text = "user"
    <3>1. "login" \in Phases \cup {"any"} /\ "user" \in Words /\ Types(e, "login", "user")
      BY <1>19, PlainWords DEF LogsIn, Phases
    <3> QED
      BY <1>11, <3>1
  <2>5. cmd'.sentLogin
    BY <1>3, <1>19 DEF LogsIn
  <2>6. LoginTyped'
    <3>1. SUFFICES ASSUME NEW i \in DOMAIN typed'
                   PROVE  \/ typed'[i].for = "any" /\ typed'[i].text = ""
                          \/ /\ typed'[i].for = "login" /\ typed'[i].text = "user"
                             /\ i = Len(typed') /\ cmd'.sentLogin
      BY DEF LoginTyped
    <3>2. CASE i \in DOMAIN typed /\ typed'[i] = typed[i]
      BY <1>8, <2>2, <2>3, <3>1, <3>2 DEF LoginTyped
    <3> QED
      BY <2>4, <2>5, <3>2
  <2>7. \A i \in DOMAIN typed' : typed'[i].text = "ssh" => typed'[i].for = "local"
    BY <1>8, <2>4
  <2> QED
    BY <1>1, <2>1, <2>3, <2>6, <2>7 DEF TypedFits
<1>20. CASE GivesPassword(cmd, text, e)
  <2>1. k >= 1 /\ Text[1] = "password:" /\ ~cmd.sent
    BY <1>2, <1>20 DEF GivesPassword
  <2>2. far.at = "password" /\ Len(Text) = 1 /\ typed = <<>> /\ ~cmd.stored
    BY <1>5, <1>7, <2>1 DEF TokenFits, Newest, Answered
  <2>3. PICK word \in Words : /\ Types(e, "password", word) /\ word # "ssh"
                              /\ e.stored = cmd.stored \/ word = "ctrl+c"
    BY <1>20 DEF GivesPassword
  <2>4. Len(typed') = 1 /\ typed'[1].for = "password" /\ typed'[1].text = word /\ typed' # <<>>
        /\ \A i \in DOMAIN typed' : i = 1
    <3>1. "password" \in Phases \cup {"any"}
      BY DEF Phases
    <3>2. Len(typed') = 1 /\ typed'[1].for = "password" /\ typed'[1].text = word /\ typed' # <<>>
      BY <1>11, <2>2, <2>3, <3>1
    <3>3. \A i \in DOMAIN typed' : i \in DOMAIN typed \/ i = Len(typed')
      BY <1>11, <2>3, <3>1
    <3> QED
      BY <2>2, <3>2, <3>3
  <2>5. wire' = <<>> /\ ~full
    BY <1>6, <2>1, <2>2
  <2>6. cmd'.sent /\ ~cmd'.sentLogin /\ cmd'.outcome = "running"
        /\ cmd'.whenPrompt = cmd.whenPrompt /\ (word = "ctrl+c" \/ ~cmd'.stored)
    BY <1>3, <1>20, <2>2, <2>3, <2>5 DEF GivesPassword
  <2>7. CommandFits'
    BY <1>1, <1>9, <2>2, <2>4, <2>5, <2>6 DEF CommandFits
  <2> QED
    BY <1>1, <2>2, <2>3, <2>4, <2>5, <2>6, <2>7 DEF TypedFits, PasswordTyped, OneAnswer
<1>21. CASE TriesAgain(cmd, text, e)
  <2>1. k >= 1 /\ Text[1] = "local" /\ ~cmd.sent /\ ~cmd.stored /\ cmd.whenPrompt # <<>>
    BY <1>2, <1>21 DEF TriesAgain
  <2>2. far.at = "local" /\ Len(Text) = 1 /\ setup.protocol = "ssh"
    BY <1>5, <1>9, <2>1 DEF TokenFits, Newest, Answered
  <2>3. PICK word \in Words : Types(e, "local", word)
    BY <1>21 DEF TriesAgain
  <2>4. /\ typed = <<>> => Len(typed') = 1 /\ typed'[1].for = "local"
        /\ typed # <<>> => typed'[1] = typed[1]
        /\ \A i \in DOMAIN typed' : \/ i \in DOMAIN typed /\ typed'[i] = typed[i]
                                    \/ i = Len(typed') /\ typed'[i].for = "local"
    <3>1. "local" \in Phases \cup {"any"}
      BY DEF Phases
    <3>2. /\ typed = <<>> => Len(typed') = 1 /\ typed'[1].for = "local"
          /\ typed # <<>> => typed'[1] = typed[1]
      BY <1>11, <2>3, <3>1
    <3>3. \A i \in DOMAIN typed' :
            \/ i \in DOMAIN typed /\ typed'[i] = typed[i] /\ i # Len(typed')
            \/ i = Len(typed') /\ typed'[i].for = "local" /\ typed'[i].text = word
      BY <1>11, <2>3, <3>1
    <3> QED
      BY <3>2, <3>3
  <2>5. wire' = <<>> /\ ~full
    BY <1>6, <2>1, <2>2
  <2>6. cmd'.sent /\ ~cmd'.stored /\ cmd'.outcome = "running"
    BY <1>3, <1>21, <2>1, <2>5 DEF TriesAgain
  <2>7. CommandFits'
    BY <1>1, <1>9, <2>2, <2>6 DEF CommandFits
  <2>8. LocalTyped'
    BY <1>1, <1>7, <2>2, <2>4, <2>5, <2>6 DEF LocalTyped, OneAnswer
  <2>9. \A i \in DOMAIN typed' : typed'[i].text = "ssh" => typed'[i].for = "local"
    BY <1>8, <2>4
  <2> QED
    BY <1>1, <2>2, <2>7, <2>8, <2>9 DEF TypedFits
<1>22. CASE Sets(cmd, text, e)
  <2>1. CommandFits'
    BY <1>12, <1>22 DEF Sets
  <2>2. k >= 1 /\ Text[1] \in {"remote", "first"}
    BY <1>2, <1>22 DEF Sets
  <2>3. far.at = "shell"
    BY <1>5, <2>2 DEF TokenFits
  <2>4. PICK word \in Words : Types(e, "shell", word) /\ word # "ssh"
    BY <1>22 DEF Sets
  <2>5. \A i \in DOMAIN typed' :
            \/ i \in DOMAIN typed /\ typed'[i] = typed[i] /\ i # Len(typed')
            \/ i = Len(typed') /\ typed'[i].for = "shell" /\ typed'[i].text = word
    <3>1. "shell" \in Phases \cup {"any"}
      BY DEF Phases
    <3> QED
      BY <1>11, <2>4, <3>1
  <2>6. \A i \in DOMAIN typed' : typed'[i].text = "ssh" => typed'[i].for = "local"
    BY <1>8, <2>4, <2>5
  <2>7. \A i \in DOMAIN typed' : typed'[i].for \in {"any", "shell"}
    BY <1>8, <2>3, <2>5
  <2> QED
    BY <1>1, <2>1, <2>3, <2>6, <2>7 DEF TypedFits
<1> QED
  BY <1>4, <1>13, <1>14, <1>15, <1>16, <1>17, <1>18, <1>19, <1>20, <1>21, <1>22 DEF Answers

-----------------------------------------------------------------------------
\* A line that tells that the connection was lost, tells nothing else.
LEMMA LossIsALine ==
    ASSUME NEW text \in LineTexts, Has(text, "disconnected")
    PROVE  text = <<"disconnected">>
<1>1. Begins(text, "disconnected")
  BY Tests DEF Looked
<1>2. text \in {<<"disconnected">>, <<"denied">>}
  BY Tests DEF IsFailure
<1>3. text # <<"denied">>
  BY <1>1, Beginnings DEF Begins
<1> QED
  BY <1>2, <1>3

\* While the connection is lost, the command is told so before it types what logs in again.
LEMMA ReceiveKeepsLost ==
    ASSUME TypeInv, TextInv, LostInv, Receive
    PROVE  LostInv'
<1>1. /\ \E k \in Nat, full \in BOOLEAN : LineEnds(k, full) /\ Received(k, full)
      /\ cmd.outcome = "running" /\ UNCHANGED <<setup, far, misread, lost>>
  BY ReceiveIs
<1>2. PICK k \in Nat, full \in BOOLEAN : LineEnds(k, full) /\ Received(k, full)
  BY <1>1
<1> DEFINE text == SubSeq(Text, 1, k)
<1>3. PICK e \in Commands :
        /\ text \in LineTexts /\ Answers(cmd, text, e)
        /\ cmd' = [ForgetSent(e, full) EXCEPT !.out = <<>>]
        /\ typed' = typed \o e.out
        /\ excused => excused'
  BY <1>2 DEF Received
<1>4. /\ Text \in Seq(Tokens) /\ Len(Text) \in Nat /\ DOMAIN Text = 1..Len(Text)
      /\ line \in Seq(Tokens) /\ wire \in Seq(Tokens) /\ cmd \in Commands
      /\ typed \in Seq(Inputs) /\ k \in 0..Len(Text)
  BY <1>2, TextIs DEF TypeInv, LineEnds
<1>5. SUFFICES ASSUME lost, ~excused
               PROVE  /\ far'.at = "local"
                      /\ \A i \in DOMAIN typed' : typed'[i].text # "ssh"
                      /\ \/ cmd'.outcome # "running" \/ cmd'.stored
                         \/ \E d \in DOMAIN Text' :
                              /\ Text'[d] = "disconnected"
                              /\ \A i \in 1..d : Text'[i] = "local" => Answered(i)'
  BY <1>1, <1>3 DEF LostInv
<1>6. /\ far.at = "local"
      /\ \A i \in DOMAIN typed : typed[i].text # "ssh"
      /\ \/ cmd.stored
         \/ \E d \in DOMAIN Text :
              /\ Text[d] = "disconnected"
              /\ \A i \in 1..d : Text[i] = "local" => Answered(i)
  BY <1>1, <1>5 DEF LostInv
<1>7. /\ \A x : Begins(text, x) <=> k >= 1 /\ Text[1] = x
      /\ \A x : text = <<x>> => k = 1 /\ Text[1] = x
  BY <1>4, BeginsIs
<1>8. /\ cmd'.sent = (e.sent /\ ~full) /\ cmd'.stored = e.stored /\ cmd'.outcome = e.outcome
  BY <1>3, CommandAfter
<1>9. text \in Seq(Tokens) /\ Len(text) = k /\ (\A i \in 1..k : text[i] = Text[i])
      /\ DOMAIN text = 1..k
  BY <1>4, PrefixIs
<1> HIDE DEF text
<1>10. ~TriesAgain(cmd, text, e)
  <2>1. SUFFICES ASSUME Begins(text, "local"), ~cmd.stored, ~cmd.sent PROVE FALSE
    BY DEF TriesAgain
  <2>2. PICK d \in DOMAIN Text : \A i \in 1..d : Text[i] = "local" => Answered(i)
    BY <1>6, <2>1
  <2>3. 1 \in 1..d /\ Text[1] = "local"
    BY <1>4, <1>7, <2>1
  <2> QED
    BY <2>1, <2>2, <2>3 DEF Answered
<1>11. \A i \in DOMAIN typed' : typed'[i].text # "ssh"
  <2>1. \/ e.out = <<>>
        \/ \E phase \in Phases \cup {"any"}, word \in Words : Types(e, phase, word) /\ word # "ssh"
    <3>1. CASE LooksOn(cmd, text, e)
      BY <3>1 DEF LooksOn, TypeInv
    <3>2. CASE RemovesKey(cmd, text, e) \/ Fails(cmd, text, e) \/ Succeeds(cmd, text, e)
      BY <3>2 DEF RemovesKey, Fails, Succeeds
    <3>3. CASE Enters(cmd, text, e)
      <4>1. "" # "ssh" /\ Types(e, "any", "")
        BY <3>3 DEF Enters
      <4> QED
        BY <4>1, PlainWords
    <3>4. CASE SaysYes(cmd, text, e)
      <4>1. "yes" # "ssh" /\ Types(e, "confirm", "yes") /\ "confirm" \in Phases
        BY <3>4 DEF SaysYes, Phases
      <4> QED
        BY <4>1, PlainWords
    <3>5. CASE LogsIn(cmd, text, e)
      <4>1. "user" # "ssh" /\ Types(e, "login", "user") /\ "login" \in Phases
        BY <3>5 DEF LogsIn, Phases
      <4> QED
        BY <4>1, PlainWords
    <3>6. CASE GivesPassword(cmd, text, e)
      <4>1. "password" \in Phases
        BY DEF Phases
      <4> QED
        BY <3>6, <4>1 DEF GivesPassword
    <3>7. CASE Sets(cmd, text, e)
      <4>1. "shell" \in Phases
        BY DEF Phases
      <4> QED
        BY <3>7, <4>1 DEF Sets
    <3> QED
      BY <1>3, <1>10, <3>1, <3>2, <3>3, <3>4, <3>5, <3>6, <3>7 DEF Answers
  <2>2. CASE e.out = <<>>
    <3>1. typed' = typed
      BY <1>3, <1>4, <2>2, ConcatEmptySeq
    <3> QED
      BY <1>6, <3>1
  <2>3. CASE e.out # <<>>
    <3>1. PICK phase \in Phases \cup {"any"}, word \in Words : Types(e, phase, word) /\ word # "ssh"
      BY <2>1, <2>3
    <3> DEFINE x == [for |-> phase, text |-> word]
    <3>2. x \in Inputs /\ x.text # "ssh" /\ typed' = typed \o <<x>>
      BY <1>3, <3>1 DEF Inputs, Types
    <3> HIDE DEF x
    <3>3. \A i \in DOMAIN typed' : (i \in DOMAIN typed /\ typed'[i] = typed[i])
                                   \/ (i = Len(typed') /\ typed'[i] = x)
      BY <1>4, <3>2, OneMore
    <3> QED
      BY <1>6, <3>2, <3>3
  <2> QED
    BY <2>2, <2>3
<1>12. cmd.stored => e.stored
  BY <1>3 DEF Answers, LooksOn, Enters, SaysYes, RemovesKey, Fails, LogsIn, GivesPassword,
              Succeeds, TriesAgain, Sets
<1>13. ASSUME ~e.stored, e.outcome = "running"
       PROVE  \E d \in DOMAIN Text' :
                 /\ Text'[d] = "disconnected"
                 /\ \A i \in 1..d : Text'[i] = "local" => Answered(i)'
  <2>1. PICK d \in DOMAIN Text :
            /\ Text[d] = "disconnected"
            /\ \A i \in 1..d : Text[i] = "local" => Answered(i)
    BY <1>6, <1>12, <1>13
  <2>2. CASE ~full
    <3>1. Text' = Text /\ line' # <<>>
      <4>1. Text' = Text /\ line' = SubSeq(Text, 1, k) /\ k > Len(line)
        BY <1>2, <2>2 DEF LineEnds
      <4>2. Len(line') = k /\ Len(line) \in Nat
        BY <1>4, <4>1, PrefixIs
      <4> QED
        BY <4>1, <4>2
    <3>2. ASSUME NEW i \in 1..d, Text[i] = "local" PROVE Answered(i)'
      <4>1. i = 1 /\ cmd.sent /\ line # <<>>
        BY <2>1, <3>2 DEF Answered
      <4>2. e.sent
        <5>1. text \notin {<<"login:">>, <<"Last", "login:">>}
          <6>1. Text[1] = "local"
            BY <3>2, <4>1
          <6>2. ~Begins(text, "login:") /\ ~Begins(text, "Last")
            BY <1>7, <6>1
          <6> QED
            BY <6>2, Beginnings
        <5> QED
          BY <1>3, <1>4, <4>1, <5>1, SentAfter
      <4> QED
        BY <1>8, <2>2, <3>1, <4>1, <4>2 DEF Answered
    <3> QED
      BY <2>1, <3>1, <3>2
  <2>3. CASE full
    <3> DEFINE m == k + 1
    <3>1. /\ m \in 1..Len(Text) /\ Text[m] = Newline /\ k < Len(Text)
          /\ Len(Text') = Len(Text) - m
          /\ \A j \in 1..(Len(Text) - m) : Text'[j] = Text[j + m]
          /\ Text' = SubSeq(Text, m + 1, Len(Text))
      BY <1>2, <1>4, <2>3 DEF LineEnds
    <3>2. d > m
      <4>1. ASSUME d \in 1..k PROVE FALSE
        <5>1. Has(text, "disconnected")
          BY <1>9, <2>1, <4>1 DEF Has, ToSet
        <5>2. text = <<"disconnected">>
          BY <1>3, <5>1, LossIsALine
        <5>3. Fails(cmd, text, e)
          <6>1. \A x : Begins(text, x) => x = "disconnected"
            BY <5>2, Beginnings DEF Begins
          <6>2. ~LogsIn(cmd, text, e) /\ ~RemovesKey(cmd, text, e)
            <7>1. /\ ~Begins(text, "login:") /\ ~Begins(text, "Last") /\ ~Begins(text, "bad_key")
                  /\ ~Begins(text, "denied")
              BY <6>1
            <7> QED
              BY <7>1, Beginnings DEF LogsIn, RemovesKey
          <6>3. ~LooksOn(cmd, text, e)
            BY <5>2 DEF LooksOn
          <6> QED
            BY <1>3, <6>1, <6>2, <6>3
            DEF Answers, Enters, SaysYes, GivesPassword, Succeeds, TriesAgain, Sets
        <5> QED
          BY <1>13, <5>3 DEF Fails
      <4>2. d # m
        BY <2>1, <3>1 DEF Newline
      <4>3. d \in 1..Len(Text)
        BY <1>4, <2>1
      <4> QED
        BY <1>4, <4>1, <4>2, <4>3
    <3>3. DOMAIN Text' = 1..(Len(Text) - m)
      <4>1. m \in 0..Len(Text) /\ Len(Text) \in Nat
        <5>1. m \in 1..Len(Text)
          BY <3>1
        <5> HIDE DEF m
        <5> QED
          BY <1>4, <5>1
      <4>2. Text' \in Seq(Tokens)
        BY <1>4, <3>1, <4>1, RestIs
      <4> QED
        BY <3>1, <4>2
    <3>4. d \in 1..Len(Text) /\ m \in 1..Len(Text)
      BY <1>4, <2>1, <3>1
    <3> HIDE DEF m
    <3>5. d - m \in 1..(Len(Text) - m) /\ (d - m) + m = d
      BY <1>4, <3>2, <3>4
    <3>6. Text'[d - m] = "disconnected"
      BY <2>1, <3>1, <3>5
    <3>7. ASSUME NEW i \in 1..(d - m), Text'[i] = "local" PROVE FALSE
      <4>1. i \in 1..(Len(Text) - m) /\ i + m \in 1..d /\ i + m # 1
        BY <1>4, <3>4, <3>5
      <4>2. Text[i + m] = "local"
        BY <3>1, <3>7, <4>1
      <4> QED
        BY <2>1, <4>1, <4>2 DEF Answered
    <3> QED
      BY <3>3, <3>5, <3>6, <3>7
  <2> QED
    BY <2>2, <2>3
<1>14. e.stored \/ e.outcome # "running" \/ (~e.stored /\ e.outcome = "running")
  OBVIOUS
<1> QED
  BY <1>1, <1>6, <1>8, <1>11, <1>13, <1>14

\* While the connection lasts, what the command answers is what it is asked for.
LEMMA ReceiveKeepsConnected ==
    ASSUME TypeInv, TextInv, ConnectedInv, Receive
    PROVE  ConnectedInv'
<1>1. /\ \E k \in Nat, full \in BOOLEAN : LineEnds(k, full) /\ Received(k, full)
      /\ cmd.outcome = "running" /\ UNCHANGED <<setup, far, misread, lost>>
  BY ReceiveIs
<1>2. PICK k \in Nat, full \in BOOLEAN : LineEnds(k, full) /\ Received(k, full)
  BY <1>1
<1>3. PICK e \in Commands :
        /\ Answers(cmd, SubSeq(Text, 1, k), e)
        /\ cmd' = [ForgetSent(e, full) EXCEPT !.out = <<>>]
        /\ typed' = typed \o e.out
        /\ excused => excused'
        /\ ~excused' => SubSeq(Text, 1, k) \notin {<<"denied">>, <<"Last", "login:">>}
  BY <1>2 DEF Received
<1>4. SUFFICES ASSUME ~lost, ~excused' PROVE ~misread' /\ TokensFit' /\ TypedFits' /\ CommandFits'
  BY <1>1 DEF ConnectedInv
<1>5. ~misread /\ TokensFit /\ TypedFits /\ CommandFits
  BY <1>3, <1>4 DEF ConnectedInv
<1>6. SubSeq(Text, 1, k) \notin {<<"denied">>, <<"Last", "login:">>}
  BY <1>3, <1>4
<1>7. TokensFit'
  <2>1. SubSeq(Text, 1, k) # <<"Last", "login:">> /\ UNCHANGED far
    BY <1>1, <1>6
  <2> QED
    BY <1>2, <1>3, <1>5, <2>1, ReceiveKeepsTokens
<1>8. TypedFits' /\ CommandFits'
  <2>1. UNCHANGED <<setup, far>>
    BY <1>1
  <2> QED
    BY <1>1, <1>2, <1>3, <1>5, <1>6, <2>1, ReceiveKeepsAnswers
<1> QED
  BY <1>1, <1>5, <1>7, <1>8

-----------------------------------------------------------------------------
(* The far end prints.                                                      *)

\* What the places of one sequence behind another are.
LEMMA Joined ==
    ASSUME NEW S, NEW a \in Seq(S), NEW b \in Seq(S)
    PROVE  /\ a \o b \in Seq(S) /\ Len(a \o b) = Len(a) + Len(b)
           /\ DOMAIN (a \o b) = 1..(Len(a) + Len(b))
           /\ \A i \in 1..Len(a) : (a \o b)[i] = a[i]
           /\ \A i \in 1..Len(b) : (a \o b)[Len(a) + i] = b[i]
           /\ \A i \in 1..(Len(a) + Len(b)) : i \in 1..Len(a) \/ \E j \in 1..Len(b) : i = Len(a) + j
<1> DEFINE t == a \o b
<1>1. /\ Len(a) \in Nat /\ Len(b) \in Nat
      /\ t \in Seq(S) /\ Len(t) = Len(a) + Len(b)
      /\ \A i \in 1..(Len(a) + Len(b)) : t[i] = IF i <= Len(a) THEN a[i] ELSE b[i - Len(a)]
  BY ConcatProperties
<1> HIDE DEF t
<1>2. DOMAIN t = 1..(Len(a) + Len(b))
  BY <1>1
<1>3. \A i \in 1..Len(a) : t[i] = a[i]
  BY <1>1
<1>4. ASSUME NEW i \in 1..Len(b) PROVE t[Len(a) + i] = b[i]
  <2>1. /\ Len(a) + i \in 1..(Len(a) + Len(b)) /\ ~(Len(a) + i <= Len(a))
        /\ (Len(a) + i) - Len(a) = i
    BY <1>1
  <2> QED
    BY <1>1, <2>1
<1>5. ASSUME NEW i \in 1..(Len(a) + Len(b)), i \notin 1..Len(a)
      PROVE  \E j \in 1..Len(b) : i = Len(a) + j
  <2>1. i - Len(a) \in 1..Len(b) /\ i = Len(a) + (i - Len(a))
    BY <1>1, <1>5
  <2> QED
    BY <2>1
<1> QED
  BY <1>1, <1>2, <1>3, <1>4, <1>5 DEF t

\* No "Last login:" is cut in two.
NoLast(t) == t # <<>> /\ t[Len(t)] # "Last" /\ (Len(t) > 1 => t[Len(t) - 1] # "Last")

\* What is printed behind what was printed.
LEMMA JoinedIsChained ==
    ASSUME NEW a \in Seq(Tokens), NEW b \in Seq(Tokens), Chained(a), NoLast(a),
           \A i \in 1..(Len(b) - 1) : Follows(b[i], b[i + 1]),
           \A i \in 1..(Len(b) - 2) : b[i] = "Last" => b[i + 2] = "date",
           b # <<>> => Follows(a[Len(a)], b[1])
    PROVE  Chained(a \o b)
<1> DEFINE t == a \o b  l == Len(a)
<1>1. /\ t \in Seq(Tokens) /\ Len(t) = l + Len(b) /\ l \in Nat /\ Len(b) \in Nat
      /\ \A i \in 1..l : t[i] = a[i]
      /\ \A i \in 1..Len(b) : t[l + i] = b[i]
  BY Joined
<1>2. l > 0
  BY EmptySeq DEF NoLast
<1>3. /\ a[1] \in Firsts /\ a[l] # "Last" /\ (l > 1 => a[l - 1] # "Last")
      /\ \A i \in 1..(l - 1) : Follows(a[i], a[i + 1])
      /\ \A i \in 1..(l - 2) : a[i] = "Last" => a[i + 2] = "date"
  BY DEF Chained, NoLast
<1>4. Len(b) > 0 => Follows(a[l], b[1])
  <2>1. b = <<>> => Len(b) = 0
    OBVIOUS
  <2> QED
    BY <2>1
<1> HIDE DEF t, l
<1>5. t[1] \in Firsts
  BY <1>1, <1>2, <1>3
<1>6. ASSUME NEW i \in 1..(Len(t) - 1) PROVE Follows(t[i], t[i + 1])
  <2>1. CASE i < l
    <3>1. i \in 1..(l - 1) /\ i \in 1..l /\ i + 1 \in 1..l
      BY <1>1, <2>1
    <3> QED
      BY <1>1, <1>3, <3>1
  <2>2. CASE i = l
    <3>1. i \in 1..l /\ 1 \in 1..Len(b) /\ i + 1 = l + 1 /\ Len(b) > 0
      BY <1>1, <1>2, <2>2
    <3>2. t[i] = a[l] /\ t[i + 1] = b[1]
      BY <1>1, <2>2, <3>1
    <3> QED
      BY <1>4, <3>1, <3>2
  <2>3. CASE i > l
    <3> DEFINE j == i - l
    <3>1. /\ j \in 1..(Len(b) - 1) /\ j \in 1..Len(b) /\ j + 1 \in 1..Len(b)
          /\ i = l + j /\ i + 1 = l + (j + 1)
      BY <1>1, <2>3
    <3> HIDE DEF j
    <3>2. t[l + j] = b[j] /\ t[l + (j + 1)] = b[j + 1]
      BY <1>1, <3>1
    <3> QED
      BY <3>1, <3>2
  <2> QED
    BY <1>1, <2>1, <2>2, <2>3
<1>7. ASSUME NEW i \in 1..(Len(t) - 2), t[i] = "Last" PROVE t[i + 2] = "date"
  <2>1. CASE i \in 1..l
    <3>1. a[i] = "Last"
      BY <1>1, <1>7, <2>1
    <3>2. i # l /\ i # l - 1
      <4>1. i = l - 1 => l > 1
        BY <1>1, <2>1
      <4> QED
        BY <1>3, <3>1, <4>1
    <3>3. i \in 1..(l - 2) /\ i + 2 \in 1..l
      BY <1>1, <2>1, <3>2
    <3> QED
      BY <1>1, <1>3, <3>1, <3>3
  <2>2. CASE i \notin 1..l
    <3> DEFINE j == i - l
    <3>1. /\ j \in 1..(Len(b) - 2) /\ j \in 1..Len(b) /\ j + 2 \in 1..Len(b)
          /\ i = l + j /\ i + 2 = l + (j + 2)
      BY <1>1, <2>2
    <3> HIDE DEF j
    <3>2. t[l + j] = b[j] /\ t[l + (j + 2)] = b[j + 2]
      BY <1>1, <3>1
    <3> QED
      BY <1>7, <3>1, <3>2
  <2> QED
    BY <2>1, <2>2
<1>8. Chained(t)
  BY <1>5, <1>6, <1>7 DEF Chained
<1> QED
  BY <1>8 DEF t

\* It waits where what was printed last waits.
LEMMA JoinedWaits ==
    ASSUME NEW a \in Seq(Tokens), NEW b \in Seq(Tokens), NEW prompts, Waits(b, prompts),
           a = <<>> \/ a[Len(a)] # "Last"
    PROVE  Waits(a \o b, prompts)
<1> DEFINE t == a \o b  l == Len(a)
<1>1. /\ t \in Seq(Tokens) /\ Len(t) = l + Len(b) /\ l \in Nat /\ Len(b) \in Nat
      /\ \A i \in 1..l : t[i] = a[i]
      /\ \A i \in 1..Len(b) : t[l + i] = b[i]
  BY Joined
<1>2. Len(b) > 0 /\ b[Len(b)] \in prompts /\ (Len(b) > 1 => b[Len(b) - 1] # "Last")
  BY EmptySeq DEF Waits
<1>3. a = <<>> => l = 0
  OBVIOUS
<1> HIDE DEF t
<1>4. t[Len(t)] \in prompts /\ t # <<>>
  <2>1. Len(b) \in 1..Len(b) /\ Len(t) # 0
    BY <1>1, <1>2
  <2>2. t = <<>> => Len(t) = 0
    OBVIOUS
  <2> QED
    BY <1>1, <1>2, <2>1, <2>2
<1>5. ASSUME Len(t) > 1 PROVE t[Len(t) - 1] # "Last"
  <2>1. CASE Len(b) > 1
    <3>1. Len(b) - 1 \in 1..Len(b) /\ Len(t) - 1 = l + (Len(b) - 1)
      BY <1>1, <2>1
    <3> QED
      BY <1>1, <1>2, <2>1, <3>1
  <2>2. CASE Len(b) = 1
    <3>1. Len(t) - 1 = l /\ l \in 1..l /\ l # 0
      BY <1>1, <1>5, <2>2
    <3> QED
      BY <1>1, <1>3, <3>1
  <2>3. Len(b) > 1 \/ Len(b) = 1
    <3>1. \A n \in Nat : n > 0 => n > 1 \/ n = 1
      OBVIOUS
    <3>2. Len(b) \in Nat /\ Len(b) > 0
      BY <1>1, <1>2
    <3> QED
      BY <3>1, <3>2, Zenon
  <2> QED
    BY <2>1, <2>2, <2>3
<1>6. Waits(t, prompts)
  BY <1>4, <1>5 DEF Waits
<1> QED
  BY <1>6 DEF t

\* Where each token of what is printed at once may be.
NewFits(tokens, at) ==
    \A i \in DOMAIN tokens :
        /\ tokens[i] = "password:" => i = Len(tokens) /\ at = "password"
        /\ tokens[i] = "local" => i = Len(tokens) /\ at = "local"
        /\ tokens[i] = "yes/no" => i = Len(tokens) /\ at = "confirm"
        /\ tokens[i] = "login:" => (i > 1 /\ tokens[i - 1] = "Last") \/ at = "login"
        /\ tokens[i] \in {"Last", "connected", "resize"} => at \in {"shell", "resize"}
        /\ tokens[i] \in {"remote", "first"} => at = "shell"
        /\ tokens[i] \in {"id_dsa", "bad_key", "disconnected"} => at = "local"
        /\ tokens[i] = "denied" => \/ at = "local"
                                   \/ at = "password" /\ i < Len(tokens) /\ tokens[i + 1] = "again"
\* It ends with the prompt of the phase that comes.
Prints(tokens, at) ==
    /\ tokens \in Seq(Tokens) /\ Chained(tokens) /\ Waits(tokens, PromptsAt(at))
\* It is a line.
IsLine(tokens) ==
    /\ tokens \in Seq(Tokens) /\ Chained(tokens) /\ NoLast(tokens)
    /\ tokens[Len(tokens)] = Newline

\* A prompt alone.
LEMMA PromptPrints ==
    ASSUME NEW at \in Phases, NEW p \in PromptsAt(at)
    PROVE  /\ Prints(<<p>>, at)
           /\ at # "stopped" /\ (p = "resize" => at = "resize") => NewFits(<<p>>, at)
<1> DEFINE t == <<p>>
<1>1. p \in Prompts /\ p \in Tokens /\ p \in Firsts
  BY DEF PromptsAt, Prompts, Tokens, Firsts
<1>2. t \in Seq(Tokens) /\ Len(t) = 1 /\ t[1] = p /\ t # <<>> /\ DOMAIN t = {1}
  BY <1>1
<1> HIDE DEF t
<1>3. Chained(t) /\ Waits(t, PromptsAt(at))
  BY <1>1, <1>2 DEF Chained, Waits
<1>4. ASSUME at # "stopped" PROVE NewFits(t, at)
  <2>1. \/ at = "confirm" /\ p = "yes/no"
        \/ at = "login" /\ p = "login:"
        \/ at = "password" /\ p = "password:"
        \/ at = "resize" /\ p = "resize"
        \/ at = "local" /\ p = "local"
        \/ at = "shell" /\ p \in {"remote", "first"}
    BY <1>4 DEF PromptsAt, Phases
  <2> QED
    BY <1>2, <2>1 DEF NewFits
<1> QED
  BY <1>2, <1>3, <1>4 DEF Prints, t

\* A line, and what is printed behind it.
LEMMA LinePrints ==
    ASSUME NEW first, IsLine(first), NEW tokens, NEW at, Prints(tokens, at)
    PROVE  /\ Prints(first \o tokens, at)
           /\ NewFits(first, at) /\ NewFits(tokens, at) => NewFits(first \o tokens, at)
<1> DEFINE t == first \o tokens  l == Len(first)
<1>0. first \in Seq(Tokens) /\ tokens \in Seq(Tokens)
  BY DEF IsLine, Prints
<1>1. /\ t \in Seq(Tokens) /\ Len(t) = l + Len(tokens) /\ l \in Nat /\ Len(tokens) \in Nat
      /\ DOMAIN t = 1..(l + Len(tokens))
      /\ \A i \in 1..l : t[i] = first[i]
      /\ \A i \in 1..Len(tokens) : t[l + i] = tokens[i]
      /\ \A i \in 1..(l + Len(tokens)) : i \in 1..l \/ \E j \in 1..Len(tokens) : i = l + j
  BY <1>0, Joined
<1>2. first # <<>> /\ l > 0 /\ first[l] = Newline /\ NoLast(first) /\ Chained(first)
  BY <1>0, EmptySeq DEF IsLine, NoLast
<1>3. Chained(tokens) /\ Waits(tokens, PromptsAt(at)) /\ tokens # <<>> /\ tokens[1] \in Firsts
  BY DEF Prints, Waits, Chained
<1>4. Follows(first[l], tokens[1])
  BY <1>2, <1>3 DEF Follows, Newline, Prompts
<1>5. Chained(t)
  <2>1. /\ \A i \in 1..(Len(tokens) - 1) : Follows(tokens[i], tokens[i + 1])
        /\ \A i \in 1..(Len(tokens) - 2) : tokens[i] = "Last" => tokens[i + 2] = "date"
    BY <1>3 DEF Chained
  <2> QED
    BY <1>0, <1>2, <1>4, <2>1, JoinedIsChained
<1>6. Waits(t, PromptsAt(at))
  <2>1. first[Len(first)] # "Last"
    BY <1>2 DEF Newline
  <2> QED
    BY <1>0, <1>3, <2>1, JoinedWaits
<1> HIDE DEF t
<1>7. ASSUME NewFits(first, at), NewFits(tokens, at) PROVE NewFits(t, at)
  <2> HIDE DEF l
  <2>1. SUFFICES ASSUME NEW i \in DOMAIN t
                 PROVE  /\ t[i] = "password:" => i = Len(t) /\ at = "password"
                        /\ t[i] = "local" => i = Len(t) /\ at = "local"
                        /\ t[i] = "yes/no" => i = Len(t) /\ at = "confirm"
                        /\ t[i] = "login:" => (i > 1 /\ t[i - 1] = "Last") \/ at = "login"
                        /\ t[i] \in {"Last", "connected", "resize"} => at \in {"shell", "resize"}
                        /\ t[i] \in {"remote", "first"} => at = "shell"
                        /\ t[i] \in {"id_dsa", "bad_key", "disconnected"} => at = "local"
                        /\ t[i] = "denied" => \/ at = "local"
                                              \/ at = "password" /\ i < Len(t) /\ t[i + 1] = "again"
    BY DEF NewFits
  <2>2. CASE i \in 1..l
    <3>1. /\ i \in DOMAIN first /\ Len(first) = l /\ t[i] = first[i]
          /\ i = l => first[i] = "newline"
          /\ i > 1 => i - 1 \in 1..l
          /\ i < l => i + 1 \in 1..l
          /\ i < l => i < Len(t)
      BY <1>0, <1>1, <1>2, <2>2 DEF l, Newline
    <3>2. /\ i > 1 => t[i - 1] = first[i - 1]
          /\ i < l => t[i + 1] = first[i + 1]
      BY <1>1, <3>1
    <3>3. /\ first[i] = "password:" => i = l
          /\ first[i] = "local" => i = l
          /\ first[i] = "yes/no" => i = l
          /\ first[i] = "login:" => (i > 1 /\ first[i - 1] = "Last") \/ at = "login"
          /\ first[i] \in {"Last", "connected", "resize"} => at \in {"shell", "resize"}
          /\ first[i] \in {"remote", "first"} => at = "shell"
          /\ first[i] \in {"id_dsa", "bad_key", "disconnected"} => at = "local"
          /\ first[i] = "denied" => \/ at = "local"
                                    \/ at = "password" /\ i < l /\ first[i + 1] = "again"
      BY <1>7, <3>1 DEF NewFits
    <3> QED
      BY <3>1, <3>2, <3>3
  <2>3. CASE i \notin 1..l
    <3>1. PICK j \in 1..Len(tokens) : i = l + j
      BY <1>1, <2>1, <2>3
    <3>2. /\ j \in DOMAIN tokens /\ t[i] = tokens[j]
          /\ j > 1 => j - 1 \in 1..Len(tokens) /\ i - 1 = l + (j - 1) /\ i > 1
          /\ j < Len(tokens) => j + 1 \in 1..Len(tokens) /\ i + 1 = l + (j + 1)
          /\ j < Len(tokens) => i < Len(t)
          /\ j = Len(tokens) => i = Len(t)
      BY <1>0, <1>1, <3>1
    <3>5. /\ j > 1 => t[l + (j - 1)] = tokens[j - 1]
          /\ j < Len(tokens) => t[l + (j + 1)] = tokens[j + 1]
      BY <1>1, <3>2
    <3>3. /\ j > 1 => t[i - 1] = tokens[j - 1]
          /\ j < Len(tokens) => t[i + 1] = tokens[j + 1]
      BY <3>2, <3>5
    <3>4. /\ tokens[j] = "password:" => j = Len(tokens) /\ at = "password"
          /\ tokens[j] = "local" => j = Len(tokens) /\ at = "local"
          /\ tokens[j] = "yes/no" => j = Len(tokens) /\ at = "confirm"
          /\ tokens[j] = "login:" => (j > 1 /\ tokens[j - 1] = "Last") \/ at = "login"
          /\ tokens[j] \in {"Last", "connected", "resize"} => at \in {"shell", "resize"}
          /\ tokens[j] \in {"remote", "first"} => at = "shell"
          /\ tokens[j] \in {"id_dsa", "bad_key", "disconnected"} => at = "local"
          /\ tokens[j] = "denied" =>
                \/ at = "local"
                \/ at = "password" /\ j < Len(tokens) /\ tokens[j + 1] = "again"
      BY <1>7, <3>2 DEF NewFits
    <3> QED
      BY <3>2, <3>3, <3>4
  <2> QED
    BY <2>2, <2>3
<1> QED
  BY <1>1, <1>5, <1>6, <1>7 DEF Prints, t

\* The lines that are printed.
LEMMA Lines ==
    /\ \A x \in {"connected", "id_dsa", "bad_key", "disconnected"} :
          /\ IsLine(<<x, Newline>>)
          /\ NewFits(<<x, Newline>>, IF x = "connected" THEN "shell" ELSE "local")
    /\ \A y \in {"again", "methods"} :
          /\ IsLine(<<"denied", y, Newline>>)
          /\ NewFits(<<"denied", y, Newline>>, "local")
          /\ y = "again" => NewFits(<<"denied", y, Newline>>, "password")
    /\ IsLine(LastLogin)
    /\ NewFits(LastLogin, "shell") /\ NewFits(LastLogin, "resize")
<1>1. ASSUME NEW x \in {"connected", "id_dsa", "bad_key", "disconnected"}
      PROVE  /\ IsLine(<<x, Newline>>)
             /\ NewFits(<<x, Newline>>, IF x = "connected" THEN "shell" ELSE "local")
  <2> DEFINE t == <<x, Newline>>
  <2>1. x \in Firsts /\ x \in Tokens /\ Newline \in Tokens /\ Follows(x, Newline)
    BY DEF Firsts, Tokens, Prompts, Follows, Newline
  <2>2. /\ t \in Seq(Tokens) /\ Len(t) = 2 /\ t[1] = x /\ t[2] = Newline /\ t # <<>>
        /\ DOMAIN t = {1, 2}
    BY <2>1
  <2> HIDE DEF t
  <2>3. Chained(t)
    BY <2>1, <2>2 DEF Chained
  <2>4. NoLast(t)
    BY <2>2 DEF NoLast, Newline
  <2>5. NewFits(t, IF x = "connected" THEN "shell" ELSE "local")
    BY <2>2 DEF NewFits, Newline
  <2> QED
    BY <2>2, <2>3, <2>4, <2>5 DEF IsLine, t
<1>2. ASSUME NEW y \in {"again", "methods"}
      PROVE  /\ IsLine(<<"denied", y, Newline>>)
             /\ NewFits(<<"denied", y, Newline>>, "local")
             /\ y = "again" => NewFits(<<"denied", y, Newline>>, "password")
  <2> DEFINE d == "denied"
             t == <<d, y, Newline>>
  <2>0. d = "denied"
    OBVIOUS
  <2> HIDE DEF d
  <2>1. d \in Firsts /\ d \in Tokens /\ y \in Tokens /\ Newline \in Tokens
        /\ Follows(d, y) /\ Follows(y, Newline)
    BY <2>0 DEF Firsts, Tokens, Prompts, Follows, Newline
  <2>2. /\ t \in Seq(Tokens) /\ Len(t) = 3 /\ t[1] = d /\ t[2] = y /\ t[3] = Newline /\ t # <<>>
        /\ DOMAIN t = {1, 2, 3}
    BY <2>1
  <2> HIDE DEF t
  <2>3. Chained(t)
    <3>1. 1..(3 - 1) = {1, 2} /\ 1..(3 - 2) = {1} /\ 1 + 1 = 2 /\ 2 + 1 = 3
      OBVIOUS
    <3> QED
      BY <2>0, <2>1, <2>2, <3>1 DEF Chained
  <2>4. NoLast(t)
    BY <2>2 DEF NoLast, Newline
  <2>5. NewFits(t, "local") /\ (y = "again" => NewFits(t, "password"))
    BY <2>0, <2>2 DEF NewFits, Newline
  <2> QED
    BY <2>0, <2>2, <2>3, <2>4, <2>5 DEF IsLine, t
<1>3. IsLine(LastLogin) /\ NewFits(LastLogin, "shell") /\ NewFits(LastLogin, "resize")
  <2> DEFINE a == "Last"  b == "login:"  c == "date"
             t == <<a, b, c, Newline>>
  <2>0. a = "Last" /\ b = "login:" /\ c = "date"
    OBVIOUS
  <2>00. LastLogin = t
    BY DEF LastLogin
  <2> HIDE DEF a, b, c
  <2>1. a \in Firsts /\ a \in Tokens /\ b \in Tokens /\ c \in Tokens /\ Newline \in Tokens
        /\ Follows(a, b) /\ Follows(b, c) /\ Follows(c, Newline)
    BY <2>0 DEF Firsts, Tokens, Prompts, Follows, Newline
  <2>2. /\ t \in Seq(Tokens) /\ Len(t) = 4 /\ t[1] = a /\ t[2] = b /\ t[3] = c /\ t[4] = Newline
        /\ t # <<>> /\ DOMAIN t = {1, 2, 3, 4}
    BY <2>1
  <2> HIDE DEF t
  <2>3. Chained(t)
    <3>1. 1..(4 - 1) = {1, 2, 3} /\ 1..(4 - 2) = {1, 2} /\ 1 + 1 = 2 /\ 2 + 1 = 3 /\ 3 + 1 = 4
          /\ 1 + 2 = 3 /\ 2 + 2 = 4
      OBVIOUS
    <3>2. b # "Last"
      BY <2>0
    <3> QED
      BY <2>0, <2>1, <2>2, <3>1, <3>2 DEF Chained
  <2>4. NoLast(t)
    BY <2>0, <2>2 DEF NoLast, Newline
  <2>5. NewFits(t, "shell") /\ NewFits(t, "resize")
    BY <2>0, <2>2 DEF NewFits, Newline
  <2> QED
    BY <2>00, <2>2, <2>3, <2>4, <2>5 DEF IsLine
<1> QED
  BY <1>1, <1>2, <1>3

\* A prompt behind a line.
LEMMA TuplesJoin ==
    ASSUME NEW a, NEW b, NEW c, NEW d
    PROVE  <<a, b>> \o <<d>> = <<a, b, d>> /\ <<a, b, c>> \o <<d>> = <<a, b, c, d>>
<1> DEFINE S == {a, b, c, d}  x == <<a, b>>  y == <<a, b, c>>  z == <<d>>
           t == <<a, b, d>>  u == <<a, b, c, d>>
<1>1. a \in S /\ b \in S /\ c \in S /\ d \in S
  OBVIOUS
<1> HIDE DEF S
<1>2. /\ x \in Seq(S) /\ Len(x) = 2 /\ x[1] = a /\ x[2] = b
      /\ y \in Seq(S) /\ Len(y) = 3 /\ y[1] = a /\ y[2] = b /\ y[3] = c
      /\ z \in Seq(S) /\ Len(z) = 1 /\ z[1] = d
      /\ t \in Seq(S) /\ Len(t) = 3 /\ t[1] = a /\ t[2] = b /\ t[3] = d
      /\ u \in Seq(S) /\ Len(u) = 4 /\ u[1] = a /\ u[2] = b /\ u[3] = c /\ u[4] = d
  BY <1>1
<1> HIDE DEF x, y, z, t, u
<1>3. x \o z = t
  <2>0. /\ x \o z \in Seq(S) /\ Len(x \o z) = Len(x) + Len(z)
        /\ \A i \in 1..(Len(x) + Len(z)) :
              (x \o z)[i] = IF i <= Len(x) THEN x[i] ELSE z[i - Len(x)]
    BY <1>2, ConcatProperties
  <2>1. /\ x \o z \in Seq(S) /\ Len(x \o z) = 3
        /\ \A i \in 1..3 : (x \o z)[i] = IF i <= 2 THEN x[i] ELSE z[i - 2]
    BY <1>2, <2>0
  <2>2. \A i \in 1..3 : (x \o z)[i] = t[i]
    BY <1>2, <2>1
  <2> QED
    BY <1>2, <2>1, <2>2, SeqEqual
<1>4. y \o z = u
  <2>0. /\ y \o z \in Seq(S) /\ Len(y \o z) = Len(y) + Len(z)
        /\ \A i \in 1..(Len(y) + Len(z)) :
              (y \o z)[i] = IF i <= Len(y) THEN y[i] ELSE z[i - Len(y)]
    BY <1>2, ConcatProperties
  <2>1. /\ y \o z \in Seq(S) /\ Len(y \o z) = 4
        /\ \A i \in 1..4 : (y \o z)[i] = IF i <= 3 THEN y[i] ELSE z[i - 3]
    BY <1>2, <2>0
  <2>2. \A i \in 1..4 : (y \o z)[i] = u[i]
    BY <1>2, <2>1
  <2> QED
    BY <1>2, <2>1, <2>2, SeqEqual
<1> QED
  BY <1>3, <1>4 DEF x, y, z, t, u

\* What the host prints at first, and what it shows when it lets in.
LEMMA OpeningPrints ==
    ASSUME setup \in Setups, NEW key \in Keys
    PROVE  /\ OpensIn(key) \in Phases \ {"stopped"} /\ Prints(Opening(key), OpensIn(key))
           /\ setup.protocol = "ssh" => /\ OpensIn(key) # "login"
                                        /\ NewFits(Opening(key), OpensIn(key))
           /\ OpensIn(key) = "login" => setup.protocol = "telnet"
           /\ OpensIn(key) = "confirm" => setup.protocol = "ssh"
           /\ setup.protocol = "telnet" =>
                \/ Opening(key) = <<"login:">>
                \/ Opening(key) = <<"connected", Newline>> \o <<"login:">>
<1>1. setup.protocol \in {"ssh", "telnet"} /\ setup.idDsa \in BOOLEAN
  BY SetupsAssumption
<1>2. /\ setup.protocol = "telnet" => OpensIn(key) = "login"
      /\ setup.protocol = "ssh" => /\ key = "unknown" => OpensIn(key) = "confirm"
                                   /\ key = "known" => OpensIn(key) = "password"
                                   /\ key = "changed" => OpensIn(key) = "local"
  BY <1>1 DEF OpensIn
<1>3. /\ OpensIn(key) = "login" => Opening(key) = Banner("before login") \o <<"login:">>
      /\ OpensIn(key) = "confirm" => Opening(key) = <<"yes/no">>
      /\ OpensIn(key) = "password" => Opening(key) = <<"password:">>
      /\ OpensIn(key) = "local" =>
            Opening(key) = (IF setup.idDsa THEN <<"id_dsa", Newline>> ELSE <<>>)
                           \o <<"bad_key", Newline, "local">>
  BY DEF Opening
<1>4. key \in {"unknown", "known", "changed"}
  BY DEF Keys
<1> HIDE DEF OpensIn
<1>5. CASE setup.protocol = "telnet"
  <2>1. Prints(<<"login:">>, "login")
    <3>1. "login" \in Phases /\ "login:" \in PromptsAt("login")
      BY DEF Phases, PromptsAt
    <3> QED
      BY <3>1, PromptPrints
  <2>2. Prints(<<"connected", Newline>> \o <<"login:">>, "login")
    <3>1. IsLine(<<"connected", Newline>>)
      BY Lines
    <3> QED
      BY <2>1, <3>1, LinePrints
  <2>3. Opening(key) = <<"login:">> \/ Opening(key) = <<"connected", Newline>> \o <<"login:">>
    <3>1. \A place : Banner(place) = <<"connected", Newline>> \/ Banner(place) = <<>>
      BY DEF Banner
    <3>2. Opening(key) = Banner("before login") \o <<"login:">>
      BY <1>2, <1>3, <1>5
    <3>3. <<>> \o <<"login:">> = <<"login:">>
      OBVIOUS
    <3> QED
      BY <3>1, <3>2, <3>3, Zenon
  <2>4. OpensIn(key) = "login" /\ "login" \in Phases \ {"stopped"}
    BY <1>2, <1>5 DEF Phases
  <2> QED
    BY <1>5, <2>1, <2>2, <2>3, <2>4
<1>6. CASE setup.protocol = "ssh" /\ key \in {"unknown", "known"}
  <2>1. \/ OpensIn(key) = "confirm" /\ Opening(key) = <<"yes/no">>
        \/ OpensIn(key) = "password" /\ Opening(key) = <<"password:">>
    BY <1>2, <1>3, <1>6
  <2>2. /\ "confirm" \in Phases /\ "yes/no" \in PromptsAt("confirm")
        /\ "password" \in Phases /\ "password:" \in PromptsAt("password")
    BY DEF Phases, PromptsAt
  <2>3. /\ Prints(<<"yes/no">>, "confirm") /\ NewFits(<<"yes/no">>, "confirm")
        /\ Prints(<<"password:">>, "password") /\ NewFits(<<"password:">>, "password")
    BY <2>2, PromptPrints
  <2> QED
    BY <1>6, <2>1, <2>2, <2>3
<1>7. CASE setup.protocol = "ssh" /\ key = "changed"
  <2>1. Prints(<<"local">>, "local") /\ NewFits(<<"local">>, "local")
    <3>1. "local" \in Phases /\ "local" \in PromptsAt("local")
      BY DEF Phases, PromptsAt
    <3> QED
      BY <3>1, PromptPrints
  <2>2. /\ IsLine(<<"bad_key", Newline>>) /\ NewFits(<<"bad_key", Newline>>, "local")
        /\ IsLine(<<"id_dsa", Newline>>) /\ NewFits(<<"id_dsa", Newline>>, "local")
    BY Lines
  <2> DEFINE t == <<"bad_key", Newline, "local">>
             u == <<"id_dsa", Newline>>
  <2>3. <<"bad_key", Newline>> \o <<"local">> = t
    BY TuplesJoin, Zenon
  <2>4. Prints(t, "local") /\ NewFits(t, "local")
    BY <2>1, <2>2, <2>3, LinePrints
  <2>5. Opening(key) = (IF setup.idDsa THEN u ELSE <<>>) \o t /\ OpensIn(key) = "local"
    BY <1>2, <1>3, <1>7
  <2>6. IsLine(u) /\ NewFits(u, "local")
    BY <2>2
  <2> HIDE DEF t, u
  <2>7. Prints(u \o t, "local") /\ NewFits(u \o t, "local")
    BY <2>4, <2>6, LinePrints
  <2>8. <<>> \o t = t
    BY <2>4, ConcatEmptySeq DEF Prints
  <2>9. Prints(Opening(key), "local") /\ NewFits(Opening(key), "local")
    BY <2>4, <2>5, <2>7, <2>8
  <2> QED
    BY <1>7, <2>5, <2>9 DEF Phases
<1> QED
  BY <1>1, <1>4, <1>5, <1>6, <1>7

\* What the host shows when it lets in.
LEMMA WelcomePrints ==
    ASSUME NEW ready
    PROVE  /\ Prints(ShellPrompt(ready), "shell") /\ NewFits(ShellPrompt(ready), "shell")
           /\ Prints(LastLogin \o <<"resize">>, "resize")
           /\ NewFits(LastLogin \o <<"resize">>, "resize")
           /\ \A place : /\ Prints(LastLogin \o Banner(place) \o ShellPrompt(ready), "shell")
                         /\ NewFits(LastLogin \o Banner(place) \o ShellPrompt(ready), "shell")
<1>1. Prints(ShellPrompt(ready), "shell") /\ NewFits(ShellPrompt(ready), "shell")
  <2>1. /\ "shell" \in Phases /\ "first" \in PromptsAt("shell") /\ "remote" \in PromptsAt("shell")
        /\ "first" # "resize" /\ "remote" # "resize" /\ "shell" # "stopped"
    BY DEF Phases, PromptsAt
  <2>2. /\ Prints(<<"first">>, "shell") /\ NewFits(<<"first">>, "shell")
        /\ Prints(<<"remote">>, "shell") /\ NewFits(<<"remote">>, "shell")
    BY <2>1, PromptPrints
  <2>3. ShellPrompt(ready) = <<"first">> \/ ShellPrompt(ready) = <<"remote">>
    BY DEF ShellPrompt
  <2> QED
    BY <2>2, <2>3
<1>2. IsLine(LastLogin) /\ NewFits(LastLogin, "shell") /\ NewFits(LastLogin, "resize")
  BY Lines
<1> HIDE DEF LastLogin
<1>3. Prints(LastLogin \o <<"resize">>, "resize") /\ NewFits(LastLogin \o <<"resize">>, "resize")
  <2>1. "resize" \in Phases /\ "resize" \in PromptsAt("resize")
    BY DEF Phases, PromptsAt
  <2>2. Prints(<<"resize">>, "resize") /\ NewFits(<<"resize">>, "resize")
    BY <2>1, PromptPrints
  <2> QED
    BY <1>2, <2>2, LinePrints
<1>4. ASSUME NEW place
      PROVE  /\ Prints(LastLogin \o Banner(place) \o ShellPrompt(ready), "shell")
             /\ NewFits(LastLogin \o Banner(place) \o ShellPrompt(ready), "shell")
  <2> DEFINE banner == <<"connected", Newline>>  prompt == ShellPrompt(ready)
  <2>1. IsLine(banner) /\ NewFits(banner, "shell")
    BY Lines
  <2>2. Banner(place) = banner \/ Banner(place) = <<>>
    BY DEF Banner
  <2>3. LastLogin \in Seq(Tokens) /\ banner \in Seq(Tokens) /\ prompt \in Seq(Tokens)
    BY <1>1, <1>2, <2>1 DEF IsLine, Prints
  <2> HIDE DEF banner, prompt
  <2>4. Prints(prompt, "shell") /\ NewFits(prompt, "shell")
    BY <1>1 DEF prompt
  <2>5. LastLogin \o <<>> \o prompt = LastLogin \o prompt
    BY <2>3, ConcatEmptySeq
  <2>6. LastLogin \o banner \o prompt = LastLogin \o (banner \o prompt)
    BY <2>3, ConcatAssociative
  <2>7. /\ Prints(banner \o prompt, "shell") /\ NewFits(banner \o prompt, "shell")
        /\ Prints(LastLogin \o prompt, "shell") /\ NewFits(LastLogin \o prompt, "shell")
    BY <1>2, <2>1, <2>4, LinePrints
  <2>8. /\ Prints(LastLogin \o (banner \o prompt), "shell")
        /\ NewFits(LastLogin \o (banner \o prompt), "shell")
    BY <1>2, <2>7, LinePrints
  <2> QED
    BY <2>2, <2>5, <2>6, <2>7, <2>8 DEF prompt
<1> QED
  BY <1>1, <1>3, <1>4

\* What the host shows when it refuses, or asks for the password again.
LEMMA RefusalPrints ==
    /\ Prints(Refusal \o <<"local">>, "local") /\ NewFits(Refusal \o <<"local">>, "local")
    /\ Prints(<<"denied", "again", Newline, "password:">>, "password")
    /\ NewFits(<<"denied", "again", Newline, "password:">>, "password")
<1>1. /\ Prints(<<"local">>, "local") /\ NewFits(<<"local">>, "local")
      /\ Prints(<<"password:">>, "password") /\ NewFits(<<"password:">>, "password")
  <2>1. /\ "local" \in Phases /\ "local" \in PromptsAt("local")
        /\ "password" \in Phases /\ "password:" \in PromptsAt("password")
    BY DEF Phases, PromptsAt
  <2> QED
    BY <2>1, PromptPrints
<1>2. /\ IsLine(<<"denied", "methods", Newline>>)
      /\ NewFits(<<"denied", "methods", Newline>>, "local")
      /\ IsLine(<<"disconnected", Newline>>) /\ NewFits(<<"disconnected", Newline>>, "local")
      /\ IsLine(<<"denied", "again", Newline>>)
      /\ NewFits(<<"denied", "again", Newline>>, "password")
  BY Lines
<1> DEFINE local == <<"local">>  denied == <<"denied", "methods", Newline>>
           gone == <<"disconnected", Newline>>
<1>3. Refusal = <<>> \/ Refusal = denied \/ Refusal = gone
  BY DEF Refusal
<1>4. <<>> \o local = local
  OBVIOUS
<1>5. <<"denied", "again", Newline>> \o <<"password:">>
        = <<"denied", "again", Newline, "password:">>
  <2>1. ASSUME NEW a, NEW b, NEW c, NEW d PROVE <<a, b, c>> \o <<d>> = <<a, b, c, d>>
    <3>1. /\ <<a, b>> \o <<d>> = <<a, b, d>>
          /\ <<a, b, c>> \o <<d>> = <<a, b, c, d>>
      BY TuplesJoin
    <3> QED
      BY <3>1
  <2> QED
    BY <2>1, Zenon
<1>6. /\ Prints(<<"denied", "again", Newline, "password:">>, "password")
      /\ NewFits(<<"denied", "again", Newline, "password:">>, "password")
  BY <1>1, <1>2, <1>5, LinePrints
<1>7. /\ Prints(denied \o local, "local") /\ NewFits(denied \o local, "local")
      /\ Prints(gone \o local, "local") /\ NewFits(gone \o local, "local")
  BY <1>1, <1>2, LinePrints
<1> HIDE DEF denied, gone
<1>8. Prints(Refusal \o local, "local") /\ NewFits(Refusal \o local, "local")
  BY <1>1, <1>3, <1>4, <1>7
<1> QED
  BY <1>6, <1>8

\* Tokens are joined in any order.
LEMMA Regrouped ==
    ASSUME NEW a \in Seq(Tokens), NEW b \in Seq(Tokens), NEW c \in Seq(Tokens)
    PROVE  (a \o b) \o c = a \o (b \o c)
BY ConcatAssociative

\* What is shown comes behind what was printed, after an echo at most and the end of the line.
ShownBehind(m, tokens) ==
    /\ m \in Nat /\ m > Len(Text) /\ Len(Text') = m + Len(tokens)
    /\ Text' \in Seq(Tokens) /\ DOMAIN Text' = 1..(m + Len(tokens))
    /\ \A i \in 1..Len(Text) : Text'[i] = Text[i]
    /\ \A i \in (Len(Text) + 1)..m : Text'[i] \in {"echo", Newline}
    /\ \A i \in 1..Len(tokens) : Text'[m + i] = tokens[i]

\* Behind the echo and its end of line, the text keeps its shape.
LEMMA ShowIs ==
    ASSUME TypeInv, TextInv, typed # <<>>, far.at # "stopped",
           NEW tokens \in Seq(Tokens), Chained(tokens), Show(tokens)
    PROVE  /\ wire' \in Seq(Tokens) /\ Chained(Text')
           /\ \A prompts : Waits(tokens, prompts) => Waits(Text', prompts)
           /\ \E m \in Nat : ShownBehind(m, tokens)
<1> DEFINE enter == <<Newline>>
<1>1. /\ line \in Seq(Tokens) /\ wire \in Seq(Tokens) /\ Text \in Seq(Tokens) /\ Len(Text) \in Nat
      /\ Len(tokens) \in Nat
  BY TextIs DEF TypeInv
<1>2. /\ "echo" \in Tokens /\ Newline \in Tokens /\ Newline \in Firsts /\ "echo" # "Last"
      /\ Newline # "Last"
  BY DEF Tokens, Firsts, Newline
<1>3. Echo = <<>> \/ Echo = <<"echo">>
  BY DEF Echo
<1>4. /\ Echo \in Seq(Tokens) /\ Len(Echo) \in {0, 1}
      /\ Echo = <<>> <=> Len(Echo) = 0
      /\ \A i \in 1..Len(Echo) : Echo[i] = "echo"
  <2>1. CASE Echo = <<>>
    BY <2>1
  <2>2. CASE Echo = <<"echo">>
    <3> DEFINE e == <<"echo">>
    <3>1. e \in Seq(Tokens) /\ Len(e) = 1 /\ e # <<>> /\ e[1] = "echo"
      BY <1>2
    <3> HIDE DEF e
    <3>2. \A i \in 1..1 : i = 1
      OBVIOUS
    <3> QED
      BY <2>2, <3>1, <3>2 DEF e
  <2> QED
    BY <1>3, <2>1, <2>2
<1>5. enter \in Seq(Tokens) /\ Len(enter) = 1 /\ enter[1] = Newline /\ enter # <<>>
  BY <1>2
<1>6. wire' = wire \o Echo \o enter \o tokens /\ line' = line
  BY DEF Show
<1> HIDE DEF Echo, enter
<1>a. PICK a : a = Text \o Echo
  OBVIOUS
<1>b. PICK b : b = a \o enter
  OBVIOUS
<1>c. PICK c : c = b \o tokens
  OBVIOUS
<1>7. /\ a \in Seq(Tokens) /\ Len(a) = Len(Text) + Len(Echo)
      /\ \A i \in 1..Len(Text) : a[i] = Text[i]
      /\ \A i \in 1..Len(Echo) : a[Len(Text) + i] = Echo[i]
  BY <1>1, <1>4, <1>a, Joined
<1>8. Text' = c
  <2> HIDE DEF enter
  <2>1. PICK x : x = wire \o Echo
    OBVIOUS
  <2>2. PICK y : y = x \o enter
    OBVIOUS
  <2>3. x \in Seq(Tokens)
    BY <1>1, <1>4, <2>1, ConcatProperties
  <2>4. y \in Seq(Tokens)
    BY <1>5, <2>2, <2>3, ConcatProperties
  <2>5. (line \o wire) \o Echo = line \o (wire \o Echo)
    <3>1. line \in Seq(Tokens) /\ wire \in Seq(Tokens) /\ Echo \in Seq(Tokens)
      BY <1>1, <1>4
    <3> QED
      BY <3>1, Regrouped
  <2>6. (line \o x) \o enter = line \o (x \o enter)
    <3>1. line \in Seq(Tokens) /\ x \in Seq(Tokens) /\ enter \in Seq(Tokens)
      BY <1>1, <1>5, <2>3
    <3> QED
      BY <3>1, Regrouped
  <2>7. (line \o y) \o tokens = line \o (y \o tokens)
    <3>1. line \in Seq(Tokens) /\ tokens \in Seq(Tokens)
      BY <1>1
    <3> QED
      BY <2>4, <3>1, Regrouped
  <2>8. a = line \o x
    BY <1>a, <2>1, <2>5 DEF Text
  <2>9. b = line \o y
    BY <1>b, <2>2, <2>6, <2>8
  <2>10. wire' = y \o tokens
    BY <1>6, <2>1, <2>2
  <2> QED
    BY <1>6, <1>c, <2>7, <2>9, <2>10 DEF Text
<1>9. /\ b \in Seq(Tokens) /\ Len(b) = Len(a) + 1
      /\ \A i \in 1..Len(a) : b[i] = a[i]
      /\ b[Len(a) + 1] = Newline
  <2>0. a \in Seq(Tokens) /\ enter \in Seq(Tokens)
    BY <1>5, <1>7
  <2>1. /\ b \in Seq(Tokens) /\ Len(b) = Len(a) + Len(enter)
        /\ \A i \in 1..Len(a) : b[i] = a[i]
        /\ \A i \in 1..Len(enter) : b[Len(a) + i] = enter[i]
    <3>1. /\ a \o enter \in Seq(Tokens) /\ Len(a \o enter) = Len(a) + Len(enter)
          /\ \A i \in 1..Len(a) : (a \o enter)[i] = a[i]
          /\ \A i \in 1..Len(enter) : (a \o enter)[Len(a) + i] = enter[i]
      BY <2>0, Joined
    <3> QED
      BY <1>b, <3>1, Zenon
  <2>2. 1 \in 1..Len(enter)
    BY <1>5
  <2> QED
    BY <1>5, <2>1, <2>2
<1>10. /\ c \in Seq(Tokens) /\ Len(c) = Len(b) + Len(tokens)
       /\ DOMAIN c = 1..(Len(b) + Len(tokens))
       /\ \A i \in 1..Len(b) : c[i] = b[i]
       /\ \A i \in 1..Len(tokens) : c[Len(b) + i] = tokens[i]
  <2>1. b \in Seq(Tokens)
    BY <1>9
  <2> QED
    BY <2>1, <1>c, Joined
<1>11. ShownBehind(Len(b), tokens)
  <2>1. Len(b) \in Nat /\ Len(b) = Len(Text) + Len(Echo) + 1 /\ Len(b) > Len(Text)
    BY <1>1, <1>4, <1>7, <1>9
  <2>2. ASSUME NEW i \in 1..Len(Text) PROVE c[i] = Text[i]
    <3>1. i \in 1..Len(b) /\ i \in 1..Len(a)
      BY <1>1, <1>4, <1>7, <2>1
    <3> QED
      BY <1>7, <1>9, <1>10, <3>1
  <2>3. ASSUME NEW i \in (Len(Text) + 1)..Len(b) PROVE c[i] \in {"echo", Newline}
    <3>1. i \in 1..Len(b)
      BY <1>1, <2>1
    <3>2. CASE i = Len(b)
      BY <1>9, <1>10, <3>1, <3>2
    <3>3. CASE i # Len(b)
      <4>1. i \in 1..Len(a) /\ i - Len(Text) \in 1..Len(Echo) /\ i = Len(Text) + (i - Len(Text))
        <5>1. /\ Len(Text) \in Nat /\ Len(Echo) \in {0, 1} /\ Len(a) = Len(Text) + Len(Echo)
              /\ Len(b) = Len(Text) + Len(Echo) + 1
          BY <1>1, <1>4, <1>7, <2>1
        <5>2. \A t, e \in Nat : \A j \in (t + 1)..(t + e + 1) : j # t + e + 1 =>
                j \in 1..(t + e) /\ j - t \in 1..e /\ j = t + (j - t)
          OBVIOUS
        <5> QED
          BY <3>3, <5>1, <5>2
      <4>2. a[i] = "echo"
        BY <1>4, <1>7, <4>1
      <4> QED
        BY <1>9, <1>10, <3>1, <4>1, <4>2
    <3> QED
      BY <3>2, <3>3
  <2> QED
    BY <1>8, <1>10, <2>1, <2>2, <2>3 DEF ShownBehind
<1>12. /\ Chained(Text) /\ Text # <<>> /\ Text[Len(Text)] \in Prompts
       /\ (Len(Text) > 1 => Text[Len(Text) - 1] # "Last")
  <2>1. PromptsAt(far.at) \subseteq Prompts
    BY DEF PromptsAt, Prompts
  <2> QED
    BY <2>1 DEF TextInv, Waits
<1>13. Text[Len(Text)] # "Last" /\ Len(Text) > 0
  BY <1>1, <1>12, EmptySeq DEF Prompts
\* Behind the echo.
<1>14. Chained(a) /\ NoLast(a) /\ Follows(a[Len(a)], Newline)
  <2>1. CASE Echo = <<>>
    <3>1. a = Text
      BY <1>1, <2>1, ConcatEmptySeq, <1>a
    <3>2. Follows(Text[Len(Text)], Newline)
      BY <1>12 DEF Follows, Prompts, Newline, Firsts
    <3> QED
      BY <1>12, <1>13, <3>1, <3>2 DEF NoLast
  <2>2. CASE Echo # <<>>
    <3>1. Len(Echo) = 1 /\ Echo[1] = "echo"
      BY <1>4, <2>2
    <3>2. Follows(Text[Len(Text)], "echo")
      BY <1>12 DEF Follows, Prompts, Newline, Firsts
    <3>3. Chained(a)
      <4>1. NoLast(Text)
        BY <1>12, <1>13 DEF NoLast
      <4>2. 1..(1 - 1) = {} /\ 1..(1 - 2) = {}
        OBVIOUS
      <4> QED
        BY <1>1, <1>4, <1>12, <3>1, <3>2, <4>1, <4>2, JoinedIsChained, <1>a
    <3>4. a[Len(a)] = "echo" /\ Len(a) = Len(Text) + 1 /\ a[Len(a) - 1] = Text[Len(Text)]
          /\ Len(a) \in Nat
      <4>1. Len(Text) \in Nat /\ Len(Text) > 0 /\ Len(a) = Len(Text) + 1
        BY <1>1, <1>7, <1>13, <3>1
      <4>2. Len(Text) \in 1..Len(Text) /\ 1 \in 1..1 /\ Len(a) - 1 = Len(Text)
        BY <4>1
      <4> QED
        BY <1>7, <3>1, <4>1, <4>2
    <3>5. a # <<>>
      BY <1>1, <3>4
    <3>6. Follows("echo", Newline)
      BY DEF Follows, Prompts, Newline
    <3>7. NoLast(a)
      BY <1>13, <3>4, <3>5 DEF NoLast
    <3> QED
      BY <3>3, <3>4, <3>6, <3>7
  <2> QED
    BY <2>1, <2>2
\* Behind the end of the line.
<1>15. Chained(b) /\ NoLast(b) /\ b[Len(b)] = Newline
  <2>1. 1..(1 - 1) = {} /\ 1..(1 - 2) = {}
    OBVIOUS
  <2>2. Chained(b)
    BY <1>5, <1>7, <1>14, <2>1, JoinedIsChained, <1>b
  <2>3. Len(a) \in Nat /\ Len(a) > 0 /\ Len(a) \in 1..Len(a) /\ Len(b) - 1 = Len(a)
    BY <1>1, <1>4, <1>7, <1>9, <1>13
  <2>4. b[Len(b)] = Newline /\ b[Len(b) - 1] = a[Len(a)] /\ b # <<>>
    BY <1>9, <2>3
  <2> QED
    BY <1>2, <1>14, <2>2, <2>4 DEF NoLast
<1>16. Chained(c)
  <2>1. /\ \A i \in 1..(Len(tokens) - 1) : Follows(tokens[i], tokens[i + 1])
        /\ \A i \in 1..(Len(tokens) - 2) : tokens[i] = "Last" => tokens[i + 2] = "date"
        /\ tokens # <<>> => tokens[1] \in Firsts
    BY DEF Chained
  <2>2. tokens # <<>> => Follows(Newline, tokens[1])
    BY <2>1 DEF Follows, Prompts, Newline
  <2> QED
    BY <1>9, <1>15, <2>1, <2>2, JoinedIsChained, <1>c
<1>17. \A prompts : Waits(tokens, prompts) => Waits(c, prompts)
  BY <1>2, <1>9, <1>15, JoinedWaits, <1>c
<1>18. wire' \in Seq(Tokens)
  <2>1. wire \o Echo \in Seq(Tokens) /\ (wire \o Echo) \o enter \in Seq(Tokens)
    BY <1>1, <1>4, <1>5, ConcatProperties
  <2> QED
    BY <1>6, <2>1, ConcatProperties
<1> QED
  BY <1>8, <1>9, <1>11, <1>16, <1>17, <1>18 DEF ShownBehind

\* The far end reads and prints: what is common to all that it does.
Turn(tokens, at) ==
    /\ typed # <<>> /\ Show(tokens)
    /\ far' \in FarEnds /\ far'.accepted < Len(setup.asks) /\ far'.at = at
    /\ tokens \in Seq(Tokens) /\ Chained(tokens)
    /\ at # "stopped" => Waits(tokens, PromptsAt(at))
    /\ NewFits(tokens, at) \/ (far.at = "local" /\ setup.protocol = "telnet")
    /\ \/ far.at = "confirm" /\ at \in {"confirm", "password"}
       \/ far.at = "login" /\ at = "login" /\ Input.text = ""
       \/ far.at = "login" /\ at = "password" /\ Input.text # ""
       \/ far.at = "password" /\ at \in {"password", "shell", "resize", "login"}
          /\ Input.text # "ctrl+c"
       \/ far.at = "password" /\ at = "local"
       \/ far.at \in {"resize", "shell"} /\ at = "shell"
       \/ far.at = "local" /\ at = "local"
       \/ far.at = "local" /\ at \in Phases /\ Input.text = "ssh"
    /\ at = "login" => setup.protocol = "telnet" \/ far.at = "login"
    /\ at = "confirm" => setup.protocol = "ssh" \/ far.at = "confirm"
    /\ at = "local" => far'.refused \/ (far.at = "local" /\ far.refused = far'.refused)

\* Every answer of the far end is such a turn.
LEMMA FarEndTurns ==
    ASSUME TypeInv, FarEnd
    PROVE  \E tokens, at : Turn(tokens, at)
<1>1. /\ setup \in Setups /\ far \in FarEnds /\ far.accepted < Len(setup.asks)
      /\ setup.asks \in Seq(STRING) /\ setup.asks # <<>> /\ Len(setup.asks) \in Nat
      /\ \A i \in DOMAIN setup.asks : setup.asks[i] # "ctrl+c"
      /\ setup.protocol \in {"ssh", "telnet"}
  BY SetupsAssumption DEF TypeInv
<1>2. /\ far.accepted \in Nat /\ far.wrong \in Nat /\ far.session \in Nat /\ far.key \in Keys
      /\ far.refused \in BOOLEAN /\ 0 \in Nat /\ 0 < Len(setup.asks)
      /\ \A n \in Nat : n + 1 \in Nat
  <2>1. Len(setup.asks) # 0
    BY <1>1, EmptySeq
  <2> QED
    BY <1>1, <2>1 DEF FarEnds
<1>3. \A p \in {"yes/no", "login:", "password:", "local"} :
        \A at \in {"confirm", "login", "password", "local"} :
          p \in PromptsAt(at) => Prints(<<p>>, at) /\ NewFits(<<p>>, at)
  <2>1. SUFFICES ASSUME NEW p \in {"yes/no", "login:", "password:", "local"},
                        NEW at \in {"confirm", "login", "password", "local"}, p \in PromptsAt(at)
                 PROVE  Prints(<<p>>, at) /\ NewFits(<<p>>, at)
    OBVIOUS
  <2>2. at \in Phases /\ at # "stopped" /\ p # "resize"
    BY DEF Phases
  <2> QED
    BY <2>1, <2>2, PromptPrints
<1>4. /\ "yes/no" \in PromptsAt("confirm") /\ "login:" \in PromptsAt("login")
      /\ "password:" \in PromptsAt("password") /\ "local" \in PromptsAt("local")
  BY DEF PromptsAt
<1>5. /\ Prints(<<"yes/no">>, "confirm") /\ NewFits(<<"yes/no">>, "confirm")
      /\ Prints(<<"login:">>, "login") /\ NewFits(<<"login:">>, "login")
      /\ Prints(<<"password:">>, "password") /\ NewFits(<<"password:">>, "password")
      /\ Prints(<<"local">>, "local") /\ NewFits(<<"local">>, "local")
  BY <1>3, <1>4
\* ctrl+c is no password.
<1>6. RightPassword => Input.text # "ctrl+c"
  <2>1. far.accepted + 1 \in DOMAIN setup.asks
    BY <1>1, <1>2
  <2> QED
    BY <1>1, <2>1 DEF RightPassword
<1>7. CASE Confirm
  <2>1. Turn(<<"password:">>, "password")
    <3>1. typed # <<>> /\ Show(<<"password:">>) /\ far.at = "confirm"
          /\ far' = [far EXCEPT !.at = "password", !.key = "known"]
      BY <1>7 DEF Confirm, ReadsAt
    <3>2. far' \in FarEnds /\ far'.accepted = far.accepted /\ far'.at = "password"
      BY <1>1, <3>1 DEF FarEnds, Phases, Keys
    <3> QED
      BY <1>1, <1>5, <3>1, <3>2 DEF Turn, Prints
  <2> QED
    BY <2>1
<1>8. CASE ConfirmAgain
  <2>1. Turn(<<"yes/no">>, "confirm")
    <3>1. typed # <<>> /\ Show(<<"yes/no">>) /\ far.at = "confirm" /\ far' = far
      BY <1>8 DEF ConfirmAgain, ReadsAt
    <3> QED
      BY <1>1, <1>5, <3>1 DEF Turn, Prints
  <2> QED
    BY <2>1
<1>9. CASE ReadLogin
  <2>1. Turn(<<"password:">>, "password")
    <3>1. typed # <<>> /\ Show(<<"password:">>) /\ far.at = "login" /\ Input.text # ""
          /\ far' = [far EXCEPT !.at = "password", !.user = Input.text = "user"]
      BY <1>9 DEF ReadLogin, ReadsAt
    <3>2. far' \in FarEnds /\ far'.accepted = far.accepted /\ far'.at = "password"
      <4>1. "password" \in Phases /\ (Input.text = "user") \in BOOLEAN
        BY DEF Phases
      <4> QED
        BY <1>1, <3>1, <4>1 DEF FarEnds
    <3> QED
      BY <1>1, <1>5, <3>1, <3>2 DEF Turn, Prints
  <2> QED
    BY <2>1
<1>10. CASE ReadEmptyLogin
  <2>1. Turn(<<"login:">>, "login")
    <3>1. typed # <<>> /\ Show(<<"login:">>) /\ far.at = "login" /\ Input.text = "" /\ far' = far
      BY <1>10 DEF ReadEmptyLogin, ReadsAt
    <3> QED
      BY <1>1, <1>5, <3>1 DEF Turn, Prints
  <2> QED
    BY <2>1
<1>11. CASE AskNextPassword
  <2>1. Turn(<<"password:">>, "password")
    <3>1. typed # <<>> /\ Show(<<"password:">>) /\ far.at = "password" /\ RightPassword
          /\ far.accepted + 1 < Len(setup.asks)
          /\ far' = [far EXCEPT !.accepted = far.accepted + 1]
      BY <1>11 DEF AskNextPassword, ReadsAt
    <3>2. far' \in FarEnds /\ far'.accepted = far.accepted + 1 /\ far'.at = "password"
      BY <1>1, <1>2, <3>1 DEF FarEnds
    <3> QED
      BY <1>5, <1>6, <3>1, <3>2 DEF Turn, Prints
  <2> QED
    BY <2>1
<1>12. CASE LetIn
  <2>1. typed # <<>> /\ far.at = "password" /\ Input.text # "ctrl+c"
    BY <1>6, <1>12 DEF LetIn, ReadsAt
  <2>2. CASE /\ Show(LastLogin \o <<"resize">>)
             /\ far' = [far EXCEPT !.at = "resize"]
    <3>1. far' \in FarEnds /\ far'.accepted = far.accepted /\ far'.at = "resize"
      BY <1>1, <2>2 DEF FarEnds, Phases
    <3>2. /\ Prints(LastLogin \o <<"resize">>, "resize")
          /\ NewFits(LastLogin \o <<"resize">>, "resize")
      BY WelcomePrints
    <3>3. Turn(LastLogin \o <<"resize">>, "resize")
      BY <1>1, <2>1, <2>2, <3>1, <3>2 DEF Turn, Prints
    <3> QED
      BY <3>3
  <2>3. CASE /\ Show(LastLogin \o Banner("after login") \o ShellPrompt(FALSE))
             /\ far' = [far EXCEPT !.at = "shell"]
    <3> DEFINE t == LastLogin \o Banner("after login") \o ShellPrompt(FALSE)
    <3>1. far' \in FarEnds /\ far'.accepted = far.accepted /\ far'.at = "shell"
      BY <1>1, <2>3 DEF FarEnds, Phases
    <3>2. Prints(t, "shell") /\ NewFits(t, "shell")
      BY WelcomePrints
    <3>3. Show(t)
      BY <2>3
    <3> HIDE DEF t
    <3>4. Turn(t, "shell")
      BY <1>1, <2>1, <3>1, <3>2, <3>3 DEF Turn, Prints
    <3> QED
      BY <3>4
  <2> QED
    BY <1>12, <2>2, <2>3 DEF LetIn
<1>13. CASE AskAgain
  <2>1. typed # <<>> /\ far.at = "password" /\ Input.text # "ctrl+c"
    BY <1>13 DEF AskAgain, ReadsAt, TriesLeft
  <2>2. CASE /\ Show(<<"denied", "again", Newline, "password:">>)
             /\ far' = [far EXCEPT !.wrong = far.wrong + 1, !.accepted = 0]
    <3> DEFINE t == <<"denied", "again", Newline, "password:">>
    <3>1. far' \in FarEnds /\ far'.accepted = 0 /\ far'.at = "password"
      BY <1>1, <1>2, <2>1, <2>2 DEF FarEnds
    <3>2. Prints(t, "password") /\ NewFits(t, "password")
      BY RefusalPrints
    <3>3. Show(t)
      BY <2>2
    <3> HIDE DEF t
    <3>4. Turn(t, "password")
      BY <1>1, <1>2, <2>1, <3>1, <3>2, <3>3 DEF Turn, Prints
    <3> QED
      BY <3>4
  <2>3. CASE /\ setup.protocol = "telnet" /\ Show(<<"login:">>)
             /\ far' = [far EXCEPT !.wrong = far.wrong + 1, !.accepted = 0, !.at = "login"]
    <3>1. far' \in FarEnds /\ far'.accepted = 0 /\ far'.at = "login"
      BY <1>1, <1>2, <2>3 DEF FarEnds, Phases
    <3>2. Turn(<<"login:">>, "login")
      BY <1>2, <1>5, <2>1, <2>3, <3>1 DEF Turn, Prints
    <3> QED
      BY <3>2
  <2> QED
    BY <1>13, <2>2, <2>3 DEF AskAgain
<1>14. CASE Refuse
  <2> DEFINE t == Refusal \o <<"local">>
  <2>1. typed # <<>> /\ far.at = "password" /\ Show(t)
        /\ far' = [far EXCEPT !.at = "local", !.refused = TRUE]
    BY <1>14 DEF Refuse, ReadsAt
  <2>2. far' \in FarEnds /\ far'.accepted = far.accepted /\ far'.at = "local" /\ far'.refused
    BY <1>1, <2>1 DEF FarEnds, Phases
  <2>3. Prints(t, "local") /\ NewFits(t, "local")
    BY RefusalPrints
  <2> HIDE DEF t
  <2>4. Turn(t, "local")
    BY <1>1, <2>1, <2>2, <2>3 DEF Turn, Prints
  <2> QED
    BY <2>4
<1>15. CASE ReadSize
  <2>1. Turn(ShellPrompt(FALSE), "shell")
    <3>1. typed # <<>> /\ Show(ShellPrompt(FALSE)) /\ far.at = "resize"
          /\ far' = [far EXCEPT !.at = "shell"]
      BY <1>15 DEF ReadSize, ReadsAt
    <3>2. far' \in FarEnds /\ far'.accepted = far.accepted /\ far'.at = "shell"
      BY <1>1, <3>1 DEF FarEnds, Phases
    <3>3. Prints(ShellPrompt(FALSE), "shell") /\ NewFits(ShellPrompt(FALSE), "shell")
      BY WelcomePrints
    <3> QED
      BY <1>1, <3>1, <3>2, <3>3 DEF Turn, Prints
  <2> QED
    BY <2>1
<1>16. CASE ReadShell
  <2> DEFINE ready == far.ready \/ Input.text = "set_prompt"
  <2>1. typed # <<>> /\ Show(ShellPrompt(ready)) /\ far.at = "shell"
        /\ far' = [far EXCEPT !.ready = ready]
    BY <1>16 DEF ReadShell, ReadsAt
  <2>2. ready \in BOOLEAN
    BY <1>1 DEF FarEnds
  <2> HIDE DEF ready
  <2>3. far' \in FarEnds /\ far'.accepted = far.accepted /\ far'.at = "shell"
    BY <1>1, <2>1, <2>2 DEF FarEnds
  <2>4. Prints(ShellPrompt(ready), "shell") /\ NewFits(ShellPrompt(ready), "shell")
    BY WelcomePrints
  <2>5. Turn(ShellPrompt(ready), "shell")
    BY <1>1, <2>1, <2>3, <2>4 DEF Turn, Prints
  <2> QED
    BY <2>5
<1>17. CASE ReadLocal
  <2>1. Turn(<<"local">>, "local")
    <3>1. typed # <<>> /\ Show(<<"local">>) /\ far.at = "local"
      BY <1>17 DEF ReadLocal, ReadsAt
    <3>2. PICK key \in {far.key, "unknown"} : far' = [far EXCEPT !.key = key]
      BY <1>17 DEF ReadLocal
    <3>3. far' \in FarEnds /\ far'.accepted = far.accepted /\ far'.at = "local"
          /\ far'.refused = far.refused
      <4>1. key \in Keys
        BY <1>2, <3>2 DEF Keys
      <4> QED
        BY <1>1, <3>1, <3>2, <4>1 DEF FarEnds
    <3> QED
      BY <1>1, <1>5, <3>1, <3>3 DEF Turn, Prints
  <2> QED
    BY <2>1
<1>18. CASE Reconnect
  <2> DEFINE t == Opening(far.key)  at == OpensIn(far.key)
  <2>1. typed # <<>> /\ Show(t) /\ far.at = "local" /\ Input.text = "ssh"
        /\ far' = [far EXCEPT !.at = at, !.session = far.session + 1, !.wrong = 0,
                              !.accepted = 0, !.refused = far.refused \/ at = "local"]
    BY <1>18 DEF Reconnect, ReadsAt
  <2>2. /\ at \in Phases \ {"stopped"} /\ Prints(t, at)
        /\ setup.protocol = "ssh" => at # "login" /\ NewFits(t, at)
        /\ at = "login" => setup.protocol = "telnet"
        /\ at = "confirm" => setup.protocol = "ssh"
    BY <1>1, <1>2, OpeningPrints
  <2> HIDE DEF t, at
  <2>3. far' \in FarEnds /\ far'.accepted = 0 /\ far'.at = at
        /\ (at = "local" => far'.refused)
    <3>1. (far.refused \/ at = "local") \in BOOLEAN /\ far.session + 1 \in Nat
      BY <1>2
    <3> QED
      BY <1>1, <1>2, <2>1, <2>2, <3>1 DEF FarEnds
  <2>4. Turn(t, at)
    BY <1>1, <1>2, <2>1, <2>2, <2>3 DEF Turn, Prints
  <2> QED
    BY <2>4
<1>19. CASE Stop
  <2>1. Turn(<<>>, "stopped")
    <3>1. typed # <<>> /\ Show(<<>>) /\ far.at = "local" /\ Input.text = "ssh"
          /\ far' = [far EXCEPT !.at = "stopped"]
      BY <1>19 DEF Stop, ReadsAt
    <3>2. far' \in FarEnds /\ far'.accepted = far.accepted /\ far'.at = "stopped"
          /\ "stopped" \in Phases
      BY <1>1, <3>1 DEF FarEnds, Phases
    <3>3. <<>> \in Seq(Tokens) /\ Chained(<<>>) /\ NewFits(<<>>, "stopped")
      BY DEF Chained, NewFits
    <3> QED
      BY <1>1, <3>1, <3>2, <3>3 DEF Turn
  <2> QED
    BY <2>1
<1> QED
  BY <1>7, <1>8, <1>9, <1>10, <1>11, <1>12, <1>13, <1>14, <1>15, <1>16, <1>17, <1>18, <1>19
  DEF FarEnd

\* What is left when the first is read.
LEMMA TailIs ==
    ASSUME NEW S, NEW s \in Seq(S), s # <<>>
    PROVE  /\ Tail(s) \in Seq(S) /\ Len(Tail(s)) = Len(s) - 1 /\ Len(s) \in Nat /\ Len(s) > 0
           /\ \A i \in DOMAIN Tail(s) :
                 /\ i + 1 \in DOMAIN s /\ Tail(s)[i] = s[i + 1]
                 /\ i + 1 = Len(s) <=> i = Len(Tail(s))
           /\ Head(s) = s[1] /\ 1 \in DOMAIN s
           /\ Len(s) = 1 => Tail(s) = <<>>
<1>1. Len(s) \in Nat /\ Len(s) > 0 /\ DOMAIN s = 1..Len(s)
  BY EmptySeq
<1>2. /\ Tail(s) \in Seq(S) /\ Len(Tail(s)) = Len(s) - 1
      /\ \A i \in 1..(Len(s) - 1) : Tail(s)[i] = s[i + 1]
  BY HeadTailProperties
<1>3. DOMAIN Tail(s) = 1..(Len(s) - 1)
  BY <1>2
<1>4. Len(s) = 1 => Tail(s) = <<>>
  <2>1. Len(Tail(s)) = 0 => Tail(s) = <<>>
    BY <1>2, EmptySeq
  <2> QED
    BY <1>2, <2>1
<1>5. \A i \in 1..(Len(s) - 1) : i + 1 \in 1..Len(s) /\ (i + 1 = Len(s) <=> i = Len(s) - 1)
  BY <1>1
<1>6. Head(s) = s[1]
  OBVIOUS
<1> QED
  BY <1>1, <1>2, <1>3, <1>4, <1>5, <1>6

\* A text without a line that ends, where the far end waits, is its prompt.
LEMMA PromptIsAll ==
    ASSUME NEW t \in Seq(Tokens), NEW at, Chained(t), Waits(t, PromptsAt(at)),
           \A i \in DOMAIN t : t[i] # Newline
    PROVE  Len(t) = 1 /\ DOMAIN t = {1} /\ t[1] \in PromptsAt(at)
<1>1. Len(t) \in Nat /\ DOMAIN t = 1..Len(t)
  OBVIOUS
<1>2. /\ t # <<>> /\ t[Len(t)] \in PromptsAt(at)
      /\ Len(t) > 1 => t[Len(t) - 1] # "Last"
  BY DEF Waits
<1>3. PromptsAt(at) \subseteq Prompts
  BY DEF PromptsAt, Prompts
<1>4. ASSUME Len(t) > 1 PROVE FALSE
  <2> DEFINE a == t[Len(t) - 1]  b == t[Len(t)]
  <2>1. Len(t) - 1 \in 1..(Len(t) - 1) /\ Len(t) - 1 \in 1..Len(t)
        /\ (Len(t) - 1) + 1 = Len(t)
    BY <1>1, <1>4
  <2>2. Follows(a, b)
    BY <2>1 DEF Chained
  <2>3. a # Newline /\ a # "Last" /\ b \in Prompts
    BY <1>1, <1>2, <1>3, <1>4, <2>1
  <2> HIDE DEF a, b
  <2> QED
    BY <2>2, <2>3 DEF Follows, Prompts, Newline
<1>5. Len(t) > 0
  BY <1>1, <1>2, EmptySeq
<1>6. Len(t) = 1
  BY <1>1, <1>4, <1>5
<1> QED
  BY <1>1, <1>2, <1>6

\* When all is delivered that was printed, the command looks at a prompt alone.
LEMMA PromptAlone ==
    ASSUME TypeInv, TextInv, wire = <<>>, far.at # "stopped"
    PROVE  line # <<>> /\ Len(Text) = 1 /\ DOMAIN Text = {1} /\ Text[1] \in PromptsAt(far.at)
<1>1. line \in Seq(Tokens) /\ wire \in Seq(Tokens)
  BY DEF TypeInv
<1>2. Text = line
  BY <1>1, ConcatEmptySeq DEF Text
<1>3. /\ Text \in Seq(Tokens) /\ Text # <<>>
      /\ Chained(Text) /\ Waits(Text, PromptsAt(far.at)) /\ \A i \in DOMAIN Text : Text[i] # Newline
  BY <1>1, <1>2 DEF TextInv, Waits
<1>4. Len(Text) = 1 /\ DOMAIN Text = {1} /\ Text[1] \in PromptsAt(far.at)
  BY <1>3, PromptIsAll
<1> QED
  BY <1>2, <1>3, <1>4

\* A turn of the far end keeps the types and the shape of the text.
LEMMA TurnKeepsTypes ==
    ASSUME TypeInv, TextInv, NEW tokens, NEW at, Turn(tokens, at)
    PROVE  TypeInv' /\ TextInv'
<1>1. /\ typed # <<>> /\ Show(tokens) /\ tokens \in Seq(Tokens) /\ Chained(tokens)
      /\ far' \in FarEnds /\ far'.accepted < Len(setup.asks) /\ far'.at = at
      /\ at # "stopped" => Waits(tokens, PromptsAt(at))
      /\ far.at # "stopped"
  BY DEF Turn
<1>2. /\ wire' \in Seq(Tokens) /\ Chained(Text')
      /\ \A prompts : Waits(tokens, prompts) => Waits(Text', prompts)
  BY <1>1, ShowIs
<1>3. /\ typed' = Tail(typed) /\ UNCHANGED <<setup, line, cmd, lost>>
      /\ misread' = (misread \/ Input.for \notin {"any", far.at})
      /\ excused' = (excused \/ (Input.for = "any" /\ far.at \notin {"login", "resize", "shell"}))
  BY <1>1 DEF Show
<1>4. typed' \in Seq(Inputs)
  <2>1. typed \in Seq(Inputs)
    BY DEF TypeInv
  <2> QED
    BY <1>1, <1>3, <2>1, TailIs
<1>5. misread' \in BOOLEAN /\ excused' \in BOOLEAN
  BY <1>3 DEF TypeInv
<1>6. TypeInv'
  <2>1. Harmless(cmd)'
    BY <1>3 DEF TypeInv, Harmless
  <2> QED
    BY <1>1, <1>2, <1>3, <1>4, <1>5, <2>1 DEF TypeInv
<1>7. TextInv'
  BY <1>1, <1>2, <1>3 DEF TextInv
<1> QED
  BY <1>6, <1>7

\* What is read is what was meant, where an answer is awaited.
AnswerIs(phase) ==
    /\ Len(typed) = 1 /\ typed[1].for = phase /\ wire = <<>> /\ cmd.outcome = "running"
    /\ phase = "confirm" => cmd.sentContinue /\ ~cmd.stored
    /\ phase = "password" => cmd.sent /\ (typed[1].text = "ctrl+c" \/ ~cmd.stored)
    /\ phase = "local" => cmd.sent /\ ~cmd.stored /\ setup.protocol = "ssh"

\* The answer that the far end reads when it asks for a password or a confirmation, or has a
\* shell of its own, is the only one, and what asked for it is all that was printed.
LEMMA OneAnswerIsRead ==
    ASSUME TypeInv, TypedFits, CommandFits, typed # <<>>, typed[1].for # "any",
           far.at \in {"confirm", "password", "local"}
    PROVE  AnswerIs(far.at)
<1>1. CASE far.at = "confirm"
  BY <1>1 DEF TypedFits, CommandFits, ConfirmTyped, OneAnswer, AnswerIs
<1>2. CASE far.at = "password"
  BY <1>2 DEF TypedFits, PasswordTyped, OneAnswer, AnswerIs
<1>3. CASE far.at = "local"
  BY <1>3 DEF TypedFits, LocalTyped, OneAnswer, AnswerIs
<1> QED
  BY <1>1, <1>2, <1>3

\* Where the tokens may be that are shown.
LEMMA ShownFits ==
    ASSUME NEW m, NEW tokens, ShownBehind(m, tokens), tokens \in Seq(Tokens), Len(Text) \in Nat,
           NewFits(tokens, far'.at), NEW j \in 1..Len(tokens)
    PROVE  TokenFits(m + j, tokens[j])'
<1>1. /\ m \in Nat /\ Len(Text') = m + Len(tokens) /\ Len(tokens) \in Nat
      /\ \A i \in 1..Len(tokens) : Text'[m + i] = tokens[i]
  BY DEF ShownBehind
<1>2. /\ j \in Nat /\ j \in DOMAIN tokens /\ m + j \in Nat
      /\ j = Len(tokens) => m + j = Len(Text')
      /\ j > 1 => m + j > 1 /\ j - 1 \in 1..Len(tokens) /\ (m + j) - 1 = m + (j - 1)
      /\ j < Len(tokens) => j + 1 \in 1..Len(tokens) /\ (m + j) + 1 = m + (j + 1)
  BY <1>1
<1>3. /\ j > 1 => Text'[m + (j - 1)] = tokens[j - 1]
      /\ j < Len(tokens) => Text'[m + (j + 1)] = tokens[j + 1]
  BY <1>1, <1>2
<1>4. PICK k : k = m + j
  OBVIOUS
<1>5. PICK x : x = tokens[j]
  OBVIOUS
<1>6. /\ j = Len(tokens) => k = Len(Text')
      /\ j > 1 => k > 1 /\ Text'[k - 1] = tokens[j - 1]
      /\ j < Len(tokens) => Text'[k + 1] = tokens[j + 1]
  BY <1>2, <1>3, <1>4
<1>7. /\ x = "password:" => j = Len(tokens) /\ far'.at = "password"
      /\ x = "local" => j = Len(tokens) /\ far'.at = "local"
      /\ x = "yes/no" => j = Len(tokens) /\ far'.at = "confirm"
      /\ x = "login:" => (j > 1 /\ tokens[j - 1] = "Last") \/ far'.at = "login"
      /\ x \in {"Last", "connected", "resize"} => far'.at \in {"shell", "resize"}
      /\ x \in {"remote", "first"} => far'.at = "shell"
      /\ x \in {"id_dsa", "bad_key", "disconnected"} => far'.at = "local"
      /\ x = "denied" => \/ far'.at = "local"
                         \/ far'.at = "password" /\ j < Len(tokens) /\ tokens[j + 1] = "again"
  BY <1>2, <1>5 DEF NewFits
<1>8. TokenFits(k, x)'
  BY <1>6, <1>7 DEF TokenFits, Newest
<1> QED
  BY <1>4, <1>5, <1>8

\* What was printed before is behind the command, or still fits.
LEMMA TurnKeepsPrinted ==
    ASSUME TypeInv, TextInv, TokensFit, TypedFits, CommandFits, NEW tokens, NEW at,
           Turn(tokens, at), ~excused', NEW m, ShownBehind(m, tokens), NEW i \in 1..Len(Text),
           NEW x, x = Text[i]
    PROVE  TokenFits(i, x)'
<1>1. /\ typed \in Seq(Inputs) /\ typed # <<>> /\ Len(Text) \in Nat /\ DOMAIN Text = 1..Len(Text)
      /\ line' = line /\ cmd' = cmd /\ far'.at = at /\ Input = typed[1]
      /\ 1 \in DOMAIN typed /\ Len(typed) \in Nat
  <2>1. typed \in Seq(Inputs) /\ line \in Seq(Tokens) /\ wire \in Seq(Tokens)
    BY DEF TypeInv
  <2>2. typed # <<>> /\ line' = line /\ cmd' = cmd /\ far'.at = at
    BY DEF Turn, Show
  <2> QED
    BY <2>1, <2>2, TextIs, TailIs DEF Input
<1>2. /\ Len(Text') \in Nat /\ i < Len(Text') /\ i \in 1..Len(Text) /\ i \in DOMAIN Text
      /\ \A j \in 1..Len(Text) : Text'[j] = Text[j]
  <2>1. m \in Nat /\ m > Len(Text) /\ Len(Text') = m + Len(tokens) /\ Len(tokens) \in Nat
        /\ \A j \in 1..Len(Text) : Text'[j] = Text[j]
    <3>1. tokens \in Seq(Tokens)
      BY DEF Turn
    <3> QED
      BY <3>1 DEF ShownBehind
  <2> QED
    BY <1>1, <2>1
<1>3. CASE far.at \in {"confirm", "password", "local"}
  <2>1. AnswerIs(far.at)
    <3>1. typed[1].for # "any"
      BY <1>1, <1>3 DEF Turn, Show
    <3> QED
      BY <1>1, <1>3, <3>1, OneAnswerIsRead
  <2>2. line # <<>> /\ Len(Text) = 1 /\ Text[1] \in PromptsAt(far.at)
    <3>1. wire = <<>> /\ far.at # "stopped"
      BY <1>3, <2>1 DEF AnswerIs
    <3> QED
      BY <3>1, PromptAlone
  <2>3. i = 1
    BY <2>2
  <2>4. \/ Text[1] = "yes/no" /\ cmd.sentContinue
        \/ Text[1] = "password:" /\ cmd.sent
        \/ Text[1] = "local" /\ cmd.sent
    BY <1>3, <2>1, <2>2 DEF PromptsAt, AnswerIs
  <2>5. (x = "yes/no" /\ cmd.sentContinue) \/ (x \in {"password:", "local"} /\ cmd.sent)
    BY <2>3, <2>4
  <2> QED
    BY <1>1, <2>2, <2>3, <2>5 DEF TokenFits, Answered
<1>4. CASE far.at \in {"login", "resize", "shell"}
  <2>2. TokenFits(i, x)
    <3>1. TokenFits(i, Text[i])
      BY <1>2 DEF TokensFit
    <3> QED
      BY <3>1
  <2>3. \/ far.at = "login" /\ at = "login"
        \/ far.at = "login" /\ at = "password" /\ cmd.sentLogin
        \/ far.at \in {"resize", "shell"} /\ at = "shell"
    <3>1. \/ far.at = "login" /\ at = "login"
          \/ far.at = "login" /\ at = "password" /\ typed[1].text # ""
          \/ far.at \in {"resize", "shell"} /\ at = "shell"
      BY <1>1, <1>4 DEF Turn
    <3>2. far.at = "login" /\ typed[1].text # "" => cmd.sentLogin
      BY <1>1 DEF TypedFits, LoginTyped
    <3> QED
      BY <3>1, <3>2
  <2>4. i > 1 => Text'[i - 1] = Text[i - 1]
    <3>1. i > 1 => i - 1 \in 1..Len(Text)
      BY <1>1, <1>2
    <3> QED
      BY <1>2, <3>1
  <2>5. Answered(i) => Answered(i)'
    BY <1>1 DEF Answered
  <2>6. /\ x = "password:" => Answered(i)
        /\ x = "local" => Answered(i)
        /\ x = "yes/no" => cmd.sentContinue
        /\ x # "denied" /\ x \notin {"id_dsa", "bad_key", "disconnected"}
    BY <1>4, <2>2 DEF TokenFits, Newest
  <2>7. x = "login:" => \/ i > 1 /\ Text'[i - 1] = "Last"
                        \/ far'.at = "login"
                        \/ (far'.at = "password" /\ cmd'.sentLogin /\ i < Len(Text'))
    BY <1>1, <1>2, <1>4, <2>2, <2>3, <2>4 DEF TokenFits
  <2>8. /\ x = "Last" => far'.at \in {"shell", "resize"}
        /\ x = "connected" => \/ far'.at \in {"shell", "resize"}
                              \/ (far'.at = "login" /\ i = 1 /\ ~cmd'.sentLogin)
        /\ x \in {"remote", "first"} => far'.at = "shell"
        /\ x = "resize" => far'.at \in {"shell", "resize"}
    BY <1>1, <1>4, <2>2, <2>3 DEF TokenFits
  <2> QED
    BY <1>1, <2>5, <2>6, <2>7, <2>8 DEF TokenFits
<1>5. far.at \in {"confirm", "password", "local", "login", "resize", "shell"}
  BY DEF Turn
<1> QED
  BY <1>3, <1>4, <1>5

\* A turn of the far end leaves every token where the command may meet it.
LEMMA TurnKeepsTokens ==
    ASSUME TypeInv, TextInv, TokensFit, TypedFits, CommandFits, NEW tokens, NEW at,
           Turn(tokens, at), ~excused'
    PROVE  TokensFit'
<1>1. /\ tokens \in Seq(Tokens) /\ Chained(tokens) /\ Show(tokens) /\ typed # <<>>
      /\ far.at # "stopped" /\ far'.at = at /\ Input = typed[1]
  <2>1. typed \in Seq(Inputs) /\ typed # <<>>
    BY DEF TypeInv, Turn
  <2>2. Input = typed[1]
    BY <2>1, TailIs DEF Input
  <2> QED
    BY <2>1, <2>2 DEF Turn
<1>2. PICK m \in Nat : ShownBehind(m, tokens)
  BY <1>1, ShowIs
<1>3. Text \in Seq(Tokens) /\ Len(Text) \in Nat
  BY TextIs DEF TypeInv
<1>4. /\ m \in Nat /\ m > Len(Text) /\ DOMAIN Text' = 1..(m + Len(tokens)) /\ Len(tokens) \in Nat
      /\ \A i \in 1..Len(Text) : Text'[i] = Text[i]
      /\ \A i \in (Len(Text) + 1)..m : Text'[i] \in {"echo", Newline}
      /\ \A i \in 1..Len(tokens) : Text'[m + i] = tokens[i]
  BY <1>1, <1>2 DEF ShownBehind
<1>5. NewFits(tokens, far'.at)
  <2>1. ASSUME far.at = "local" PROVE setup.protocol = "ssh"
    <3>1. typed[1].for # "any"
      BY <1>1, <2>1 DEF Show
    <3>2. AnswerIs("local")
      BY <1>1, <2>1, <3>1, OneAnswerIsRead
    <3> QED
      BY <3>2 DEF AnswerIs
  <2> QED
    BY <1>1, <2>1 DEF Turn
<1>6. ASSUME NEW i \in DOMAIN Text', NEW x, x = Text'[i] PROVE TokenFits(i, x)'
  <2>1. CASE i \in 1..Len(Text)
    <3>1. x = Text[i]
      BY <1>4, <1>6, <2>1
    <3> QED
      BY <1>2, <2>1, <3>1, TurnKeepsPrinted
  <2>2. CASE i \in (Len(Text) + 1)..m
    <3>1. x \in {"echo", "newline"}
      BY <1>4, <1>6, <2>2 DEF Newline
    <3> QED
      BY <3>1 DEF TokenFits
  <2>3. CASE i \in (m + 1)..(m + Len(tokens))
    <3>1. i - m \in 1..Len(tokens) /\ i = m + (i - m)
      BY <1>4, <2>3
    <3>2. PICK j \in 1..Len(tokens) : i = m + j
      BY <3>1
    <3>3. TokenFits(m + j, tokens[j])'
      BY <1>1, <1>2, <1>3, <1>5, ShownFits
    <3>4. x = tokens[j]
      BY <1>4, <1>6, <3>2
    <3> QED
      BY <3>2, <3>3, <3>4
  <2> QED
    BY <1>3, <1>4, <1>6, <2>1, <2>2, <2>3
<1> QED
  BY <1>6 DEF TokensFit

\* What the far end reads is what it asked for, and what is typed and unread still fits.
LEMMA TurnKeepsAnswers ==
    ASSUME TypeInv, TextInv, ~misread, TypedFits, CommandFits, NEW tokens, NEW at,
           Turn(tokens, at), ~excused'
    PROVE  ~misread' /\ TypedFits' /\ CommandFits'
<1>1. /\ typed \in Seq(Inputs) /\ typed # <<>> /\ setup' = setup /\ line' = line /\ cmd' = cmd
      /\ typed' = Tail(typed) /\ far'.at = at /\ Input = typed[1]
      /\ 1 \in DOMAIN typed /\ Len(typed) \in Nat
      /\ misread' = (misread \/ typed[1].for \notin {"any", far.at})
      /\ typed[1].for = "any" => far.at \in {"login", "resize", "shell"}
      /\ Len(typed) = 1 => typed' = <<>>
  <2>1. typed \in Seq(Inputs) /\ typed # <<>>
    BY DEF TypeInv, Turn
  <2>2. UNCHANGED <<setup, line, cmd>> /\ typed' = Tail(typed) /\ far'.at = at
    BY DEF Turn, Show
  <2>3. /\ misread' = (misread \/ Input.for \notin {"any", far.at})
        /\ Input.for = "any" => far.at \in {"login", "resize", "shell"}
    BY DEF Turn, Show
  <2>4. /\ Head(typed) = typed[1] /\ 1 \in DOMAIN typed /\ Len(typed) \in Nat
        /\ Len(typed) = 1 => Tail(typed) = <<>>
    BY <2>1, TailIs
  <2>5. Input = typed[1]
    BY <2>4 DEF Input
  <2>6. /\ misread' = (misread \/ typed[1].for \notin {"any", far.at})
        /\ typed[1].for = "any" => far.at \in {"login", "resize", "shell"}
    BY <2>3, <2>5
  <2>7. Len(typed) = 1 => typed' = <<>>
    BY <2>2, <2>4
  <2> QED
    BY <2>1, <2>2, <2>4, <2>5, <2>6, <2>7
<1>2. /\ Len(typed') \in Nat
      /\ \A i \in DOMAIN typed' : /\ i + 1 \in DOMAIN typed /\ typed'[i] = typed[i + 1]
                                  /\ i + 1 = Len(typed) <=> i = Len(typed')
  <2>1. Len(Tail(typed)) \in Nat
    BY <1>1, TailIs
  <2> QED
    BY <1>1, <2>1, TailIs
<1>3. /\ \/ far.at = "confirm" /\ at \in {"confirm", "password"}
         \/ far.at = "login" /\ at = "login" /\ typed[1].text = ""
         \/ far.at = "login" /\ at = "password" /\ typed[1].text # ""
         \/ far.at = "password" /\ at \in {"password", "shell", "resize", "login"}
            /\ typed[1].text # "ctrl+c"
         \/ far.at = "password" /\ at = "local"
         \/ far.at \in {"resize", "shell"} /\ at = "shell"
         \/ far.at = "local" /\ at = "local"
         \/ far.at = "local" /\ at \in Phases /\ typed[1].text = "ssh"
      /\ at = "login" => setup.protocol = "telnet" \/ far.at = "login"
      /\ at = "confirm" => setup.protocol = "ssh" \/ far.at = "confirm"
      /\ at = "local" => far'.refused \/ (far.at = "local" /\ far.refused = far'.refused)
  BY <1>1 DEF Turn
<1>4. ASSUME far.at \in {"confirm", "password", "local"} PROVE AnswerIs(far.at)
  <2>1. typed[1].for # "any"
    BY <1>1, <1>4
  <2> QED
    BY <1>1, <1>4, <2>1, OneAnswerIsRead
<1>5. ~misread'
  <2>1. CASE far.at \in {"confirm", "password", "local"}
    BY <1>1, <1>4, <2>1 DEF AnswerIs
  <2>2. CASE far.at \in {"login", "resize", "shell"}
    BY <1>1, <2>2 DEF TypedFits, LoginTyped
  <2> QED
    BY <1>3, <2>1, <2>2
<1>6. TypedFits'
  <2>1. CASE typed' = <<>>
    <3>1. DOMAIN typed' = {}
      BY <2>1
    <3> QED
      BY <2>1, <3>1 DEF TypedFits, ConfirmTyped, PasswordTyped, LocalTyped, LoginTyped
  <2>2. CASE typed' # <<>>
    <3>1. far.at \notin {"confirm", "password", "local"}
      BY <1>1, <1>4, <2>2 DEF AnswerIs
    <3>2. \A i \in DOMAIN typed' : typed'[i].text = "ssh" => typed'[i].for = "local"
      BY <1>2 DEF TypedFits
    <3>3. CASE far.at = "login"
      <4>1. \A i \in DOMAIN typed :
              \/ typed[i].for = "any" /\ typed[i].text = ""
              \/ typed[i].for = "login" /\ typed[i].text = "user" /\ i = Len(typed) /\ cmd.sentLogin
        BY <3>3 DEF TypedFits, LoginTyped
      <4>2. typed[1].text = "" /\ at = "login"
        <5>1. 1 # Len(typed)
          BY <1>1, <2>2
        <5>2. typed[1].text = ""
          BY <1>1, <4>1, <5>1
        <5> QED
          BY <1>3, <3>3, <5>2
      <4>3. LoginTyped'
        <5>1. SUFFICES ASSUME NEW i \in DOMAIN typed'
                       PROVE  \/ typed'[i].for = "any" /\ typed'[i].text = ""
                              \/ /\ typed'[i].for = "login" /\ typed'[i].text = "user"
                                 /\ i = Len(typed') /\ cmd'.sentLogin
          BY DEF LoginTyped
        <5>2. /\ i + 1 \in DOMAIN typed /\ typed'[i] = typed[i + 1]
              /\ i + 1 = Len(typed) <=> i = Len(typed')
          BY <1>2
        <5> QED
          BY <1>1, <4>1, <5>2
      <4> QED
        BY <1>1, <3>2, <4>2, <4>3 DEF TypedFits
    <3>4. CASE far.at \in {"resize", "shell"}
      <4>1. \A i \in DOMAIN typed : typed[i].for \in {"any", "shell"}
        BY <3>4 DEF TypedFits
      <4>2. \A i \in DOMAIN typed' : typed'[i].for \in {"any", "shell"}
        BY <1>2, <4>1
      <4>3. at = "shell"
        BY <1>3, <3>4
      <4> QED
        BY <1>1, <3>2, <4>2, <4>3 DEF TypedFits
    <3> QED
      BY <1>3, <3>1, <3>3, <3>4
  <2> QED
    BY <2>1, <2>2
<1>7. CommandFits'
  <2>1. /\ cmd.outcome = "exception" => far.at = "local"
        /\ cmd.outcome = "result" => far.at = "shell"
        /\ far.at = "local" => far.refused
        /\ cmd.whenPrompt # <<>> \/ far.at = "confirm" => setup.protocol = "ssh"
        /\ far.at = "login" => setup.protocol = "telnet"
        /\ cmd.stored => far.at \in {"local", "password"}
    BY DEF CommandFits
  <2>2. cmd.stored => at = "local"
    <3>1. cmd.stored => far.at = "password" /\ typed[1].text = "ctrl+c"
      BY <1>4, <2>1 DEF AnswerIs
    <3> QED
      BY <1>3, <3>1
  <2>3. cmd.outcome # "exception" /\ (cmd.outcome = "result" => at = "shell")
    <3>1. cmd.outcome = "result" => far.at = "shell"
      BY <2>1
    <3>2. cmd.outcome # "exception"
      BY <1>4, <2>1 DEF AnswerIs
    <3> QED
      BY <1>3, <3>1, <3>2
  <2>4. at = "local" => far'.refused
    BY <1>3, <2>1
  <2>5. /\ cmd.whenPrompt # <<>> => setup.protocol = "ssh"
        /\ at = "confirm" => setup.protocol = "ssh"
        /\ at = "login" => setup.protocol = "telnet"
    BY <1>3, <2>1
  <2> QED
    BY <1>1, <2>2, <2>3, <2>4, <2>5 DEF CommandFits
<1> QED
  BY <1>5, <1>6, <1>7

\* What the far end does keeps the invariant.
LEMMA FarEndKeeps ==
    ASSUME LoginInv, FarEnd
    PROVE  LoginInv'
<1>1. TypeInv /\ TextInv /\ ConnectedInv /\ LostInv
  BY DEF LoginInv
<1>2. PICK tokens, at : Turn(tokens, at)
  BY <1>1, FarEndTurns
<1>3. TypeInv' /\ TextInv'
  BY <1>1, <1>2, TurnKeepsTypes
<1>4. /\ Show(tokens) /\ typed # <<>> /\ lost' = lost /\ (excused => excused')
      /\ typed' = Tail(typed) /\ far'.at = at /\ cmd' = cmd /\ line' = line
  BY <1>2 DEF Turn, Show
<1>5. ConnectedInv'
  <2>1. SUFFICES ASSUME ~lost', ~excused'
                 PROVE  ~misread' /\ TokensFit' /\ TypedFits' /\ CommandFits'
    BY DEF ConnectedInv
  <2>2. ~misread /\ TokensFit /\ TypedFits /\ CommandFits
    BY <1>1, <1>4, <2>1 DEF ConnectedInv
  <2>3. TokensFit'
    BY <1>1, <1>2, <2>1, <2>2, TurnKeepsTokens
  <2>4. ~misread' /\ TypedFits' /\ CommandFits'
    BY <1>1, <1>2, <2>1, <2>2, TurnKeepsAnswers
  <2> QED
    BY <2>3, <2>4
<1>6. LostInv'
  <2>1. SUFFICES ASSUME lost', ~excused'
                 PROVE  /\ far'.at = "local"
                        /\ \A i \in DOMAIN typed' : typed'[i].text # "ssh"
                        /\ \/ cmd'.outcome # "running" \/ cmd'.stored
                           \/ \E d \in DOMAIN Text' :
                                /\ Text'[d] = "disconnected"
                                /\ \A i \in 1..d : Text'[i] = "local" => Answered(i)'
    BY DEF LostInv
  <2>2. /\ far.at = "local"
        /\ \A i \in DOMAIN typed : typed[i].text # "ssh"
        /\ \/ cmd.outcome # "running" \/ cmd.stored
           \/ \E d \in DOMAIN Text :
                /\ Text[d] = "disconnected"
                /\ \A i \in 1..d : Text[i] = "local" => Answered(i)
    BY <1>1, <1>4, <2>1 DEF LostInv
  <2>3. /\ Input = typed[1] /\ 1 \in DOMAIN typed
        /\ \A i \in DOMAIN typed' : i + 1 \in DOMAIN typed /\ typed'[i] = typed[i + 1]
    <3>1. typed \in Seq(Inputs)
      BY <1>1 DEF TypeInv
    <3> QED
      BY <1>4, <3>1, TailIs DEF Input
  <2>4. far'.at = "local"
    BY <1>2, <1>4, <2>2, <2>3 DEF Turn
  <2>5. \A i \in DOMAIN typed' : typed'[i].text # "ssh"
    BY <2>2, <2>3
  <2>6. ASSUME NEW d \in DOMAIN Text, Text[d] = "disconnected",
               \A i \in 1..d : Text[i] = "local" => Answered(i)
        PROVE  /\ d \in DOMAIN Text' /\ Text'[d] = "disconnected"
               /\ \A i \in 1..d : Text'[i] = "local" => Answered(i)'
    <3>1. tokens \in Seq(Tokens) /\ Chained(tokens) /\ far.at # "stopped"
      BY <1>2, <2>2 DEF Turn
    <3>2. PICK m \in Nat : ShownBehind(m, tokens)
      BY <1>1, <1>4, <3>1, ShowIs
    <3>3. /\ m > Len(Text) /\ DOMAIN Text' = 1..(m + Len(tokens)) /\ Len(tokens) \in Nat
          /\ \A i \in 1..Len(Text) : Text'[i] = Text[i]
      BY <3>1, <3>2 DEF ShownBehind
    <3>4. Len(Text) \in Nat /\ DOMAIN Text = 1..Len(Text)
      BY <1>1, TextIs DEF TypeInv
    <3>5. d \in DOMAIN Text' /\ \A i \in 1..d : i \in 1..Len(Text)
      BY <3>2, <3>3, <3>4
    <3>6. \A i \in 1..d : Answered(i) => Answered(i)'
      BY <1>4 DEF Answered
    <3> QED
      BY <2>6, <3>3, <3>4, <3>5, <3>6
  <2> QED
    BY <1>4, <2>2, <2>4, <2>5, <2>6
<1> QED
  BY <1>3, <1>5, <1>6 DEF LoginInv

\* When the connection is lost, all that is typed was meant for the host, and what the command
\* has not answered yet comes before it is told.
LEMMA LossKeeps ==
    ASSUME LoginInv, ConnectionLost
    PROVE  LoginInv'
<1>1. TypeInv /\ TextInv /\ ConnectedInv
  BY DEF LoginInv
<1>2. /\ far.at \notin {"local", "stopped"} /\ ~lost /\ lost' /\ far' = [far EXCEPT !.at = "local"]
      /\ wire' = wire \o <<Newline, "disconnected", Newline, "local">>
      /\ UNCHANGED <<setup, typed, line, cmd, misread, excused>>
  BY DEF ConnectionLost
<1> DEFINE told == "disconnected"  back == "local"
           w == <<Newline, told, Newline, back>>
<1>3. told = "disconnected" /\ back = "local"
  OBVIOUS
<1>4. wire' = wire \o w
  BY <1>2
<1> HIDE DEF told, back
<1>5. /\ told \in Tokens /\ back \in Tokens /\ Newline \in Tokens
      /\ Follows(Newline, told) /\ Follows(told, Newline) /\ Follows(Newline, back)
      /\ Newline # "Last" /\ told # "Last" /\ back # "Last" /\ Newline # "local"
      /\ told # "local"
  BY <1>3 DEF Tokens, Firsts, Prompts, Follows, Newline
<1>6. /\ w \in Seq(Tokens) /\ Len(w) = 4 /\ w # <<>>
      /\ w[1] = Newline /\ w[2] = told /\ w[3] = Newline /\ w[4] = back
  BY <1>5
<1> HIDE DEF w
<1>7. /\ far \in FarEnds /\ line \in Seq(Tokens) /\ wire \in Seq(Tokens)
      /\ Text \in Seq(Tokens) /\ Len(Text) \in Nat /\ DOMAIN Text = 1..Len(Text)
  BY <1>1, TextIs DEF TypeInv
<1>8. Text' = Text \o w /\ wire' \in Seq(Tokens)
  <2>1. (line \o wire) \o w = line \o (wire \o w)
    <3>1. line \in Seq(Tokens) /\ wire \in Seq(Tokens) /\ w \in Seq(Tokens)
      BY <1>6, <1>7
    <3> QED
      BY <3>1, ConcatAssociative
  <2>2. wire \o w \in Seq(Tokens)
    BY <1>6, <1>7, ConcatProperties
  <2> QED
    BY <1>2, <1>4, <2>1, <2>2 DEF Text
<1>9. TypeInv'
  <2>1. far' \in FarEnds /\ far'.accepted = far.accepted
    BY <1>2, <1>7 DEF FarEnds, Phases
  <2>2. Harmless(cmd)' /\ lost' \in BOOLEAN
    BY <1>1, <1>2 DEF TypeInv, Harmless
  <2> QED
    BY <1>1, <1>2, <1>8, <2>1, <2>2 DEF TypeInv
<1>10. /\ Chained(Text) /\ Text # <<>> /\ Text[Len(Text)] \in Prompts
       /\ (Len(Text) > 1 => Text[Len(Text) - 1] # "Last")
  <2>1. PromptsAt(far.at) \subseteq Prompts
    BY DEF PromptsAt, Prompts
  <2> QED
    BY <1>1, <1>2, <2>1 DEF TextInv, Waits
<1>11. NoLast(Text) /\ Follows(Text[Len(Text)], Newline)
  BY <1>10 DEF NoLast, Follows, Prompts, Newline, Firsts
<1>12. TextInv'
  <2>1. Chained(Text \o w)
    <3>1. 1..(Len(w) - 1) = {1, 2, 3} /\ 1..(Len(w) - 2) = {1, 2}
          /\ 1 + 1 = 2 /\ 2 + 1 = 3 /\ 3 + 1 = 4
      BY <1>6
    <3>2. \A i \in 1..(Len(w) - 1) : Follows(w[i], w[i + 1])
      BY <1>5, <1>6, <3>1
    <3>3. \A i \in 1..(Len(w) - 2) : w[i] # "Last"
      BY <1>5, <1>6, <3>1
    <3> QED
      BY <1>6, <1>7, <1>10, <1>11, <3>2, <3>3, JoinedIsChained
  <2>2. Waits(Text \o w, PromptsAt("local"))
    <3>1. back \in PromptsAt("local")
      BY <1>3 DEF PromptsAt
    <3>2. Waits(w, PromptsAt("local"))
      BY <1>5, <1>6, <3>1 DEF Waits
    <3> QED
      BY <1>6, <1>7, <1>11, <3>2, JoinedWaits DEF NoLast
  <2>3. far'.at = "local" /\ line' = line
    BY <1>2, <1>7 DEF FarEnds
  <2> QED
    BY <1>1, <1>8, <2>1, <2>2, <2>3 DEF TextInv
<1>13. ConnectedInv'
  BY <1>2 DEF ConnectedInv
<1>14. LostInv'
  <2>1. SUFFICES ASSUME ~excused'
                 PROVE  /\ far'.at = "local"
                        /\ \A i \in DOMAIN typed' : typed'[i].text # "ssh"
                        /\ \E d \in DOMAIN Text' :
                              /\ Text'[d] = "disconnected"
                              /\ \A i \in 1..d : Text'[i] = "local" => Answered(i)'
    BY DEF LostInv
  <2>2. TokensFit /\ TypedFits
    BY <1>1, <1>2, <2>1 DEF ConnectedInv
  <2>3. far'.at = "local"
    BY <1>2, <1>7 DEF FarEnds
  <2>4. \A i \in DOMAIN typed' : typed'[i].text # "ssh"
    <3>1. SUFFICES ASSUME NEW i \in DOMAIN typed, typed[i].text = "ssh" PROVE FALSE
      BY <1>2
    <3>2. typed[i].for = "local" /\ typed \in Seq(Inputs) /\ typed # <<>>
      BY <1>1, <2>2, <3>1 DEF TypedFits, TypeInv
    <3>3. far.at \in {"confirm", "login", "password", "resize", "shell"}
      BY <1>2, <1>7 DEF FarEnds, Phases
    <3>4. CASE far.at \in {"confirm", "password"}
      <4>1. Len(typed) = 1 /\ typed[1].for = far.at
        BY <2>2, <3>2, <3>4 DEF TypedFits, ConfirmTyped, PasswordTyped, OneAnswer
      <4>2. i = 1
        BY <3>1, <3>2, <4>1
      <4> QED
        BY <3>2, <3>4, <4>1, <4>2
    <3>5. CASE far.at \in {"login", "resize", "shell"}
      BY <2>2, <3>1, <3>2, <3>5 DEF TypedFits, LoginTyped
    <3> QED
      BY <3>3, <3>4, <3>5
  <2>5. PICK l : l = Len(Text)
    OBVIOUS
  <2>6. /\ l \in Nat /\ DOMAIN Text' = 1..(l + 4)
        /\ \A i \in 1..l : Text'[i] = Text[i]
        /\ Text'[l + 1] = Newline /\ Text'[l + 2] = told
    <3>1. /\ DOMAIN Text' = 1..(Len(Text) + Len(w))
          /\ \A i \in 1..Len(Text) : Text'[i] = Text[i]
          /\ \A i \in 1..Len(w) : Text'[Len(Text) + i] = w[i]
      <4>1. Text \in Seq(Tokens) /\ w \in Seq(Tokens)
        BY <1>6, <1>7
      <4> QED
        BY <1>8, <4>1, Joined
    <3>2. 1 \in 1..Len(w) /\ 2 \in 1..Len(w)
      BY <1>6
    <3> QED
      BY <1>6, <1>7, <2>5, <3>1, <3>2
  <2>7. l + 2 \in DOMAIN Text'
    BY <2>6
  <2>8. ASSUME NEW i \in 1..(l + 2), Text'[i] = "local" PROVE Answered(i)'
    <3>1. i # l + 1 /\ i # l + 2
      BY <1>5, <2>6, <2>8
    <3>2. i \in 1..l
      BY <2>6, <3>1
    <3>3. TokenFits(i, Text[i]) /\ Text[i] = "local"
      BY <1>7, <2>2, <2>5, <2>6, <2>8, <3>2 DEF TokensFit
    <3>4. Answered(i)
      BY <1>2, <3>3 DEF TokenFits, Newest
    <3> QED
      BY <1>2, <3>4 DEF Answered
  <2> QED
    BY <1>3, <2>3, <2>4, <2>6, <2>7, <2>8
<1> QED
  BY <1>9, <1>12, <1>13, <1>14 DEF LoginInv

\* At the beginning the host shows its first prompt, and nothing is typed.
LEMMA InitKeeps == Init => LoginInv
<1>1. SUFFICES ASSUME Init PROVE LoginInv
  OBVIOUS
<1>2. /\ setup \in Setups /\ typed = <<>> /\ line = <<>> /\ wire = Opening(setup.key)
      /\ far = [at |-> OpensIn(setup.key), key |-> setup.key, user |-> setup.protocol = "ssh",
                accepted |-> 0, wrong |-> 0, session |-> 1, ready |-> FALSE,
                refused |-> OpensIn(setup.key) = "local"]
      /\ cmd = [sent |-> FALSE, resizeSent |-> FALSE, sentLogin |-> FALSE, sentContinue |-> FALSE,
                passwords |-> setup.passwords, lastPassword |-> "", whenPrompt |-> <<>>,
                afterLogin |-> setup.settings, stored |-> FALSE, outcome |-> "running",
                out |-> <<>>]
      /\ misread = FALSE /\ excused = FALSE /\ lost = FALSE
  BY <1>1 DEF Init
<1> DEFINE at == OpensIn(setup.key)  opening == Opening(setup.key)
<1>3. /\ setup.key \in Keys /\ setup.protocol \in {"ssh", "telnet"}
      /\ setup.asks \in Seq(STRING) /\ setup.asks # <<>>
      /\ setup.passwords \in Seq(STRING) /\ setup.settings \in Seq(STRING)
      /\ \A i \in DOMAIN setup.passwords : setup.passwords[i] # "ssh"
      /\ \A i \in DOMAIN setup.settings : setup.settings[i] # "ssh"
  BY <1>2, SetupsAssumption DEF Keys
<1>4. /\ at \in Phases \ {"stopped"} /\ Prints(opening, at)
      /\ setup.protocol = "ssh" => at # "login" /\ NewFits(opening, at)
      /\ at = "login" => setup.protocol = "telnet"
      /\ at = "confirm" => setup.protocol = "ssh"
      /\ setup.protocol = "telnet" => \/ opening = <<"login:">>
                                      \/ opening = <<"connected", Newline>> \o <<"login:">>
  BY <1>2, <1>3, OpeningPrints
<1>5. setup.protocol = "telnet" => at = "login"
  BY DEF OpensIn
<1>6. far.at = at /\ far.accepted = 0 /\ far.refused = (at = "local")
      /\ wire = opening
  BY <1>2
<1>7. opening \in Seq(Tokens) /\ Chained(opening) /\ Waits(opening, PromptsAt(at))
  BY <1>4 DEF Prints
<1>8. Text = opening
  BY <1>2, <1>7, ConcatEmptySeq DEF Text
<1>9. setup.passwords \in Seq(Words) /\ setup.settings \in Seq(Words)
  <2>1. ToSet(setup.passwords) \subseteq Words /\ ToSet(setup.settings) \subseteq Words
    <3>1. setup \in Setups
      BY <1>2
    <3>2. ToSet(setup.passwords) \cup ToSet(setup.settings)
            \in {ToSet(s.passwords) \cup ToSet(s.settings) : s \in Setups}
      BY <3>1
    <3>3. ToSet(setup.passwords) \cup ToSet(setup.settings)
            \subseteq UNION {ToSet(s.passwords) \cup ToSet(s.settings) : s \in Setups}
      BY <3>2, Zenon
    <3> QED
      BY <3>3, Zenon DEF Words
  <2>2. ASSUME NEW s \in Seq(STRING), ToSet(s) \subseteq Words PROVE s \in Seq(Words)
    BY <2>2 DEF ToSet
  <2> QED
    BY <1>3, <2>1, <2>2
<1>10. TypeInv
  <2>1. cmd \in Commands /\ cmd.out = <<>>
    <3>1. "" \in Words /\ <<>> \in Seq(Words) /\ <<>> \in Seq(Inputs)
      BY PlainWords, EmptySeq
    <3> QED
      BY <1>2, <1>9, <3>1 DEF Commands
  <2>2. Harmless(cmd)
    <3>1. cmd.passwords = setup.passwords /\ cmd.afterLogin = setup.settings
          /\ cmd.lastPassword = "" /\ "" # "ssh"
      BY <1>2
    <3> QED
      BY <1>3, <3>1 DEF Harmless
  <2>3. far \in FarEnds
    <3>1. (setup.protocol = "ssh") \in BOOLEAN /\ (at = "local") \in BOOLEAN /\ at \in Phases
          /\ 0 \in Nat /\ 1 \in Nat
      BY <1>4
    <3> QED
      BY <1>2, <1>3, <3>1 DEF FarEnds
  <2>4. far.accepted < Len(setup.asks)
    BY <1>3, <1>6, EmptySeq
  <2>5. line \in Seq(Tokens) /\ typed \in Seq(Inputs)
    BY <1>2, EmptySeq
  <2> QED
    BY <1>2, <1>6, <1>7, <2>1, <2>2, <2>3, <2>4, <2>5 DEF TypeInv
<1>11. TextInv
  <2>1. Chained(Text) /\ Waits(Text, PromptsAt(far.at))
    BY <1>6, <1>7, <1>8
  <2>2. \A i \in DOMAIN line : line[i] # Newline
    <3>1. line = <<>>
      BY <1>2
    <3>2. DOMAIN line = {}
      BY <3>1
    <3> QED
      BY <3>2
  <2> QED
    BY <2>1, <2>2 DEF TextInv
<1> HIDE DEF opening
<1>12. TokensFit
  <2>1. /\ cmd.sentLogin = FALSE /\ far.at = at /\ DOMAIN Text = 1..Len(Text) /\ Len(Text) \in Nat
    <3>1. cmd.sentLogin = FALSE /\ far.at = at
      BY <1>2, <1>6
    <3>2. Text \in Seq(Tokens)
      BY <1>7, <1>8
    <3> QED
      BY <3>1, <3>2
  <2>2. CASE setup.protocol = "ssh"
    <3>1. SUFFICES ASSUME NEW i \in DOMAIN Text PROVE TokenFits(i, Text[i])
      BY DEF TokensFit
    <3>2. /\ Text[i] = "password:" => i = Len(Text) /\ at = "password"
          /\ Text[i] = "local" => i = Len(Text) /\ at = "local"
          /\ Text[i] = "yes/no" => i = Len(Text) /\ at = "confirm"
          /\ Text[i] = "login:" => i > 1 /\ Text[i - 1] = "Last"
          /\ Text[i] \in {"Last", "connected", "resize"} => at \in {"shell", "resize"}
          /\ Text[i] \in {"remote", "first"} => at = "shell"
          /\ Text[i] \in {"id_dsa", "bad_key", "disconnected"} => at = "local"
          /\ Text[i] = "denied" => \/ at = "local"
                                   \/ at = "password" /\ Text[i + 1] = "again"
      BY <1>4, <1>8, <2>2 DEF NewFits
    <3> HIDE DEF at
    <3> QED
      BY <2>1, <3>2 DEF TokenFits, Newest
  <2>3. CASE setup.protocol = "telnet"
    <3>1. \A i \in DOMAIN Text : \/ Text[i] \in {"login:", "newline"}
                                 \/ Text[i] = "connected" /\ i = 1
      <4>1. CASE opening = <<"login:">>
        BY <1>8, <4>1
      <4>2. CASE opening = <<"connected", Newline>> \o <<"login:">>
        <5> DEFINE a == "connected"  b == "login:"  t == <<a, Newline, b>>
        <5>0. a = "connected" /\ b = "login:"
          OBVIOUS
        <5>1. <<"connected", Newline>> \o <<"login:">> = t
          BY TuplesJoin
        <5> HIDE DEF a, b
        <5>2. DOMAIN t = {1, 2, 3} /\ t[1] = a /\ t[2] = Newline /\ t[3] = b
          OBVIOUS
        <5>3. Text = t
          BY <1>8, <4>2, <5>1
        <5> HIDE DEF t
        <5> QED
          BY <5>0, <5>2, <5>3 DEF Newline
      <4> QED
        BY <1>4, <2>3, <4>1, <4>2
    <3>2. far.at = "login"
      BY <1>5, <2>1, <2>3
    <3> QED
      BY <2>1, <3>1, <3>2 DEF TokensFit, TokenFits
  <2> QED
    BY <1>3, <2>2, <2>3
<1>13. TypedFits
  <2>1. DOMAIN typed = {}
    <3>1. typed = <<>>
      BY <1>2
    <3> QED
      BY <3>1
  <2> QED
    BY <1>2, <2>1 DEF TypedFits, ConfirmTyped, PasswordTyped, LocalTyped, LoginTyped
<1>14. CommandFits
  <2>1. ~cmd.stored /\ cmd.outcome = "running" /\ cmd.whenPrompt = <<>>
    BY <1>2
  <2> HIDE DEF at
  <2> QED
    BY <1>4, <1>6, <2>1 DEF CommandFits
<1> QED
  BY <1>2, <1>10, <1>11, <1>12, <1>13, <1>14 DEF LoginInv, ConnectedInv, LostInv

\* A look at a line keeps the invariant, whether the connection lasts or is lost.
LEMMA ReceiveKeeps ==
    ASSUME LoginInv, Receive
    PROVE  LoginInv'
<1>1. TypeInv /\ TextInv /\ ConnectedInv /\ LostInv
  BY DEF LoginInv
<1>2. PICK k \in Nat, full \in BOOLEAN : LineEnds(k, full) /\ UNCHANGED far
  BY <1>1, ReceiveIs
<1>3. TextInv'
  BY <1>1, <1>2, ReceiveKeepsText
<1>4. TypeInv' /\ ConnectedInv' /\ LostInv'
  BY <1>1, ReceiveKeepsTypes, ReceiveKeepsConnected, ReceiveKeepsLost
<1> QED
  BY <1>3, <1>4 DEF LoginInv

\* A step of others keeps it.
LEMMA StutterKeeps ==
    ASSUME LoginInv, UNCHANGED vars
    PROVE  LoginInv'
<1>1. UNCHANGED <<setup, far, wire, typed, line, cmd, misread, excused, lost>>
  BY DEF vars
<1>2. Text' = Text
  BY <1>1 DEF Text
<1>3. TypeInv' /\ TextInv'
  BY <1>1, <1>2 DEF LoginInv, TypeInv, Harmless, TextInv
<1>4. ConnectedInv'
  <2>1. ConnectedInv
    BY DEF LoginInv
  <2>2. TokensFit => TokensFit'
    BY <1>1, <1>2 DEF TokensFit, TokenFits, Answered, Newest
  <2>3. (ConfirmTyped => ConfirmTyped') /\ (PasswordTyped => PasswordTyped')
    BY <1>1 DEF ConfirmTyped, PasswordTyped, OneAnswer
  <2>4. (LocalTyped => LocalTyped') /\ (LoginTyped => LoginTyped')
    BY <1>1 DEF LocalTyped, LoginTyped, OneAnswer
  <2>5. TypedFits => TypedFits'
    BY <1>1, <2>3, <2>4 DEF TypedFits
  <2>6. CommandFits => CommandFits'
    BY <1>1 DEF CommandFits
  <2> QED
    BY <1>1, <2>1, <2>2, <2>5, <2>6 DEF ConnectedInv
<1>5. LostInv'
  BY <1>1, <1>2 DEF LoginInv, LostInv, Answered
<1> QED
  BY <1>3, <1>4, <1>5 DEF LoginInv

\* The invariant of the dialogue.
THEOREM DialogueInvariant == Spec => []LoginInv
<1>1. Init => LoginInv
  BY InitKeeps
<1>2. LoginInv /\ [Next]_vars => LoginInv'
  <2>1. SUFFICES ASSUME LoginInv, [Next]_vars PROVE LoginInv'
    OBVIOUS
  <2>2. CASE Receive
    BY <2>1, <2>2, ReceiveKeeps
  <2>3. CASE FarEnd
    BY <2>1, <2>3, FarEndKeeps
  <2>4. CASE ConnectionLost
    BY <2>1, <2>4, LossKeeps
  <2>5. CASE UNCHANGED vars
    BY <2>1, <2>5, StutterKeeps
  <2> QED
    BY <2>1, <2>2, <2>3, <2>4, <2>5 DEF Next
<1> QED
  BY <1>1, <1>2, PTL DEF Spec

\* AnswersFit: while the connection lasts, the far end never reads an answer to something else
\* than it asked for (the on_new_line() of Ssh, GenericTelnetSsh and CommandChangingPrompt),
\* however the text is cut, for every host and all that the command is to type, but for what is
\* excused: a chunk that ends after "Last login:" or "Permission denied", an Enter nobody asked for.
THEOREM AnswersAreRead == Spec => []AnswersFit
<1>1. LoginInv => AnswersFit
  BY DEF LoginInv, TypeInv, ConnectedInv, AnswersFit
<1> QED
  BY <1>1, DialogueInvariant, PTL

\* OutcomeIsTrue: with the same exceptions, a result is set only by a command that has logged in,
\* and an exception only by one that was refused or cut off and is back at the local prompt
\* (set_result(), GenericTelnetSsh.set_exception() with its _stored_exception).
THEOREM OutcomesAreTrue == Spec => []OutcomeIsTrue
<1>1. LoginInv => OutcomeIsTrue
  BY DEF LoginInv, TypeInv, ConnectedInv, LostInv, CommandFits, OutcomeIsTrue
<1> QED
  BY <1>1, DialogueInvariant, PTL

-----------------------------------------------------------------------------
(* Neither end waits for the other.                                        *)

\* What a line of its own tells the command: that it is back where it began.
Tells(token) ==
    token = "disconnected" \/ (token \in {"bad_key", "methods"} /\ setup.protocol = "ssh")

Told(text) == text = <<"disconnected">> \/ (text \in Denials /\ setup.protocol = "ssh")

\* An Enter.
Nothing == ""

\* A line that is looked at for the first time is not answered yet; what ends a list is known.
WordsLeft ==
    /\ line = <<>> => ~cmd.sent
    /\ cmd.whenPrompt # <<>> => cmd.whenPrompt[Len(cmd.whenPrompt)] = "ssh"
    /\ NeverBreaks(cmd)
    /\ \A i \in DOMAIN typed : typed[i].for = "any" => typed[i].text = Nothing
\* Whoever has sent a login, a size, the last setting or the last command at the local prompt has
\* it still on its way, or the far end has gone on.
LoginLeft ==
    far.at = "login" /\ cmd.sentLogin => \E i \in DOMAIN typed : typed[i].for = "login"
PasswordLeft ==
    far.at = "password" => \A i \in DOMAIN typed : typed[i].text = "ctrl+c" => cmd.stored
ResizeLeft ==
    /\ far.at = "resize" => setup.protocol = "ssh"
    /\ cmd.resizeSent => far.at = "shell" \/ (far.at = "resize" /\ typed # <<>>)
SettingsLeft ==
    /\ far.ready => far.at = "shell"
    /\ setup.twoPrompts =>
        /\ cmd.afterLogin # <<>> =>
            /\ ~far.ready
            /\ \A i \in DOMAIN typed : typed[i].for = "shell" => typed[i].text # "set_prompt"
            /\ \A i \in DOMAIN cmd.afterLogin :
                  cmd.afterLogin[i] = "set_prompt" <=> i = Len(cmd.afterLogin)
        /\ cmd.afterLogin = <<>> =>
            /\ far.at = "shell"
            /\ far.ready \/ \E i \in DOMAIN typed : typed[i].text = "set_prompt"
ShellLeft == far.at = "shell" => Text[Len(Text)] = ShellPrompt(far.ready)[1]
LocalLeft ==
    far.at = "local" =>
        \/ cmd.stored \/ cmd.whenPrompt # <<>>
        \/ \E i \in DOMAIN Text : Tells(Text[i])
        \/ \E i \in DOMAIN typed : typed[i].text = "ssh"

GoesOn == LoginLeft /\ PasswordLeft /\ ResizeLeft /\ SettingsLeft /\ ShellLeft /\ LocalLeft
ProgressInv == WordsLeft /\ (~lost /\ ~excused => GoesOn)

\* What is typed with an answer, and what is kept of the lists.
SaysFittingly(c, text, e) ==
    \A j \in DOMAIN e.out :
        /\ e.out[j].for = "any" => e.out[j].text = Nothing
        /\ e.out[j].text = "ctrl+c" /\ NeverBreaks(c) =>
             \/ e.stored
             \/ Begins(text, "remote") \/ Begins(text, "first")
             \/ Begins(text, "local") /\ ~c.sent
        /\ e.out[j].for = "shell" =>
             /\ c.afterLogin # <<>> /\ e.out[j].text = Head(c.afterLogin)
             /\ e.afterLogin = Tail(c.afterLogin)
KeepsLists(c, text, e) ==
    /\ NeverBreaks(c) => NeverBreaks(e)
    /\ c.stored => e.stored
    /\ e.resizeSent => c.resizeSent \/ (Begins(text, "resize") /\ e.out # <<>>)
    /\ e.sentLogin => c.sentLogin \/ \E j \in DOMAIN e.out : e.out[j].for = "login"
    /\ \/ e.afterLogin = c.afterLogin
       \/ /\ Begins(text, "remote") \/ Begins(text, "first")
          /\ c.afterLogin # <<>> /\ e.afterLogin = Tail(c.afterLogin)
          /\ \E j \in DOMAIN e.out : e.out[j].text = Head(c.afterLogin)
    /\ \/ e.whenPrompt = c.whenPrompt
       \/ e.whenPrompt = c.whenPrompt \o <<"keygen", "ssh">>
       \/ /\ c.whenPrompt # <<>> /\ e.whenPrompt = Tail(c.whenPrompt)
          /\ \E j \in DOMAIN e.out : e.out[j].text = Head(c.whenPrompt)
    /\ Told(text) => e.stored \/ e.whenPrompt = c.whenPrompt \o <<"keygen", "ssh">>

\* What is typed is read off.
LEMMA TypesIs ==
    ASSUME NEW d, NEW phase, NEW text, Types(d, phase, text)
    PROVE  /\ d.out # <<>> /\ DOMAIN d.out = {1}
           /\ d.out[1].for = phase /\ d.out[1].text = text
<1>1. \A input : <<input>> # <<>> /\ DOMAIN <<input>> = {1} /\ <<input>>[1] = input
  OBVIOUS
<1> QED
  BY <1>1 DEF Types

\* Each of the answers takes from the lists what it types, and an answer to bad news is kept.
LEMMA AnswerGoesOn ==
    ASSUME NEW c \in Commands, c.out = <<>>, NEW e \in Commands, NEW text, Answers(c, text, e)
    PROVE  SaysFittingly(c, text, e) /\ KeepsLists(c, text, e)
<1>0. DOMAIN <<>> = {}
  OBVIOUS
<1>1. KeepsWords(c, e) => /\ NeverBreaks(c) => NeverBreaks(e)
                          /\ e.resizeSent = c.resizeSent /\ e.afterLogin = c.afterLogin
  BY DEF KeepsWords, NeverBreaks
<1>2. Told(text) => \/ Begins(text, "disconnected") \/ Begins(text, "bad_key")
                    \/ Begins(text, "denied")
  BY Beginnings DEF Told, Denials
<1>3. CASE LooksOn(c, text, e)
  <2>1. e = c /\ e.out = <<>> /\ ~Told(text)
    BY <1>3 DEF LooksOn, Told, Denials
  <2> QED
    BY <1>0, <2>1 DEF SaysFittingly, KeepsLists
<1>4. CASE Enters(c, text, e)
  <2>0. /\ Begins(text, "resize") \/ Begins(text, "id_dsa") \/ Begins(text, "connected")
        /\ Types(e, "any", Nothing)
        /\ e.sentLogin = c.sentLogin /\ e.whenPrompt = c.whenPrompt /\ e.stored = c.stored
        /\ e.resizeSent = c.resizeSent \/ Begins(text, "resize")
        /\ e.afterLogin = c.afterLogin /\ e.passwords = c.passwords
        /\ e.lastPassword = c.lastPassword
    BY <1>4, Zenon DEF Enters, Nothing
  <2>1. /\ e.out # <<>> /\ DOMAIN e.out = {1}
        /\ e.out[1].for = "any" /\ e.out[1].text = Nothing /\ Nothing # "ctrl+c"
    <3>1. Nothing # "ctrl+c"
      BY Zenon DEF Nothing
    <3> QED
      BY <2>0, <3>1, TypesIs
  <2>2. ~Told(text)
    BY <1>2, <2>0 DEF Begins
  <2>3. SaysFittingly(c, text, e)
    BY <2>1 DEF SaysFittingly
  <2>4. KeepsLists(c, text, e)
    BY <2>0, <2>1, <2>2 DEF KeepsLists, NeverBreaks
  <2> QED
    BY <2>3, <2>4
<1>5. CASE SaysYes(c, text, e)
  <2>1. /\ e.out # <<>> /\ DOMAIN e.out = {1} /\ e.out[1].for = "confirm" /\ e.out[1].text = "yes"
    BY <1>5, TypesIs DEF SaysYes
  <2>2. ~Told(text)
    BY <1>2, <1>5 DEF SaysYes, Begins
  <2>3. SaysFittingly(c, text, e)
    BY <2>1 DEF SaysFittingly
  <2>4. KeepsLists(c, text, e)
    BY <1>1, <1>5, <2>1, <2>2 DEF SaysYes, KeepsLists
  <2> QED
    BY <2>3, <2>4
<1>6. CASE RemovesKey(c, text, e)
  <2>1. SaysFittingly(c, text, e)
    BY <1>0, <1>6 DEF RemovesKey, SaysFittingly
  <2>2. KeepsLists(c, text, e)
    BY <1>1, <1>6 DEF RemovesKey, KeepsLists
  <2> QED
    BY <2>1, <2>2
<1>7. CASE Fails(c, text, e)
  <2>1. SaysFittingly(c, text, e)
    BY <1>0, <1>7 DEF Fails, SaysFittingly
  <2>2. KeepsLists(c, text, e)
    BY <1>1, <1>7 DEF Fails, KeepsLists
  <2> QED
    BY <2>1, <2>2
<1>8. CASE LogsIn(c, text, e)
  <2>1. /\ e.out # <<>> /\ DOMAIN e.out = {1} /\ e.out[1].for = "login" /\ e.out[1].text = "user"
    BY <1>8, TypesIs DEF LogsIn
  <2>2. ~Told(text)
    BY <1>2, <1>8, Beginnings DEF LogsIn, Begins
  <2>3. SaysFittingly(c, text, e)
    BY <2>1 DEF SaysFittingly
  <2>4. KeepsLists(c, text, e)
    BY <1>1, <1>8, <2>1, <2>2 DEF LogsIn, KeepsLists
  <2> QED
    BY <2>3, <2>4
<1>9. CASE GivesPassword(c, text, e)
  <2>1. PICK password \in Words :
            /\ Types(e, "password", password)
            /\ NeverBreaks(c) => NeverBreaks(e) /\ (password = "ctrl+c" => e.stored)
    BY <1>9 DEF GivesPassword
  <2>2. /\ e.out # <<>> /\ DOMAIN e.out = {1}
        /\ e.out[1].for = "password" /\ e.out[1].text = password
    BY <2>1, TypesIs
  <2>3. ~Told(text)
    BY <1>2, <1>9 DEF GivesPassword, Begins
  <2>4. SaysFittingly(c, text, e)
    BY <2>1, <2>2 DEF SaysFittingly
  <2>5. KeepsLists(c, text, e)
    BY <1>9, <2>1, <2>3 DEF GivesPassword, KeepsLists
  <2> QED
    BY <2>4, <2>5
<1>10. CASE Succeeds(c, text, e)
  <2>1. ~Told(text)
    BY <1>2, <1>10 DEF Succeeds, Begins
  <2>2. SaysFittingly(c, text, e)
    BY <1>0, <1>10 DEF Succeeds, SaysFittingly
  <2>3. KeepsLists(c, text, e)
    BY <1>1, <1>10, <2>1 DEF Succeeds, KeepsLists
  <2> QED
    BY <2>2, <2>3
<1>11. CASE TriesAgain(c, text, e)
  <2>1. PICK command \in Words : Types(e, "local", command) /\ command = Head(c.whenPrompt)
    BY <1>11 DEF TriesAgain
  <2>2. /\ e.out # <<>> /\ DOMAIN e.out = {1}
        /\ e.out[1].for = "local" /\ e.out[1].text = command
    BY <2>1, TypesIs
  <2>3. ~Told(text) /\ Begins(text, "local") /\ ~c.sent
    BY <1>2, <1>11 DEF TriesAgain, Begins
  <2>4. SaysFittingly(c, text, e)
    BY <2>2, <2>3 DEF SaysFittingly
  <2>5. KeepsLists(c, text, e)
    BY <1>1, <1>11, <2>1, <2>2, <2>3 DEF TriesAgain, KeepsLists
  <2> QED
    BY <2>4, <2>5
<1>12. CASE Sets(c, text, e)
  <2>1. PICK setting \in Words : Types(e, "shell", setting) /\ setting = Head(c.afterLogin)
    BY <1>12 DEF Sets
  <2>2. /\ e.out # <<>> /\ DOMAIN e.out = {1}
        /\ e.out[1].for = "shell" /\ e.out[1].text = setting
    BY <2>1, TypesIs
  <2>3. ~Told(text) /\ (Begins(text, "remote") \/ Begins(text, "first"))
    BY <1>2, <1>12 DEF Sets, Begins
  <2>4. SaysFittingly(c, text, e)
    BY <1>12, <2>1, <2>2, <2>3 DEF Sets, SaysFittingly
  <2>5. KeepsLists(c, text, e)
    BY <1>12, <2>1, <2>2, <2>3 DEF Sets, KeepsLists, NeverBreaks
  <2> QED
    BY <2>4, <2>5
<1> QED
  BY <1>3, <1>4, <1>5, <1>6, <1>7, <1>8, <1>9, <1>10, <1>11, <1>12 DEF Answers

\* Bad news are a line of their own.
LEMMA NewsAreTold ==
    ASSUME NEW text \in LineTexts, NEW j \in DOMAIN text, Tells(text[j])
    PROVE  Told(text)
<1>1. Tells(text[j]) => text[j] \in {"disconnected", "bad_key", "methods"}
  BY DEF Tells
<1>2. CASE text = <<>>
  BY <1>2
<1>3. CASE \E a \in Firsts : text = <<a>>
  <2>1. PICK a \in Firsts : text = <<a>>
    BY <1>3
  <2>2. j = 1 /\ text[j] = a
    BY <2>1
  <2>3. a # "methods"
    BY <2>1 DEF Firsts, Prompts, Newline
  <2> QED
    BY <2>1, <2>2, <2>3 DEF Told, Tells, Denials
<1>4. CASE \E p \in Prompts : text = <<p, "echo">>
  <2>1. PICK p \in Prompts : text = <<p, "echo">>
    BY <1>4
  <2>2. text[j] = p \/ text[j] = "echo"
    BY <2>1
  <2> QED
    BY <1>1, <2>1, <2>2 DEF Prompts
<1>5. CASE text \in {<<"login:", "date">>, <<"denied", "again">>, <<"Last", "login:">>}
  <2>1. text[j] \in {"login:", "date", "denied", "again", "Last"}
    BY <1>5
  <2> QED
    BY <1>1, <2>1
<1>6. CASE text = <<"denied", "methods">>
  <2>1. text[j] \in {"denied", "methods"}
    BY <1>6
  <2> QED
    BY <1>6, <2>1 DEF Told, Tells, Denials
<1>7. CASE text = <<"Last", "login:", "date">>
  <2>1. text[j] \in {"Last", "login:", "date"}
    BY <1>7
  <2> QED
    BY <1>1, <2>1
<1> QED
  BY <1>2, <1>3, <1>4, <1>5, <1>6, <1>7 DEF LineTexts

\* What was typed stays typed, and what is typed now comes behind.
LEMMA TypedOn ==
    ASSUME NEW S, NEW s \in Seq(S), NEW out \in Seq(S), NEW t, t = s \o out
    PROVE  /\ \A i \in DOMAIN s : i \in DOMAIN t /\ t[i] = s[i]
           /\ \A i \in DOMAIN t : \/ i \in DOMAIN s /\ t[i] = s[i]
                                  \/ \E j \in DOMAIN out : t[i] = out[j]
           /\ \A j \in DOMAIN out : Len(s) + j \in DOMAIN t /\ t[Len(s) + j] = out[j]
           /\ t = <<>> => s = <<>> /\ out = <<>>
<1>1. /\ t \in Seq(S) /\ Len(t) = Len(s) + Len(out) /\ Len(s) \in Nat /\ Len(out) \in Nat
      /\ \A i \in 1..(Len(s) + Len(out)) : t[i] = IF i <= Len(s) THEN s[i] ELSE out[i - Len(s)]
      /\ DOMAIN s = 1..Len(s) /\ DOMAIN out = 1..Len(out) /\ DOMAIN t = 1..(Len(s) + Len(out))
  BY ConcatProperties
<1>2. \A i \in 1..Len(s) : i \in DOMAIN t /\ t[i] = s[i]
  BY <1>1
<1>3. ASSUME NEW i \in DOMAIN t
      PROVE  i \in DOMAIN s \/ (i - Len(s) \in DOMAIN out /\ t[i] = out[i - Len(s)])
  BY <1>1
<1>4. ASSUME NEW j \in DOMAIN out PROVE Len(s) + j \in DOMAIN t /\ t[Len(s) + j] = out[j]
  <2>1. /\ Len(s) + j \in 1..(Len(s) + Len(out)) /\ ~(Len(s) + j <= Len(s))
        /\ (Len(s) + j) - Len(s) = j
    BY <1>1
  <2> QED
    BY <1>1, <2>1
<1>5. t = <<>> => s = <<>> /\ out = <<>>
  <2>1. t = <<>> => Len(t) = 0
    OBVIOUS
  <2>2. Len(t) = 0 => Len(s) = 0 /\ Len(out) = 0
    BY <1>1
  <2> QED
    BY <2>1, <2>2, EmptySeq
<1> QED
  BY <1>1, <1>2, <1>3, <1>4, <1>5

\* A look at a line leaves the lists to end as they did, and a line yet to be looked at unanswered.
LEMMA ReceiveKeepsWords ==
    ASSUME TypeInv, WordsLeft, NEW k \in Nat, NEW full \in BOOLEAN, LineEnds(k, full),
           NEW e \in Commands, NEW text, SaysFittingly(cmd, text, e), KeepsLists(cmd, text, e),
           cmd' = [ForgetSent(e, full) EXCEPT !.out = <<>>], typed' = typed \o e.out
    PROVE  WordsLeft'
<1>1. /\ typed \in Seq(Inputs) /\ e.out \in Seq(Inputs) /\ cmd \in Commands
      /\ cmd.whenPrompt \in Seq(Words) /\ line \in Seq(Tokens) /\ wire \in Seq(Tokens)
  BY DEF TypeInv, Commands
<1>2. /\ cmd'.sent = (e.sent /\ ~full) /\ cmd'.whenPrompt = e.whenPrompt /\ KeepsWords(e, cmd')
  BY CommandAfter
<1>3. line' = <<>> => ~cmd'.sent
  <2>1. CASE full
    BY <1>2, <2>1
  <2>2. CASE ~full
    <3>1. line' = SubSeq(Text, 1, k) /\ k > Len(line) /\ k \in 0..Len(Text)
      BY <2>2 DEF LineEnds
    <3>2. Len(line) \in Nat /\ Text \in Seq(Tokens)
      BY <1>1, TextIs
    <3>3. Len(line') = k /\ k # 0
      BY <3>1, <3>2, PrefixIs
    <3>4. line' = <<>> => Len(line') = 0
      OBVIOUS
    <3> QED
      BY <3>3, <3>4
  <2> QED
    BY <2>1, <2>2
<1>4. NeverBreaks(cmd)'
  BY <1>2 DEF WordsLeft, KeepsLists, KeepsWords, NeverBreaks
<1>5. ASSUME NEW i \in DOMAIN typed', typed'[i].for = "any" PROVE typed'[i].text = Nothing
  <2>1. \/ i \in DOMAIN typed /\ typed'[i] = typed[i]
        \/ \E j \in DOMAIN e.out : typed'[i] = e.out[j]
    BY <1>1, TypedOn
  <2> QED
    BY <1>5, <2>1 DEF WordsLeft, SaysFittingly
<1>6. ASSUME e.whenPrompt # <<>> PROVE e.whenPrompt[Len(e.whenPrompt)] = "ssh"
  <2>1. CASE e.whenPrompt = cmd.whenPrompt
    BY <1>6, <2>1 DEF WordsLeft
  <2>2. CASE e.whenPrompt = cmd.whenPrompt \o <<"keygen", "ssh">>
    <3> DEFINE more == <<"keygen", "ssh">>
    <3>1. more \in Seq(Words) /\ Len(more) = 2 /\ more[2] = "ssh"
      BY PlainWords
    <3> HIDE DEF more
    <3>2. /\ Len(cmd.whenPrompt) \in Nat /\ Len(e.whenPrompt) = Len(cmd.whenPrompt) + Len(more)
          /\ \A i \in 1..(Len(cmd.whenPrompt) + Len(more)) :
                e.whenPrompt[i] = IF i <= Len(cmd.whenPrompt) THEN cmd.whenPrompt[i]
                                  ELSE more[i - Len(cmd.whenPrompt)]
      BY <1>1, <2>2, <3>1, ConcatProperties DEF more
    <3>3. /\ Len(cmd.whenPrompt) + 2 \in 1..(Len(cmd.whenPrompt) + Len(more))
          /\ ~(Len(cmd.whenPrompt) + 2 <= Len(cmd.whenPrompt))
          /\ (Len(cmd.whenPrompt) + 2) - Len(cmd.whenPrompt) = 2
      BY <3>1, <3>2
    <3> QED
      BY <3>1, <3>2, <3>3
  <2>3. CASE cmd.whenPrompt # <<>> /\ e.whenPrompt = Tail(cmd.whenPrompt)
    <3>1. /\ e.whenPrompt \in Seq(Words)
          /\ \A i \in DOMAIN e.whenPrompt :
                /\ e.whenPrompt[i] = cmd.whenPrompt[i + 1]
                /\ i + 1 = Len(cmd.whenPrompt) <=> i = Len(e.whenPrompt)
      BY <1>1, <2>3, TailIs
    <3>2. Len(e.whenPrompt) \in DOMAIN e.whenPrompt
      <4>1. Len(e.whenPrompt) # 0 /\ Len(e.whenPrompt) \in Nat
        BY <1>6, <3>1, EmptySeq
      <4> QED
        BY <3>1, <4>1
    <3>3. cmd.whenPrompt[Len(cmd.whenPrompt)] = "ssh"
      BY <2>3 DEF WordsLeft
    <3> QED
      BY <3>1, <3>2, <3>3
  <2> QED
    BY <2>1, <2>2, <2>3 DEF KeepsLists
<1> QED
  BY <1>2, <1>3, <1>4, <1>5, <1>6 DEF WordsLeft

\* A look at a line types what the far end waits for, or leaves the text that makes it.
LEMMA ReceiveGoesOn ==
    ASSUME TypeInv, TextInv, TextInv', TokensFit, TypedFits, WordsLeft, GoesOn,
           NEW k \in Nat, NEW full \in BOOLEAN, LineEnds(k, full), NEW e \in Commands,
           SubSeq(Text, 1, k) \in LineTexts,
           SaysFittingly(cmd, SubSeq(Text, 1, k), e), KeepsLists(cmd, SubSeq(Text, 1, k), e),
           cmd' = [ForgetSent(e, full) EXCEPT !.out = <<>>], typed' = typed \o e.out,
           cmd.outcome = "running", UNCHANGED <<setup, far>>
    PROVE  GoesOn'
<1> DEFINE text == SubSeq(Text, 1, k)
<1>1. /\ Text \in Seq(Tokens) /\ Len(Text) \in Nat /\ DOMAIN Text = 1..Len(Text)
      /\ line \in Seq(Tokens) /\ wire \in Seq(Tokens) /\ cmd \in Commands /\ e \in Commands
      /\ typed \in Seq(Inputs) /\ e.out \in Seq(Inputs) /\ k \in 0..Len(Text) /\ wire # <<>>
      /\ far' = far /\ setup' = setup
  BY TextIs DEF TypeInv, LineEnds, Commands
<1>2. \A x : Begins(text, x) <=> k >= 1 /\ Text[1] = x
  BY <1>1, BeginsIs
<1>3. /\ cmd'.sentLogin = e.sentLogin /\ cmd'.whenPrompt = e.whenPrompt
      /\ cmd'.stored = e.stored /\ cmd'.afterLogin = e.afterLogin
      /\ cmd'.resizeSent = e.resizeSent
  BY CommandAfter DEF KeepsWords
<1>4. /\ \A i \in DOMAIN typed : i \in DOMAIN typed' /\ typed'[i] = typed[i]
      /\ \A i \in DOMAIN typed' : \/ i \in DOMAIN typed /\ typed'[i] = typed[i]
                                  \/ \E j \in DOMAIN e.out : typed'[i] = e.out[j]
      /\ \A j \in DOMAIN e.out : \E i \in DOMAIN typed' : typed'[i] = e.out[j]
      /\ typed' = <<>> => typed = <<>> /\ e.out = <<>>
  <2>1. PICK t : t = typed'
    OBVIOUS
  <2>2. PICK out : out = e.out
    OBVIOUS
  <2>3. typed \in Seq(Inputs) /\ out \in Seq(Inputs) /\ t = typed \o out
    BY <1>1, <2>1, <2>2
  <2>4. /\ \A i \in DOMAIN typed : i \in DOMAIN t /\ t[i] = typed[i]
        /\ \A i \in DOMAIN t : \/ i \in DOMAIN typed /\ t[i] = typed[i]
                               \/ \E j \in DOMAIN out : t[i] = out[j]
        /\ \A j \in DOMAIN out : \E i \in DOMAIN t : t[i] = out[j]
        /\ t = <<>> => typed = <<>> /\ out = <<>>
    <3>1. \A i \in DOMAIN typed : i \in DOMAIN t /\ t[i] = typed[i]
      BY <2>3, TypedOn
    <3>2. \A i \in DOMAIN t : \/ i \in DOMAIN typed /\ t[i] = typed[i]
                             \/ \E j \in DOMAIN out : t[i] = out[j]
      BY <2>3, TypedOn
    <3>3. \A j \in DOMAIN out : \E i \in DOMAIN t : t[i] = out[j]
      <4>1. \A j \in DOMAIN out : Len(typed) + j \in DOMAIN t /\ t[Len(typed) + j] = out[j]
        BY <2>3, TypedOn
      <4> QED
        BY <4>1
    <3>4. t = <<>> => typed = <<>> /\ out = <<>>
      BY <2>3, TypedOn
    <3> QED
      BY <3>1, <3>2, <3>3, <3>4
  <2> QED
    BY <2>1, <2>2, <2>4
<1>5. text \in LineTexts /\ SaysFittingly(cmd, text, e) /\ KeepsLists(cmd, text, e)
  OBVIOUS
<1> HIDE DEF text
\* Where the far end is when a line begins with what it waits behind.
<1>6. /\ Begins(text, "remote") \/ Begins(text, "first") => far.at = "shell"
      /\ Begins(text, "resize") => far.at \in {"shell", "resize"}
      /\ Begins(text, "local") => cmd.sent \/ far.at = "local"
  <2>1. k >= 1 => TokenFits(1, Text[1])
    <3>1. k >= 1 => 1 \in 1..Len(Text)
      BY <1>1
    <3> QED
      BY <1>1, <3>1 DEF TokensFit
  <2> QED
    BY <1>2, <2>1 DEF TokenFits, Answered, Newest
<1>7. LoginLeft'
  <2>1. SUFFICES ASSUME far.at = "login", e.sentLogin
                 PROVE  \E i \in DOMAIN typed' : typed'[i].for = "login"
    BY <1>1, <1>3 DEF LoginLeft
  <2>2. cmd.sentLogin \/ \E j \in DOMAIN e.out : e.out[j].for = "login"
    BY <1>5, <2>1 DEF KeepsLists
  <2>3. cmd.sentLogin => \E i \in DOMAIN typed : typed[i].for = "login"
    BY <2>1 DEF GoesOn, LoginLeft
  <2> QED
    BY <1>4, <2>2, <2>3
<1>8. PasswordLeft'
  <2>1. SUFFICES ASSUME far.at = "password", NEW i \in DOMAIN typed', typed'[i].text = "ctrl+c"
                 PROVE  cmd'.stored
    BY <1>1 DEF PasswordLeft
  <2>2. cmd.stored => cmd'.stored
    BY <1>3, <1>5 DEF KeepsLists
  <2>3. i \in DOMAIN typed /\ typed'[i] = typed[i] => cmd.stored
    BY <2>1 DEF GoesOn, PasswordLeft
  <2>4. ASSUME NEW j \in DOMAIN e.out, typed'[i] = e.out[j] PROVE cmd'.stored
    <3>1. NeverBreaks(cmd) /\ e.out[j].text = "ctrl+c"
      BY <2>1, <2>4 DEF WordsLeft
    <3>2. \/ e.stored \/ Begins(text, "remote") \/ Begins(text, "first")
          \/ Begins(text, "local") /\ ~cmd.sent
      BY <1>5, <3>1 DEF SaysFittingly
    <3> QED
      BY <1>3, <1>6, <2>1, <3>2
  <2> QED
    BY <1>4, <2>1, <2>2, <2>3, <2>4
<1>9. ResizeLeft'
  <2>1. far.at = "resize" => setup.protocol = "ssh"
    BY DEF GoesOn, ResizeLeft
  <2>2. cmd.resizeSent => far.at = "shell" \/ (far.at = "resize" /\ typed' # <<>>)
    BY <1>4 DEF GoesOn, ResizeLeft
  <2>3. Begins(text, "resize") /\ e.out # <<>>
          => far.at = "shell" \/ (far.at = "resize" /\ typed' # <<>>)
    BY <1>4, <1>6
  <2>4. cmd'.resizeSent => cmd.resizeSent \/ (Begins(text, "resize") /\ e.out # <<>>)
    BY <1>3, <1>5 DEF KeepsLists
  <2> QED
    BY <1>1, <2>1, <2>2, <2>3, <2>4 DEF ResizeLeft
<1>10. SettingsLeft'
  <2>1. far.ready => far.at = "shell"
    BY DEF GoesOn, SettingsLeft
  <2>2. SUFFICES
            ASSUME setup.twoPrompts
            PROVE  /\ e.afterLogin # <<>> =>
                       /\ ~far.ready
                       /\ \A i \in DOMAIN typed' :
                             typed'[i].for = "shell" => typed'[i].text # "set_prompt"
                       /\ \A i \in DOMAIN e.afterLogin :
                             e.afterLogin[i] = "set_prompt" <=> i = Len(e.afterLogin)
                   /\ e.afterLogin = <<>> =>
                       /\ far.at = "shell"
                       /\ far.ready \/ \E i \in DOMAIN typed' : typed'[i].text = "set_prompt"
    BY <1>1, <1>3, <2>1 DEF SettingsLeft
  <2>3. /\ cmd.afterLogin # <<>> =>
            /\ ~far.ready
            /\ \A i \in DOMAIN typed : typed[i].for = "shell" => typed[i].text # "set_prompt"
            /\ \A i \in DOMAIN cmd.afterLogin :
                  cmd.afterLogin[i] = "set_prompt" <=> i = Len(cmd.afterLogin)
        /\ cmd.afterLogin = <<>> =>
            /\ far.at = "shell"
            /\ far.ready \/ \E i \in DOMAIN typed : typed[i].text = "set_prompt"
    BY <2>2 DEF GoesOn, SettingsLeft
  <2>4. cmd.afterLogin \in Seq(Words) /\ e.afterLogin \in Seq(Words)
    BY <1>1 DEF Commands
  <2>5. cmd.afterLogin = <<>> => e.afterLogin = <<>>
    BY <1>5 DEF KeepsLists
  <2>6. CASE cmd.afterLogin = <<>>
    BY <1>4, <2>3, <2>5, <2>6
  <2>7. CASE cmd.afterLogin # <<>>
    <3>1. /\ Len(cmd.afterLogin) \in Nat /\ Len(cmd.afterLogin) > 0
          /\ Head(cmd.afterLogin) = cmd.afterLogin[1] /\ 1 \in DOMAIN cmd.afterLogin
          /\ Len(Tail(cmd.afterLogin)) = Len(cmd.afterLogin) - 1
          /\ \A i \in DOMAIN Tail(cmd.afterLogin) :
                /\ i + 1 \in DOMAIN cmd.afterLogin
                /\ Tail(cmd.afterLogin)[i] = cmd.afterLogin[i + 1]
                /\ i + 1 = Len(cmd.afterLogin) <=> i = Len(Tail(cmd.afterLogin))
          /\ Tail(cmd.afterLogin) \in Seq(Words)
      BY <2>4, <2>7, TailIs
    <3>2. Head(cmd.afterLogin) = "set_prompt" <=> Len(cmd.afterLogin) = 1
      BY <2>3, <2>7, <3>1
    <3>3. Len(cmd.afterLogin) = 1 <=> Tail(cmd.afterLogin) = <<>>
      <4>1. Tail(cmd.afterLogin) \in Seq(Words)
        BY <3>1
      <4>2. Tail(cmd.afterLogin) = <<>> <=> Len(Tail(cmd.afterLogin)) = 0
        BY <4>1, EmptySeq
      <4> QED
        BY <3>1, <4>2
    <3>4. ASSUME e.afterLogin # <<>>, NEW i \in DOMAIN typed', typed'[i].for = "shell"
          PROVE  typed'[i].text # "set_prompt"
      <4>1. CASE i \in DOMAIN typed /\ typed'[i] = typed[i]
        BY <2>3, <2>7, <3>4, <4>1
      <4>2. ASSUME NEW j \in DOMAIN e.out, typed'[i] = e.out[j]
            PROVE  typed'[i].text # "set_prompt"
        <5>1. e.out[j].text = Head(cmd.afterLogin) /\ e.afterLogin = Tail(cmd.afterLogin)
          BY <1>5, <3>4, <4>2 DEF SaysFittingly
        <5> QED
          BY <3>2, <3>3, <3>4, <4>2, <5>1
      <4> QED
        BY <1>4, <4>1, <4>2
    <3>5. CASE e.afterLogin = cmd.afterLogin
      BY <2>3, <2>7, <3>4, <3>5
    <3>6. CASE /\ Begins(text, "remote") \/ Begins(text, "first")
               /\ e.afterLogin = Tail(cmd.afterLogin)
               /\ \E j \in DOMAIN e.out : e.out[j].text = Head(cmd.afterLogin)
      <4>1. far.at = "shell"
        BY <1>6, <3>6
      <4>2. ASSUME NEW i \in DOMAIN e.afterLogin
            PROVE  e.afterLogin[i] = "set_prompt" <=> i = Len(e.afterLogin)
        <5>1. /\ i + 1 \in DOMAIN cmd.afterLogin
              /\ e.afterLogin[i] = cmd.afterLogin[i + 1]
              /\ i + 1 = Len(cmd.afterLogin) <=> i = Len(e.afterLogin)
          BY <3>1, <3>6, <4>2
        <5>2. cmd.afterLogin[i + 1] = "set_prompt" <=> i + 1 = Len(cmd.afterLogin)
          BY <2>3, <2>7, <5>1
        <5> QED
          BY <5>1, <5>2
      <4>3. e.afterLogin = <<>> => \E i \in DOMAIN typed' : typed'[i].text = "set_prompt"
        <5>1. PICK j \in DOMAIN e.out : e.out[j].text = Head(cmd.afterLogin)
          BY <3>6
        <5>2. e.afterLogin = <<>> => e.out[j].text = "set_prompt"
          BY <3>2, <3>3, <3>6, <5>1
        <5> QED
          BY <1>4, <5>1, <5>2
      <4> QED
        BY <2>3, <2>7, <3>4, <4>1, <4>2, <4>3
    <3> QED
      BY <1>5, <3>5, <3>6 DEF KeepsLists
  <2> QED
    BY <2>6, <2>7
<1>11. ShellLeft'
  <2>1. SUFFICES ASSUME far.at = "shell" PROVE Text'[Len(Text')] = Text[Len(Text)]
    <3>1. far' = far /\ setup' = setup
      BY <1>1
    <3>2. ShellLeft
      BY DEF GoesOn
    <3> QED
      BY <3>1, <3>2 DEF ShellLeft, ShellPrompt
  <2>2. CASE ~full
    BY <2>2 DEF LineEnds
  <2>3. CASE full
    <3>1. /\ Len(Text') = Len(Text) - (k + 1) /\ k < Len(Text)
          /\ \A i \in 1..(Len(Text) - (k + 1)) : Text'[i] = Text[i + (k + 1)]
      BY <2>3 DEF LineEnds
    <3>2. Text' # <<>>
      BY <1>1, <2>1 DEF TextInv, Waits
    <3>3. Text' \in Seq(Tokens)
      <4>1. Text' = SubSeq(Text, (k + 1) + 1, Len(Text)) /\ k + 1 \in 0..Len(Text)
        <5>1. Text' = SubSeq(Text, k + 2, Len(Text))
          BY <2>3 DEF LineEnds
        <5>2. k + 2 = (k + 1) + 1 /\ k + 1 \in 0..Len(Text)
          BY <1>1, <3>1
        <5> QED
          BY <5>1, <5>2
      <4> QED
        BY <1>1, <4>1, RestIs
    <3>4. Len(Text') \in 1..(Len(Text) - (k + 1)) /\ Len(Text') + (k + 1) = Len(Text)
      <4>1. Len(Text') # 0 /\ Len(Text') \in Nat
        BY <3>2, <3>3, EmptySeq
      <4> QED
        BY <1>1, <3>1, <4>1
    <3> QED
      BY <3>1, <3>4
  <2> QED
    BY <2>2, <2>3
<1>12. LocalLeft'
  <2>1. SUFFICES ASSUME far.at = "local"
                 PROVE  \/ e.stored \/ e.whenPrompt # <<>>
                        \/ \E i \in DOMAIN Text' : Tells(Text'[i])
                        \/ \E i \in DOMAIN typed' : typed'[i].text = "ssh"
    BY <1>1, <1>3 DEF LocalLeft, Tells
  <2>2. \/ cmd.stored \/ cmd.whenPrompt # <<>>
        \/ \E i \in DOMAIN Text : Tells(Text[i])
        \/ \E i \in DOMAIN typed : typed[i].text = "ssh"
    BY <2>1 DEF GoesOn, LocalLeft
  <2>3. cmd.whenPrompt \in Seq(Words)
    BY <1>1 DEF Commands
  <2>4. e.whenPrompt = cmd.whenPrompt \o <<"keygen", "ssh">> => e.whenPrompt # <<>>
    <3> DEFINE more == <<"keygen", "ssh">>
    <3>1. more \in Seq(Words) /\ more # <<>>
      BY PlainWords
    <3> HIDE DEF more
    <3>2. PICK t : t = cmd.whenPrompt \o more
      OBVIOUS
    <3>3. t # <<>>
      BY <2>3, <3>1, <3>2, TypedOn
    <3> QED
      BY <3>2, <3>3 DEF more
  <2>5. CASE cmd.stored
    BY <1>5, <2>5 DEF KeepsLists
  <2>6. CASE cmd.whenPrompt # <<>>
    <3>1. CASE /\ e.whenPrompt = Tail(cmd.whenPrompt)
               /\ \E j \in DOMAIN e.out : e.out[j].text = Head(cmd.whenPrompt)
      <4>1. /\ Len(cmd.whenPrompt) \in Nat /\ Len(cmd.whenPrompt) > 0
            /\ Head(cmd.whenPrompt) = cmd.whenPrompt[1]
            /\ Len(Tail(cmd.whenPrompt)) = Len(cmd.whenPrompt) - 1
        BY <2>3, <2>6, TailIs
      <4>2. cmd.whenPrompt[Len(cmd.whenPrompt)] = "ssh"
        BY <2>6 DEF WordsLeft
      <4>3. e.whenPrompt = <<>> => Len(Tail(cmd.whenPrompt)) = 0
        <5>1. \A t : t = <<>> => Len(t) = 0
          OBVIOUS
        <5> QED
          BY <3>1, <5>1, Zenon
      <4>4. e.whenPrompt = <<>> => Head(cmd.whenPrompt) = "ssh"
        BY <4>1, <4>2, <4>3
      <4> QED
        BY <1>4, <3>1, <4>4
    <3> QED
      BY <1>5, <2>4, <2>6, <3>1 DEF KeepsLists
  <2>7. ASSUME NEW i \in DOMAIN Text, Tells(Text[i])
        PROVE  e.stored \/ e.whenPrompt # <<>> \/ \E j \in DOMAIN Text' : Tells(Text'[j])
    <3>1. CASE ~full
      <4>1. Text' = Text
        BY <3>1 DEF LineEnds
      <4> QED
        BY <2>7, <4>1
    <3>2. CASE full /\ i <= k
      <4>1. /\ text \in Seq(Tokens) /\ Len(text) = k /\ \A j \in 1..k : text[j] = Text[j]
        BY <1>1, PrefixIs DEF text
      <4>2. i \in DOMAIN text /\ text[i] = Text[i]
        BY <1>1, <3>2, <4>1
      <4>3. Told(text)
        BY <1>5, <2>7, <4>2, NewsAreTold
      <4> QED
        BY <1>5, <2>4, <4>3 DEF KeepsLists
    <3>3. CASE full /\ ~(i <= k)
      <4>1. /\ k < Len(Text) /\ Text[k + 1] = Newline
            /\ \A j \in 1..(Len(Text) - (k + 1)) : Text'[j] = Text[j + (k + 1)]
            /\ Text' = SubSeq(Text, (k + 1) + 1, Len(Text))
        <5>1. full
          BY <3>3
        <5>2. /\ k < Len(Text) /\ Text[k + 1] = Newline /\ Text' = SubSeq(Text, k + 2, Len(Text))
              /\ \A j \in 1..(Len(Text) - (k + 1)) : Text'[j] = Text[j + (k + 1)]
          BY <5>1 DEF LineEnds
        <5>3. k + 2 = (k + 1) + 1
          OBVIOUS
        <5> QED
          BY <5>2, <5>3
      <4>2. k + 1 \in 0..Len(Text)
        BY <1>1, <4>1
      <4>3. DOMAIN Text' = 1..(Len(Text) - (k + 1))
        BY <1>1, <4>1, <4>2, RestIs
      <4>4. ~Tells(Newline)
        BY DEF Tells, Newline
      <4>5. i # k + 1
        BY <2>7, <4>1, <4>4
      <4>6. i - (k + 1) \in 1..(Len(Text) - (k + 1)) /\ (i - (k + 1)) + (k + 1) = i
        BY <1>1, <3>3, <4>5
      <4> QED
        BY <2>7, <4>1, <4>3, <4>6
    <3> QED
      BY <3>1, <3>2, <3>3
  <2>8. CASE \E i \in DOMAIN typed : typed[i].text = "ssh"
    BY <1>4, <2>8
  <2> QED
    BY <2>2, <2>5, <2>6, <2>7, <2>8
<1> QED
  BY <1>7, <1>8, <1>9, <1>10, <1>11, <1>12 DEF GoesOn

\* When all is delivered and read, the command has answered the last prompt, or it answers no more.
LEMMA ReceiveWaits ==
    ASSUME LoginInv, ProgressInv, Receive
    PROVE  NeitherWaits'
<1>1. LoginInv' /\ TypeInv /\ TextInv /\ ConnectedInv /\ LostInv /\ WordsLeft
  BY ReceiveKeeps DEF LoginInv, ProgressInv
<1>2. /\ \E k \in Nat, full \in BOOLEAN : LineEnds(k, full) /\ Received(k, full)
      /\ cmd.outcome = "running" /\ UNCHANGED <<setup, far, misread, lost>>
  BY <1>1, ReceiveIs
<1>3. PICK k \in Nat, full \in BOOLEAN : LineEnds(k, full) /\ Received(k, full)
  BY <1>2
<1>4. PICK e \in Commands :
        /\ Answers(cmd, SubSeq(Text, 1, k), e) /\ Responds(SubSeq(Text, 1, k), full, e)
        /\ cmd' = [ForgetSent(e, full) EXCEPT !.out = <<>>]
        /\ typed' = typed \o e.out
        /\ excused => excused'
  BY <1>3 DEF Received
<1>5. SUFFICES ASSUME ~excused', cmd'.outcome = "running", wire' = <<>>, typed' = <<>>,
                      far.at # "stopped"
               PROVE  ConfirmsNoMore'
  BY <1>2 DEF NeitherWaits
<1>6. far' = far /\ setup' = setup /\ lost' = lost /\ ~excused
  BY <1>2, <1>4, <1>5
<1>7. /\ line \in Seq(Tokens) /\ wire \in Seq(Tokens) /\ Text \in Seq(Tokens)
      /\ typed \in Seq(Inputs) /\ e.out \in Seq(Inputs) /\ cmd \in Commands
      /\ Len(line) \in Nat /\ Len(Text) \in Nat /\ DOMAIN Text = 1..Len(Text)
  <2>1. /\ line \in Seq(Tokens) /\ wire \in Seq(Tokens)
        /\ typed \in Seq(Inputs) /\ cmd \in Commands
    BY <1>1 DEF TypeInv
  <2>2. e.out \in Seq(Inputs)
    BY DEF Commands
  <2>3. Text \in Seq(Tokens)
    BY <2>1, TextIs
  <2>4. Len(line) \in Nat /\ Len(Text) \in Nat /\ DOMAIN Text = 1..Len(Text)
    BY <2>1, <2>3
  <2> QED
    BY <2>1, <2>2, <2>3, <2>4
<1>8. ~full /\ k = Len(Text) /\ k > Len(line) /\ \A i \in 1..k : Text[i] # Newline
  <2>1. CASE full
    <3>1. wire' = Text'
      BY <1>3, <2>1 DEF LineEnds
    <3>2. Text' # <<>>
      BY <1>1, <1>5, <1>6 DEF LoginInv, TextInv, Waits
    <3> QED
      BY <1>5, <3>1, <3>2
  <2>2. CASE ~full
    BY <1>3, <1>5, <2>2 DEF LineEnds
  <2> QED
    BY <2>1, <2>2
<1>9. Len(Text) = 1 /\ DOMAIN Text = {1} /\ Text[1] \in PromptsAt(far.at)
  <2>1. Chained(Text) /\ Waits(Text, PromptsAt(far.at)) /\ \A i \in DOMAIN Text : Text[i] # Newline
    BY <1>1, <1>5, <1>7, <1>8 DEF TextInv
  <2> QED
    BY <1>7, <2>1, PromptIsAll
<1>10. line = <<>> /\ ~cmd.sent
  <2>1. Len(line) = 0
    BY <1>7, <1>8, <1>9
  <2>2. line = <<>>
    BY <1>7, <2>1, EmptySeq
  <2> QED
    BY <1>1, <2>2 DEF WordsLeft
<1>11. typed = <<>> /\ e.out = <<>> /\ e.outcome = "running"
  <2>1. e.outcome = cmd'.outcome
    BY <1>4, CommandAfter
  <2>2. PICK t, out : t = typed' /\ out = e.out
    OBVIOUS
  <2>3. typed \in Seq(Inputs) /\ out \in Seq(Inputs) /\ t = typed \o out
    BY <1>4, <1>7, <2>2
  <2>4. t = <<>> => typed = <<>> /\ out = <<>>
    BY <2>3, TypedOn
  <2> QED
    BY <1>5, <2>1, <2>2, <2>4
<1> DEFINE text == SubSeq(Text, 1, k)
<1>12. Ignores(cmd, text)
  BY <1>4, <1>8, <1>11 DEF Responds
<1>13. /\ \A x : Begins(text, x) <=> Text[1] = x
       /\ Text[1] = "login:" => text = <<"login:">>
  <2>1. k = 1 /\ Len(Text) = 1 /\ k \in 0..Len(Text)
    BY <1>8, <1>9
  <2>2. \A x : Begins(text, x) <=> k >= 1 /\ Text[1] = x
    BY <1>7, <2>1, BeginsIs
  <2> HIDE DEF text
  <2>3. text \in Seq(Tokens) /\ Len(text) = 1 /\ text[1] = Text[1]
    <3>1. 1 \in 0..Len(Text) /\ 1 \in 1..1
      BY <2>1
    <3>2. /\ SubSeq(Text, 1, 1) \in Seq(Tokens) /\ Len(SubSeq(Text, 1, 1)) = 1
          /\ \A i \in 1..1 : SubSeq(Text, 1, 1)[i] = Text[i]
      BY <1>7, <3>1, PrefixIs
    <3>3. text = SubSeq(Text, 1, 1)
      BY <2>1 DEF text
    <3> QED
      BY <3>1, <3>2, <3>3
  <2>4. text = <<text[1]>>
    BY <2>3, Tuples
  <2> QED
    BY <2>1, <2>2, <2>3, <2>4
<1> HIDE DEF text
<1>14. /\ Text[1] \in PromptsAt(far.at) /\ DOMAIN Text = {1} /\ k = 1
  BY <1>8, <1>9
\* The connection was lost, and the command is told.
<1>15. CASE lost
  <2>1. /\ far.at = "local" /\ Text[1] = "local"
    BY <1>1, <1>6, <1>14, <1>15 DEF LostInv, PromptsAt
  <2>2. cmd.stored
    BY <1>1, <1>2, <1>6, <1>14, <1>15, <2>1 DEF LostInv
  <2> QED
    BY <1>12, <1>13, <2>1, <2>2 DEF Ignores, PromptIgnores
<1>16. CASE ~lost
  <2>1. GoesOn /\ CommandFits /\ CommandFits'
    BY <1>1, <1>5, <1>6, <1>16 DEF ProgressInv, ConnectedInv, LoginInv
  <2>2. DOMAIN typed = {}
    BY <1>11
  <2>3. far.at \in {"confirm", "login", "password", "resize", "shell", "local"}
    BY <1>1, <1>5 DEF TypeInv, FarEnds, Phases
  <2>4. CASE far.at = "confirm"
    <3>1. Text[1] = "yes/no" /\ setup.protocol = "ssh"
      BY <1>14, <2>1, <2>4 DEF PromptsAt, CommandFits
    <3>2. cmd.sentContinue
      BY <1>12, <1>13, <3>1 DEF Ignores, SshIgnores
    <3>3. cmd'.sentContinue
      <4>1. e.sentContinue
        BY <1>4, <1>7, <3>2, SentAfter
      <4> QED
        BY <1>4, <4>1, CommandAfter
    <3>4. DOMAIN typed' = {}
      BY <1>5
    <3> QED
      BY <1>6, <2>4, <3>3, <3>4 DEF ConfirmsNoMore
  <2>5. CASE far.at = "login"
    <3>1. text = <<"login:">>
      BY <1>13, <1>14, <2>5 DEF PromptsAt
    <3>2. cmd.sentLogin
      BY <1>12, <3>1 DEF Ignores, GenericIgnores
    <3> QED
      BY <2>1, <2>2, <2>5, <3>2 DEF GoesOn, LoginLeft
  <2>6. CASE far.at = "password"
    <3>1. Begins(text, "password:")
      BY <1>13, <1>14, <2>6 DEF PromptsAt
    <3> QED
      BY <1>10, <1>12, <3>1 DEF Ignores, GenericIgnores
  <2>7. CASE far.at = "resize"
    <3>1. Begins(text, "resize") /\ setup.protocol = "ssh"
      BY <1>13, <1>14, <2>1, <2>7 DEF PromptsAt, GoesOn, ResizeLeft
    <3>2. cmd.resizeSent
      BY <1>12, <3>1 DEF Ignores, SshIgnores
    <3> QED
      BY <1>11, <2>1, <2>7, <3>2 DEF GoesOn, ResizeLeft
  <2>8. CASE far.at = "shell"
    <3>1. Text[1] = ShellPrompt(far.ready)[1] /\ Len(Text) = 1
      BY <1>9, <2>1, <2>8 DEF GoesOn, ShellLeft
    <3>2. Text[1] = IF setup.twoPrompts /\ ~far.ready THEN "first" ELSE "remote"
      BY <3>1 DEF ShellPrompt
    <3>3. /\ Text[1] = "remote" => cmd.afterLogin # <<>> /\ setup.twoPrompts
          /\ Text[1] = "first" => cmd.afterLogin = <<>> \/ ~setup.twoPrompts
      BY <1>10, <1>12, <1>13 DEF Ignores, PromptIgnores
    <3>4. setup.twoPrompts => /\ cmd.afterLogin # <<>> => ~far.ready
                              /\ cmd.afterLogin = <<>> => far.ready
      BY <2>1, <2>2 DEF GoesOn, SettingsLeft
    <3> QED
      BY <3>2, <3>3, <3>4
  <2>9. CASE far.at = "local"
    <3>1. Text[1] = "local"
      BY <1>14, <2>9 DEF PromptsAt
    <3>2. ~cmd.stored /\ cmd.whenPrompt = <<>>
      BY <1>10, <1>12, <1>13, <3>1 DEF Ignores, PromptIgnores
    <3>3. ~Tells(Text[1])
      BY <3>1 DEF Tells
    <3> QED
      BY <1>14, <2>1, <2>2, <2>9, <3>2, <3>3 DEF GoesOn, LocalLeft
  <2> QED
    BY <2>3, <2>4, <2>5, <2>6, <2>7, <2>8, <2>9
<1> QED
  BY <1>15, <1>16

\* What the last of two texts ends with is what both end with.
LEMMA LastOf ==
    ASSUME NEW a \in Seq(Tokens), NEW b \in Seq(Tokens), b # <<>>, NEW t, t = a \o b
    PROVE  t # <<>> /\ t[Len(t)] = b[Len(b)]
<1>1. /\ t \in Seq(Tokens) /\ Len(t) = Len(a) + Len(b)
      /\ \A i \in 1..Len(b) : t[Len(a) + i] = b[i]
  BY Joined
<1>2. Len(b) \in 1..Len(b)
  <2>1. Len(b) # 0 /\ Len(b) \in Nat
    BY EmptySeq
  <2> QED
    BY <2>1
<1>3. t # <<>>
  BY TypedOn
<1> QED
  BY <1>1, <1>2, <1>3

\* A changed key is told of.
LEMMA OpeningTells ==
    ASSUME setup \in Setups, NEW key \in Keys, OpensIn(key) = "local"
    PROVE  \E i \in DOMAIN Opening(key) : Tells(Opening(key)[i])
<1>1. setup.protocol \in {"ssh", "telnet"}
  BY SetupsAssumption
<1>2. setup.protocol = "ssh"
  BY <1>1 DEF OpensIn
<1> DEFINE t == <<"bad_key", Newline, "local">>  u == <<"id_dsa", Newline>>
<1>3. \/ Opening(key) = <<>> \o t
      \/ Opening(key) = u \o t
  BY DEF Opening
<1>4. t \in Seq(Tokens) /\ u \in Seq(Tokens) /\ <<>> \in Seq(Tokens)
  <2>1. {"bad_key", Newline, "local", "id_dsa"} \subseteq Tokens
    BY DEF Tokens, Firsts, Prompts
  <2> QED
    BY <2>1
<1>5. 1 \in DOMAIN t /\ t[1] = "bad_key"
  OBVIOUS
<1> HIDE DEF t, u
<1>6. ASSUME NEW s \in Seq(Tokens), NEW r, r = s \o t
      PROVE  \E i \in DOMAIN r : r[i] = "bad_key"
  <2>1. \A j \in DOMAIN t : Len(s) + j \in DOMAIN r /\ r[Len(s) + j] = t[j]
    BY <1>4, <1>6, TypedOn
  <2> QED
    BY <1>5, <2>1
<1>7. \E i \in DOMAIN Opening(key) : Opening(key)[i] = "bad_key"
  BY <1>3, <1>4, <1>6
<1> QED
  BY <1>2, <1>7 DEF Tells

\* So is a refusal, unless it was asked for.
LEMMA RefusalTells ==
    ASSUME HostsAnswer, setup \in Setups, Input.text # "ctrl+c"
    PROVE  \E i \in DOMAIN (Refusal \o <<"local">>) : Tells((Refusal \o <<"local">>)[i])
<1> DEFINE t == <<"local">>  denied == <<"denied", "methods", Newline>>
           gone == <<"disconnected", Newline>>
<1>1. \/ Refusal = denied /\ setup.namesMethods
      \/ Refusal = gone
  BY DEF Refusal
<1>2. setup.namesMethods => setup.protocol = "ssh"
  BY SetupsAssumption DEF HostsAnswer
<1>3. t \in Seq(Tokens) /\ denied \in Seq(Tokens) /\ gone \in Seq(Tokens)
  <2>1. {"local", "denied", "methods", "disconnected", Newline} \subseteq Tokens
    BY DEF Tokens, Firsts, Prompts
  <2> QED
    BY <2>1
<1>4. 2 \in DOMAIN denied /\ denied[2] = "methods" /\ 1 \in DOMAIN gone /\ gone[1] = "disconnected"
  OBVIOUS
<1> HIDE DEF t, denied, gone
<1>5. \E i \in DOMAIN Refusal : Tells(Refusal[i])
  BY <1>1, <1>2, <1>4 DEF Tells
<1>6. Refusal \in Seq(Tokens)
  BY <1>1, <1>3
<1>7. ASSUME NEW r, r = Refusal \o t PROVE \E i \in DOMAIN r : Tells(r[i])
  <2>1. \A i \in DOMAIN Refusal : i \in DOMAIN r /\ r[i] = Refusal[i]
    BY <1>3, <1>6, <1>7, TypedOn
  <2> QED
    BY <1>5, <2>1
<1> QED
  BY <1>7 DEF t

\* Where the far end goes when it reads, and what it prints there.
Moves(tokens) ==
    /\ typed # <<>> /\ far.at # "stopped" /\ Show(tokens)
    /\ tokens \in Seq(Tokens) /\ Chained(tokens)
    /\ far'.ready = (far.ready \/ (far.at = "shell" /\ Input.text = "set_prompt"))
    /\ far.at \in {"resize", "shell"} => far'.at = "shell"
    /\ far'.at = "login" => \/ far.at = "login" /\ Input.text = Nothing
                            \/ far.at = "password"
                            \/ /\ far.at = "local" /\ Input.text = "ssh"
                               /\ setup.protocol = "telnet"
    /\ far'.at = "resize" => setup.banner = "resize"
    /\ far'.at = "shell" =>
         tokens # <<>> /\ tokens[Len(tokens)] = ShellPrompt(far.at = "shell" /\ far'.ready)[1]
    /\ far'.at = "local" => \/ far.at = "local" /\ Input.text # "ssh"
                            \/ far.at = "password" /\ Input.text = "ctrl+c"
                            \/ \E i \in DOMAIN tokens : Tells(tokens[i])

\* Every answer of the far end is such a move.
LEMMA FarEndMoves ==
    ASSUME TypeInv, HostsAnswer, FarEnd
    PROVE  \E tokens : Moves(tokens)
<1>1. /\ setup \in Setups /\ far \in FarEnds /\ far.ready \in BOOLEAN /\ far.key \in Keys
      /\ setup.protocol \in {"ssh", "telnet"}
  BY SetupsAssumption DEF TypeInv, FarEnds
<1>2. /\ \A p \in {"yes/no", "login:", "password:", "local"} : \A at \in Phases :
           p \in PromptsAt(at) => <<p>> \in Seq(Tokens) /\ Chained(<<p>>)
      /\ "yes/no" \in PromptsAt("confirm") /\ "login:" \in PromptsAt("login")
      /\ "password:" \in PromptsAt("password") /\ "local" \in PromptsAt("local")
      /\ {"confirm", "login", "password", "local"} \subseteq Phases
  BY PromptPrints DEF Prints, PromptsAt, Phases
<1>3. /\ <<"yes/no">> \in Seq(Tokens) /\ Chained(<<"yes/no">>)
      /\ <<"login:">> \in Seq(Tokens) /\ Chained(<<"login:">>)
      /\ <<"password:">> \in Seq(Tokens) /\ Chained(<<"password:">>)
      /\ <<"local">> \in Seq(Tokens) /\ Chained(<<"local">>)
  BY <1>2
<1>4. ASSUME NEW ready
      PROVE  /\ ShellPrompt(ready) \in Seq(Tokens) /\ Chained(ShellPrompt(ready))
             /\ ShellPrompt(ready) # <<>> /\ Len(ShellPrompt(ready)) = 1
  <2>1. Prints(ShellPrompt(ready), "shell")
    BY WelcomePrints
  <2>2. ShellPrompt(ready) # <<>> /\ Len(ShellPrompt(ready)) = 1
    BY DEF ShellPrompt
  <2> QED
    BY <2>1, <2>2 DEF Prints
<1>5. CASE Confirm
  <2>1. /\ typed # <<>> /\ Show(<<"password:">>) /\ far.at = "confirm"
        /\ far' = [far EXCEPT !.at = "password", !.key = "known"]
    BY <1>5 DEF Confirm, ReadsAt
  <2>2. far'.at = "password" /\ far'.ready = far.ready
    BY <1>1, <2>1 DEF FarEnds
  <2>3. Moves(<<"password:">>)
    BY <1>1, <1>3, <2>1, <2>2 DEF Moves
  <2> QED
    BY <2>3
<1>6. CASE ConfirmAgain
  <2>1. typed # <<>> /\ Show(<<"yes/no">>) /\ far.at = "confirm" /\ far' = far
    BY <1>6 DEF ConfirmAgain, ReadsAt
  <2>2. Moves(<<"yes/no">>)
    BY <1>1, <1>3, <2>1 DEF Moves
  <2> QED
    BY <2>2
<1>7. CASE ReadLogin
  <2>1. /\ typed # <<>> /\ Show(<<"password:">>) /\ far.at = "login"
        /\ far' = [far EXCEPT !.at = "password", !.user = Input.text = "user"]
    BY <1>7 DEF ReadLogin, ReadsAt
  <2>2. far'.at = "password" /\ far'.ready = far.ready
    BY <1>1, <2>1 DEF FarEnds
  <2>3. Moves(<<"password:">>)
    BY <1>1, <1>3, <2>1, <2>2 DEF Moves
  <2> QED
    BY <2>3
<1>8. CASE ReadEmptyLogin
  <2>1. /\ typed # <<>> /\ Show(<<"login:">>) /\ far.at = "login" /\ far' = far
        /\ Input.text = Nothing
    BY <1>8, Zenon DEF ReadEmptyLogin, ReadsAt, Nothing
  <2>2. Moves(<<"login:">>)
    BY <1>1, <1>3, <2>1 DEF Moves
  <2> QED
    BY <2>2
<1>9. CASE AskNextPassword
  <2>1. /\ typed # <<>> /\ Show(<<"password:">>) /\ far.at = "password"
        /\ far' = [far EXCEPT !.accepted = far.accepted + 1]
    BY <1>9 DEF AskNextPassword, ReadsAt
  <2>2. far'.at = "password" /\ far'.ready = far.ready
    BY <1>1, <2>1 DEF FarEnds
  <2>3. Moves(<<"password:">>)
    BY <1>1, <1>3, <2>1, <2>2 DEF Moves
  <2> QED
    BY <2>3
<1>10. CASE LetIn
  <2>1. typed # <<>> /\ far.at = "password"
    BY <1>10 DEF LetIn, ReadsAt
  <2>2. CASE /\ setup.banner = "resize" /\ Show(LastLogin \o <<"resize">>)
             /\ far' = [far EXCEPT !.at = "resize"]
    <3>1. far'.at = "resize" /\ far'.ready = far.ready
      BY <1>1, <2>2 DEF FarEnds
    <3>2. LastLogin \o <<"resize">> \in Seq(Tokens) /\ Chained(LastLogin \o <<"resize">>)
      BY WelcomePrints DEF Prints
    <3>3. Moves(LastLogin \o <<"resize">>)
      BY <1>1, <2>1, <2>2, <3>1, <3>2 DEF Moves
    <3> QED
      BY <3>3
  <2>3. CASE /\ Show(LastLogin \o Banner("after login") \o ShellPrompt(FALSE))
             /\ far' = [far EXCEPT !.at = "shell"]
    <3> DEFINE a == LastLogin \o Banner("after login")  t == a \o ShellPrompt(FALSE)
    <3>1. far'.at = "shell" /\ far'.ready = far.ready
      BY <1>1, <2>3 DEF FarEnds
    <3>2. t \in Seq(Tokens) /\ Chained(t)
      BY WelcomePrints DEF Prints
    <3>3. a \in Seq(Tokens)
      <4>1. {"Last", "login:", "date", "connected", Newline} \subseteq Tokens
        BY DEF Tokens, Firsts, Prompts
      <4>2. LastLogin \in Seq(Tokens)
        BY <4>1 DEF LastLogin
      <4>3. Banner("after login") \in Seq(Tokens)
        <5>1. \A place : Banner(place) \in Seq(Tokens)
          BY <4>1 DEF Banner
        <5> QED
          BY <5>1, Zenon
      <4> QED
        BY <4>2, <4>3, ConcatProperties
    <3>4. Show(t)
      BY <2>3
    <3> HIDE DEF a
    <3>5. t # <<>> /\ t[Len(t)] = ShellPrompt(FALSE)[1]
      <4>1. /\ ShellPrompt(FALSE) \in Seq(Tokens) /\ ShellPrompt(FALSE) # <<>>
            /\ Len(ShellPrompt(FALSE)) = 1
        BY <1>4
      <4>2. t # <<>> /\ t[Len(t)] = ShellPrompt(FALSE)[Len(ShellPrompt(FALSE))]
        BY <3>3, <4>1, LastOf
      <4> QED
        BY <4>1, <4>2
    <3> HIDE DEF t
    <3>6. (far.at = "shell" /\ far'.ready) = FALSE
      BY <2>1
    <3>7. Moves(t)
      BY <1>1, <2>1, <3>1, <3>2, <3>4, <3>5, <3>6 DEF Moves
    <3> QED
      BY <3>7
  <2> QED
    BY <1>10, <2>2, <2>3 DEF LetIn
<1>11. CASE AskAgain
  <2>1. typed # <<>> /\ far.at = "password"
    BY <1>11 DEF AskAgain, ReadsAt
  <2>2. CASE /\ Show(<<"denied", "again", Newline, "password:">>)
             /\ far' = [far EXCEPT !.wrong = far.wrong + 1, !.accepted = 0]
    <3> DEFINE t == <<"denied", "again", Newline, "password:">>
    <3>1. far'.at = "password" /\ far'.ready = far.ready
      BY <1>1, <2>1, <2>2 DEF FarEnds
    <3>2. t \in Seq(Tokens) /\ Chained(t) /\ Show(t)
      BY <2>2, RefusalPrints DEF Prints
    <3> HIDE DEF t
    <3>3. Moves(t)
      BY <1>1, <2>1, <3>1, <3>2 DEF Moves
    <3> QED
      BY <3>3
  <2>3. CASE /\ Show(<<"login:">>)
             /\ far' = [far EXCEPT !.wrong = far.wrong + 1, !.accepted = 0, !.at = "login"]
    <3>1. far'.at = "login" /\ far'.ready = far.ready
      BY <1>1, <2>3 DEF FarEnds
    <3>2. Moves(<<"login:">>)
      BY <1>1, <1>3, <2>1, <2>3, <3>1 DEF Moves
    <3> QED
      BY <3>2
  <2> QED
    BY <1>11, <2>2, <2>3 DEF AskAgain
<1>12. CASE Refuse
  <2> DEFINE t == Refusal \o <<"local">>
  <2>1. /\ typed # <<>> /\ far.at = "password" /\ Show(t)
        /\ far' = [far EXCEPT !.at = "local", !.refused = TRUE]
    BY <1>12 DEF Refuse, ReadsAt
  <2>2. far'.at = "local" /\ far'.ready = far.ready
    BY <1>1, <2>1 DEF FarEnds
  <2>3. t \in Seq(Tokens) /\ Chained(t)
    BY RefusalPrints DEF Prints
  <2>4. Input.text # "ctrl+c" => \E i \in DOMAIN t : Tells(t[i])
    BY <1>1, RefusalTells
  <2> HIDE DEF t
  <2>5. Moves(t)
    BY <1>1, <2>1, <2>2, <2>3, <2>4 DEF Moves
  <2> QED
    BY <2>5
<1>13. CASE ReadSize
  <2>1. /\ typed # <<>> /\ Show(ShellPrompt(FALSE)) /\ far.at = "resize"
        /\ far' = [far EXCEPT !.at = "shell"]
    BY <1>13 DEF ReadSize, ReadsAt
  <2>2. far'.at = "shell" /\ far'.ready = far.ready
    BY <1>1, <2>1 DEF FarEnds
  <2>3. (far.at = "shell" /\ far'.ready) = FALSE
    BY <2>1
  <2>4. Moves(ShellPrompt(FALSE))
    BY <1>1, <1>4, <2>1, <2>2, <2>3 DEF Moves
  <2> QED
    BY <2>4
<1>14. CASE ReadShell
  <2> DEFINE ready == far.ready \/ Input.text = "set_prompt"
  <2>1. /\ typed # <<>> /\ Show(ShellPrompt(ready)) /\ far.at = "shell"
        /\ far' = [far EXCEPT !.ready = ready]
    BY <1>14 DEF ReadShell, ReadsAt
  <2>2. far'.at = "shell" /\ far'.ready = ready
    BY <1>1, <2>1 DEF FarEnds
  <2>3. (far.at = "shell" /\ far'.ready) = ready
    BY <1>1, <2>1, <2>2
  <2>4. far'.ready = (far.ready \/ (far.at = "shell" /\ Input.text = "set_prompt"))
    BY <2>1, <2>2
  <2> HIDE DEF ready
  <2>5. Moves(ShellPrompt(ready))
    BY <1>1, <1>4, <2>1, <2>2, <2>3, <2>4 DEF Moves
  <2> QED
    BY <2>5
<1>15. CASE ReadLocal
  <2>1. typed # <<>> /\ Show(<<"local">>) /\ far.at = "local" /\ Input.text # "ssh"
    BY <1>15 DEF ReadLocal, ReadsAt
  <2>2. PICK key : far' = [far EXCEPT !.key = key]
    BY <1>15 DEF ReadLocal
  <2>3. far'.at = "local" /\ far'.ready = far.ready
    BY <1>1, <2>1, <2>2 DEF FarEnds
  <2>4. Moves(<<"local">>)
    BY <1>1, <1>3, <2>1, <2>3 DEF Moves
  <2> QED
    BY <2>4
<1>16. CASE Reconnect
  <2> DEFINE t == Opening(far.key)  at == OpensIn(far.key)
  <2>1. /\ typed # <<>> /\ Show(t) /\ far.at = "local" /\ Input.text = "ssh"
        /\ far' = [far EXCEPT !.at = at, !.session = far.session + 1, !.wrong = 0,
                              !.accepted = 0, !.refused = far.refused \/ at = "local"]
    BY <1>16 DEF Reconnect, ReadsAt
  <2>2. /\ t \in Seq(Tokens) /\ Chained(t)
        /\ at = "login" => setup.protocol = "telnet"
        /\ at \in {"confirm", "login", "password", "local"}
    <3>1. at \in {"confirm", "login", "password", "local"}
      BY <1>1 DEF OpensIn, Keys
    <3> QED
      BY <1>1, <3>1, OpeningPrints DEF Prints
  <2>3. at = "local" => \E i \in DOMAIN t : Tells(t[i])
    BY <1>1, OpeningTells
  <2> HIDE DEF t, at
  <2>4. far'.at = at /\ far'.ready = far.ready
    BY <1>1, <2>1 DEF FarEnds
  <2>5. Moves(t)
    BY <1>1, <2>1, <2>2, <2>3, <2>4 DEF Moves
  <2> QED
    BY <2>5
<1>17. CASE Stop
  <2>1. /\ typed # <<>> /\ Show(<<>>) /\ far.at = "local" /\ Input.text = "ssh"
        /\ far' = [far EXCEPT !.at = "stopped"]
    BY <1>17 DEF Stop, ReadsAt
  <2>2. far'.at = "stopped" /\ far'.ready = far.ready
    BY <1>1, <2>1 DEF FarEnds
  <2>3. <<>> \in Seq(Tokens) /\ Chained(<<>>)
    BY DEF Chained
  <2>4. Moves(<<>>)
    BY <1>1, <2>1, <2>2, <2>3 DEF Moves
  <2> QED
    BY <2>4
<1> QED
  BY <1>5, <1>6, <1>7, <1>8, <1>9, <1>10, <1>11, <1>12, <1>13, <1>14, <1>15, <1>16, <1>17
  DEF FarEnd

\* There is more to deliver when the far end has printed.
LEMMA MoveIsShown ==
    ASSUME TypeInv, TextInv, NEW tokens, Moves(tokens)
    PROVE  /\ wire' # <<>>
           /\ \E m \in Nat : ShownBehind(m, tokens)
           /\ Input = typed[1] /\ 1 \in DOMAIN typed
           /\ \A i \in DOMAIN typed' : i + 1 \in DOMAIN typed /\ typed'[i] = typed[i + 1]
           /\ \A i \in DOMAIN typed : i # 1 => \E j \in DOMAIN typed' : typed'[j] = typed[i]
<1>1. /\ typed # <<>> /\ far.at # "stopped" /\ Show(tokens)
      /\ tokens \in Seq(Tokens) /\ Chained(tokens)
  BY DEF Moves
<1>2. PICK m \in Nat : ShownBehind(m, tokens)
  BY <1>1, ShowIs
<1>3. /\ line \in Seq(Tokens) /\ wire \in Seq(Tokens) /\ typed \in Seq(Inputs)
      /\ line' = line /\ typed' = Tail(typed)
  BY <1>1 DEF TypeInv, Show
<1>4. wire' # <<>>
  <2>1. SUFFICES ASSUME wire' = <<>> PROVE FALSE
    OBVIOUS
  <2>2. Text' = line
    BY <1>3, <2>1, ConcatEmptySeq DEF Text
  <2>3. Len(Text') = m + Len(tokens) /\ m > Len(Text) /\ Len(tokens) \in Nat
    BY <1>1, <1>2 DEF ShownBehind
  <2>4. Len(Text) = Len(line) + Len(wire) /\ Len(line) \in Nat /\ Len(wire) \in Nat
    BY <1>3, TextIs
  <2> QED
    BY <1>2, <2>2, <2>3, <2>4
<1>5. /\ Input = typed[1] /\ 1 \in DOMAIN typed
      /\ \A i \in DOMAIN typed' : i + 1 \in DOMAIN typed /\ typed'[i] = typed[i + 1]
      /\ Len(Tail(typed)) = Len(typed) - 1 /\ Tail(typed) \in Seq(Inputs)
      /\ Len(typed) \in Nat /\ DOMAIN typed = 1..Len(typed)
  BY <1>1, <1>3, TailIs DEF Input
<1>6. ASSUME NEW i \in DOMAIN typed, i # 1 PROVE \E j \in DOMAIN typed' : typed'[j] = typed[i]
  <2>1. DOMAIN typed' = 1..(Len(typed) - 1)
    BY <1>3, <1>5
  <2>2. i - 1 \in DOMAIN typed' /\ (i - 1) + 1 = i
    BY <1>5, <1>6, <2>1
  <2> QED
    BY <1>5, <2>2
<1> QED
  BY <1>2, <1>4, <1>5, <1>6

\* The far end goes on with what was typed, and leaves the rest.
LEMMA FarEndGoesOn ==
    ASSUME TypeInv, TextInv, HostsAnswer, TypedFits, TypedFits', CommandFits, WordsLeft, GoesOn,
           NEW tokens, Moves(tokens)
    PROVE  GoesOn'
<1>1. /\ typed # <<>> /\ UNCHANGED <<setup, line, cmd>>
      /\ far.ready \in BOOLEAN /\ setup \in Setups
  BY DEF Moves, Show, TypeInv, FarEnds
<1>2. PICK m \in Nat : ShownBehind(m, tokens)
  BY MoveIsShown
<1>3. /\ wire' # <<>> /\ Input = typed[1] /\ 1 \in DOMAIN typed
      /\ \A i \in DOMAIN typed' : i + 1 \in DOMAIN typed /\ typed'[i] = typed[i + 1]
      /\ \A i \in DOMAIN typed : i # 1 => \E j \in DOMAIN typed' : typed'[j] = typed[i]
  BY MoveIsShown
<1>4. LoginLeft'
  <2>1. SUFFICES ASSUME far'.at = "login", cmd.sentLogin
                 PROVE  \E i \in DOMAIN typed' : typed'[i].for = "login"
    BY <1>1 DEF LoginLeft
  <2>2. \/ far.at = "login" /\ Input.text = Nothing
        \/ far.at = "password"
        \/ far.at = "local" /\ Input.text = "ssh" /\ setup.protocol = "telnet"
    BY <2>1 DEF Moves
  <2>3. CASE far.at = "login" /\ Input.text = Nothing
    <3>1. PICK i \in DOMAIN typed : typed[i].for = "login"
      BY <2>1, <2>3 DEF GoesOn, LoginLeft
    <3>2. typed[i].text = "user"
      <4>1. \/ typed[i].for = "any"
            \/ typed[i].for = "login" /\ typed[i].text = "user"
        BY <2>3 DEF TypedFits, LoginTyped
      <4> QED
        BY <3>1, <4>1
    <3>3. Nothing # "user"
      BY Zenon DEF Nothing
    <3>4. i # 1
      BY <1>3, <2>3, <3>2, <3>3
    <3> QED
      BY <1>3, <3>1, <3>4
  <2>4. CASE far.at = "password"
    BY <1>1, <2>1, <2>4 DEF TypedFits, PasswordTyped
  <2>5. CASE far.at = "local" /\ Input.text = "ssh" /\ setup.protocol = "telnet"
    <3>1. typed[1].for = "local"
      BY <1>3, <2>5 DEF TypedFits
    <3> QED
      BY <1>1, <2>5, <3>1 DEF TypedFits, LocalTyped
  <2> QED
    BY <2>2, <2>3, <2>4, <2>5
<1>5. PasswordLeft'
  <2>1. SUFFICES ASSUME far'.at = "password" PROVE DOMAIN typed' = {}
    BY DEF PasswordLeft
  <2>2. PasswordTyped'
    BY <2>1 DEF TypedFits
  <2>3. typed' = <<>>
    BY <1>3, <2>2 DEF PasswordTyped, OneAnswer
  <2> QED
    BY <2>3
<1>6. ResizeLeft'
  <2>1. far'.at = "resize" => setup.protocol = "ssh"
    <3>1. setup.protocol \in {"ssh", "telnet"}
      BY <1>1, SetupsAssumption
    <3>2. setup.protocol = "telnet" => setup.banner # "resize"
      BY <1>1 DEF HostsAnswer
    <3> QED
      BY <3>1, <3>2 DEF Moves
  <2>2. cmd.resizeSent => far'.at = "shell"
    BY DEF GoesOn, ResizeLeft, Moves
  <2> QED
    BY <1>1, <2>1, <2>2 DEF ResizeLeft
<1>7. /\ far.ready => far.at = "shell"
      /\ far'.ready => far'.at = "shell"
      /\ far'.ready = (far.ready \/ (far.at = "shell" /\ Input.text = "set_prompt"))
      /\ far.at = "shell" => far'.at = "shell"
  <2>1. far'.ready = (far.ready \/ (far.at = "shell" /\ Input.text = "set_prompt"))
    BY DEF Moves
  <2>2. far.at = "shell" => far'.at = "shell"
    BY DEF Moves
  <2>3. far.ready => far.at = "shell"
    BY DEF GoesOn, SettingsLeft
  <2> QED
    BY <2>1, <2>2, <2>3
<1>8. SettingsLeft'
  <2>1. SUFFICES
            ASSUME setup.twoPrompts
            PROVE  /\ cmd.afterLogin # <<>> =>
                       /\ ~far'.ready
                       /\ \A i \in DOMAIN typed' :
                             typed'[i].for = "shell" => typed'[i].text # "set_prompt"
                       /\ \A i \in DOMAIN cmd.afterLogin :
                             cmd.afterLogin[i] = "set_prompt" <=> i = Len(cmd.afterLogin)
                   /\ cmd.afterLogin = <<>> =>
                       /\ far'.at = "shell"
                       /\ far'.ready \/ \E i \in DOMAIN typed' : typed'[i].text = "set_prompt"
    BY <1>1, <1>7 DEF SettingsLeft
  <2>2. /\ cmd.afterLogin # <<>> =>
            /\ ~far.ready
            /\ \A i \in DOMAIN typed : typed[i].for = "shell" => typed[i].text # "set_prompt"
            /\ \A i \in DOMAIN cmd.afterLogin :
                  cmd.afterLogin[i] = "set_prompt" <=> i = Len(cmd.afterLogin)
        /\ cmd.afterLogin = <<>> =>
            /\ far.at = "shell"
            /\ far.ready \/ \E i \in DOMAIN typed : typed[i].text = "set_prompt"
    BY <2>1 DEF GoesOn, SettingsLeft
  <2>3. CASE cmd.afterLogin # <<>>
    <3>1. far.at = "shell" => Input.text # "set_prompt"
      <4>1. far.at = "shell" => typed[1].for \in {"any", "shell"}
        BY <1>3 DEF TypedFits
      <4>2. typed[1].for = "any" => typed[1].text = Nothing
        BY <1>3 DEF WordsLeft
      <4>3. Nothing # "set_prompt"
        BY Zenon DEF Nothing
      <4> QED
        BY <1>3, <2>2, <2>3, <4>1, <4>2, <4>3
    <3>2. ~far'.ready
      BY <1>7, <2>2, <2>3, <3>1
    <3>3. ASSUME NEW i \in DOMAIN typed', typed'[i].for = "shell"
          PROVE  typed'[i].text # "set_prompt"
      <4>1. i + 1 \in DOMAIN typed /\ typed'[i] = typed[i + 1]
        BY <1>3
      <4> QED
        BY <2>2, <2>3, <3>3, <4>1
    <3> QED
      BY <2>2, <2>3, <3>2, <3>3
  <2>4. CASE cmd.afterLogin = <<>>
    <3>1. ASSUME NEW i \in DOMAIN typed, typed[i].text = "set_prompt"
          PROVE  far'.ready \/ \E j \in DOMAIN typed' : typed'[j].text = "set_prompt"
      <4>1. CASE i = 1
        BY <1>3, <1>7, <2>2, <2>4, <3>1, <4>1
      <4>2. CASE i # 1
        BY <1>3, <3>1, <4>2
      <4> QED
        BY <4>1, <4>2
    <3> QED
      BY <1>7, <2>2, <2>4, <3>1
  <2> QED
    BY <2>3, <2>4
<1>9. ShellLeft'
  <2>1. SUFFICES ASSUME far'.at = "shell" PROVE Text'[Len(Text')] = ShellPrompt(far'.ready)[1]
    BY <1>1 DEF ShellLeft, ShellPrompt
  <2>2. /\ tokens # <<>> /\ tokens \in Seq(Tokens)
        /\ tokens[Len(tokens)] = ShellPrompt(far.at = "shell" /\ far'.ready)[1]
    BY <2>1 DEF Moves
  <2>3. far'.ready = (far.at = "shell" /\ far'.ready)
    BY <1>1, <1>7
  <2>4. Len(tokens) \in 1..Len(tokens)
    <3>1. Len(tokens) # 0 /\ Len(tokens) \in Nat
      BY <2>2, EmptySeq
    <3> QED
      BY <3>1
  <2>5. Text'[Len(Text')] = tokens[Len(tokens)]
    BY <1>2, <2>4 DEF ShownBehind
  <2> QED
    BY <2>2, <2>3, <2>5
<1>10. LocalLeft'
  <2>1. SUFFICES ASSUME far'.at = "local"
                 PROVE  \/ cmd.stored \/ cmd.whenPrompt # <<>>
                        \/ \E i \in DOMAIN Text' : Tells(Text'[i])
                        \/ \E i \in DOMAIN typed' : typed'[i].text = "ssh"
    BY <1>1 DEF LocalLeft, Tells
  <2>2. /\ m > Len(Text) /\ DOMAIN Text' = 1..(m + Len(tokens)) /\ Len(tokens) \in Nat
        /\ \A i \in 1..Len(Text) : Text'[i] = Text[i]
        /\ \A i \in 1..Len(tokens) : Text'[m + i] = tokens[i]
        /\ DOMAIN tokens = 1..Len(tokens) /\ Len(Text) \in Nat /\ DOMAIN Text = 1..Len(Text)
    <3>1. tokens \in Seq(Tokens) /\ line \in Seq(Tokens) /\ wire \in Seq(Tokens)
      BY DEF Moves, TypeInv
    <3> QED
      BY <1>2, <3>1, TextIs DEF ShownBehind
  <2>3. \/ far.at = "local" /\ Input.text # "ssh"
        \/ far.at = "password" /\ Input.text = "ctrl+c"
        \/ \E i \in DOMAIN tokens : Tells(tokens[i])
    BY <2>1 DEF Moves
  <2>4. CASE far.at = "local" /\ Input.text # "ssh"
    <3>1. \/ cmd.stored \/ cmd.whenPrompt # <<>>
          \/ \E i \in DOMAIN Text : Tells(Text[i])
          \/ \E i \in DOMAIN typed : typed[i].text = "ssh"
      BY <2>4 DEF GoesOn, LocalLeft
    <3>2. ASSUME NEW i \in DOMAIN Text, Tells(Text[i])
          PROVE  i \in DOMAIN Text' /\ Tells(Text'[i])
      BY <1>2, <2>2, <3>2
    <3>3. ASSUME NEW i \in DOMAIN typed, typed[i].text = "ssh"
          PROVE  \E j \in DOMAIN typed' : typed'[j].text = "ssh"
      BY <1>3, <2>4, <3>3
    <3> QED
      BY <3>1, <3>2, <3>3
  <2>5. CASE far.at = "password" /\ Input.text = "ctrl+c"
    BY <1>3, <2>5 DEF GoesOn, PasswordLeft
  <2>6. ASSUME NEW i \in DOMAIN tokens, Tells(tokens[i])
        PROVE  m + i \in DOMAIN Text' /\ Tells(Text'[m + i])
    BY <1>2, <2>2, <2>6
  <2> QED
    BY <2>3, <2>4, <2>5, <2>6
<1> QED
  BY <1>4, <1>5, <1>6, <1>8, <1>9, <1>10 DEF GoesOn

\* When the far end has read, there is more to deliver, and it went on with what it read.
LEMMA FarEndProgress ==
    ASSUME LoginInv, ProgressInv, HostsAnswer, FarEnd
    PROVE  ProgressInv' /\ NeitherWaits'
<1>1. TypeInv /\ TextInv /\ ConnectedInv /\ LoginInv'
  BY FarEndKeeps DEF LoginInv
<1>2. PICK tokens : Moves(tokens)
  BY <1>1, FarEndMoves
<1>3. /\ wire' # <<>>
      /\ \A i \in DOMAIN typed' : i + 1 \in DOMAIN typed /\ typed'[i] = typed[i + 1]
  BY <1>1, <1>2, MoveIsShown
<1>4. lost' = lost /\ (excused => excused') /\ UNCHANGED <<line, cmd>>
  BY <1>2 DEF Moves, Show
<1>5. WordsLeft'
  BY <1>3, <1>4 DEF ProgressInv, WordsLeft, NeverBreaks
<1>6. ASSUME ~lost', ~excused' PROVE GoesOn'
  <2>1. ~lost /\ ~excused
    BY <1>4, <1>6
  <2>2. TypedFits /\ CommandFits /\ TypedFits' /\ WordsLeft /\ GoesOn
    BY <1>1, <1>6, <2>1 DEF ConnectedInv, LoginInv, ProgressInv
  <2> QED
    BY <1>1, <1>2, <2>2, FarEndGoesOn
<1> QED
  BY <1>3, <1>5, <1>6 DEF ProgressInv, NeitherWaits

\* A look at a line lets the dialogue go on, or it is over.
LEMMA ReceiveProgress ==
    ASSUME LoginInv, ProgressInv, Receive
    PROVE  ProgressInv' /\ NeitherWaits'
<1>1. TypeInv /\ TextInv /\ ConnectedInv /\ LoginInv' /\ WordsLeft
  BY ReceiveKeeps DEF LoginInv, ProgressInv
<1>2. /\ \E k \in Nat, full \in BOOLEAN : LineEnds(k, full) /\ Received(k, full)
      /\ cmd.outcome = "running" /\ UNCHANGED <<setup, far, misread, lost>>
  BY <1>1, ReceiveIs
<1>3. PICK k \in Nat, full \in BOOLEAN : LineEnds(k, full) /\ Received(k, full)
  BY <1>2
<1>4. PICK e \in Commands :
        /\ SubSeq(Text, 1, k) \in LineTexts
        /\ Answers(cmd, SubSeq(Text, 1, k), e)
        /\ cmd' = [ForgetSent(e, full) EXCEPT !.out = <<>>]
        /\ typed' = typed \o e.out
        /\ excused => excused'
  BY <1>3 DEF Received
<1>5. SaysFittingly(cmd, SubSeq(Text, 1, k), e) /\ KeepsLists(cmd, SubSeq(Text, 1, k), e)
  <2>1. cmd \in Commands /\ cmd.out = <<>>
    BY <1>1 DEF TypeInv
  <2> QED
    BY <1>4, <2>1, AnswerGoesOn
<1>6. WordsLeft'
  BY <1>1, <1>3, <1>4, <1>5, ReceiveKeepsWords
<1>7. ASSUME ~lost', ~excused' PROVE GoesOn'
  <2>1. ~lost /\ ~excused
    BY <1>2, <1>4, <1>7
  <2>2. TextInv' /\ TokensFit /\ TypedFits /\ GoesOn
    BY <1>1, <2>1 DEF ConnectedInv, LoginInv, ProgressInv
  <2> QED
    BY <1>1, <1>2, <1>3, <1>4, <1>5, <2>2, ReceiveGoesOn
<1> QED
  BY <1>6, <1>7, ReceiveWaits DEF ProgressInv

\* A host that was lost is told of.
LEMMA LossProgress ==
    ASSUME LoginInv, ProgressInv, ConnectionLost
    PROVE  ProgressInv' /\ NeitherWaits'
<1>1. /\ lost' /\ UNCHANGED <<typed, line, cmd>>
      /\ wire' = wire \o <<Newline, "disconnected", Newline, "local">>
  BY DEF ConnectionLost
<1> DEFINE w == <<Newline, "disconnected", Newline, "local">>
<1>2. w \in Seq(Tokens) /\ w # <<>>
  BY DEF Tokens, Firsts, Prompts
<1>3. wire \in Seq(Tokens) /\ wire' = wire \o w
  BY <1>1 DEF LoginInv, TypeInv
<1> HIDE DEF w
<1>4. wire' # <<>>
  <2>1. PICK t : t = wire'
    OBVIOUS
  <2>2. t # <<>>
    BY <1>2, <1>3, <2>1, TypedOn
  <2> QED
    BY <2>1, <2>2
<1> QED
  BY <1>1, <1>4 DEF ProgressInv, WordsLeft, NeverBreaks, NeitherWaits

\* The host has printed its first prompt, and the command has all it will type.
LEMMA InitProgress ==
    ASSUME Init, HostsAnswer
    PROVE  ProgressInv /\ NeitherWaits
<1>1. /\ setup \in Setups /\ typed = <<>> /\ line = <<>> /\ wire = Opening(setup.key)
      /\ far.at = OpensIn(setup.key) /\ far.ready = FALSE
      /\ cmd.sent = FALSE /\ cmd.resizeSent = FALSE /\ cmd.sentLogin = FALSE
      /\ cmd.passwords = setup.passwords /\ cmd.whenPrompt = <<>>
      /\ cmd.afterLogin = setup.settings
  BY DEF Init
<1>2. cmd.lastPassword # "ctrl+c"
  BY Zenon DEF Init
<1>3. /\ setup.key \in Keys
      /\ setup.twoPrompts =>
           /\ setup.settings # <<>>
           /\ \A i \in DOMAIN setup.settings :
                 setup.settings[i] = "set_prompt" <=> i = Len(setup.settings)
      /\ \A i \in DOMAIN setup.passwords : setup.passwords[i] # "ctrl+c"
  <2>1. setup.key \in Keys
    BY <1>1, SetupsAssumption DEF Keys
  <2> QED
    BY <1>1, <2>1 DEF HostsAnswer
<1>4. Prints(Opening(setup.key), OpensIn(setup.key)) /\ OpensIn(setup.key) # "stopped"
  BY <1>1, <1>3, OpeningPrints
<1>5. /\ Text = Opening(setup.key) /\ wire # <<>>
      /\ OpensIn(setup.key) \in {"confirm", "login", "password", "local"}
  <2>1. wire \in Seq(Tokens) /\ wire # <<>>
    BY <1>1, <1>4 DEF Prints, Waits
  <2>2. OpensIn(setup.key) \in {"confirm", "login", "password", "local"}
    BY <1>3 DEF OpensIn, Keys
  <2> QED
    BY <1>1, <2>1, <2>2, ConcatEmptySeq DEF Text
<1>6. DOMAIN typed = {}
  BY <1>1
<1>7. WordsLeft
  BY <1>1, <1>2, <1>3, <1>6 DEF WordsLeft, NeverBreaks
<1>8. LocalLeft
  BY <1>1, <1>3, <1>5, OpeningTells DEF LocalLeft
<1>9. LoginLeft /\ PasswordLeft /\ ResizeLeft /\ ShellLeft
  BY <1>1, <1>5, <1>6 DEF LoginLeft, PasswordLeft, ResizeLeft, ShellLeft
<1>10. SettingsLeft
  BY <1>1, <1>3, <1>6 DEF SettingsLeft
<1> QED
  BY <1>5, <1>7, <1>8, <1>9, <1>10 DEF ProgressInv, GoesOn, NeitherWaits

\* NeitherWaits: with the same exceptions, when all that was printed has been looked at and all
\* that was typed has been read, the dialogue is over: on_new_line() of the class and of its bases
\* leaves no question unanswered, wherever the line is cut and whichever flag
\* (_sent, _sent_login, _resize_sent, _sent_continue_connecting) a former line has left set; for
\* every host that asks as HostsAnswer says.
THEOREM NobodyWaits ==
    ASSUME HostsAnswer
    PROVE  Spec => []NeitherWaits
<1> DEFINE Inv == LoginInv /\ ProgressInv /\ NeitherWaits
<1>1. Init => Inv
  BY InitKeeps, InitProgress
<1>2. Inv /\ [Next]_vars => Inv'
  <2>1. SUFFICES ASSUME LoginInv, ProgressInv, NeitherWaits, [Next]_vars PROVE Inv'
    OBVIOUS
  <2>2. CASE Receive
    BY <2>1, <2>2, ReceiveKeeps, ReceiveProgress
  <2>3. CASE FarEnd
    BY <2>1, <2>3, FarEndKeeps, FarEndProgress
  <2>4. CASE ConnectionLost
    BY <2>1, <2>4, LossKeeps, LossProgress
  <2>5. CASE UNCHANGED vars
    <3>1. UNCHANGED <<setup, far, wire, typed, line, cmd, misread, excused, lost>>
      BY <2>5 DEF vars
    <3>2. LoginInv'
      BY <2>1, <2>5, StutterKeeps
    <3>3. Text' = Text
      BY <3>1 DEF Text
    <3>4. WordsLeft => WordsLeft'
      BY <3>1 DEF WordsLeft, NeverBreaks
    <3>5. GoesOn => GoesOn'
      BY <3>1, <3>3 DEF GoesOn, LoginLeft, PasswordLeft, ResizeLeft, SettingsLeft, ShellLeft,
                        ShellPrompt, LocalLeft, Tells
    <3>6. NeitherWaits'
      BY <2>1, <3>1 DEF NeitherWaits, ConfirmsNoMore
    <3> QED
      BY <2>1, <3>1, <3>2, <3>4, <3>5, <3>6 DEF ProgressInv
  <2> QED
    BY <2>1, <2>2, <2>3, <2>4, <2>5 DEF Next
<1>3. Inv => NeitherWaits
  OBVIOUS
<1> HIDE DEF Inv
<1> QED
  BY <1>1, <1>2, <1>3, PTL DEF Spec

=============================================================================
