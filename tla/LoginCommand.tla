------------------------------ MODULE LoginCommand ------------------------------
(***************************************************************************)
(* A command that logs in (moler/cmd: CommandChangingPrompt, GenericTelnetSsh *)
(* and Ssh, or Telnet) in its dialogue with the far end.  The far end prints  *)
(* and reads on its own, so what the command types may be read later than it  *)
(* thinks; the connection cuts what is printed into chunks anywhere, and the  *)
(* command looks at a line each time it grows.  Three chains of tests look at *)
(* it, each ended by the first test that answers (ParsingDone).              *)
(*                                                                         *)
(* What is printed is a sequence of tokens, one for each text that a regular *)
(* expression of the command tells apart; what is typed is a record of the    *)
(* text and the phase of the far end it is meant for.  The far end is        *)
(* external: it behaves as the recorded sessions in ssh.py and telnet.py.     *)
(***************************************************************************)
EXTENDS Naturals, Sequences, SequencesExt

CONSTANTS
    Setups,         \* what the far end is like and how the command was made (see MCLoginCommand)
    MaxSessions     \* bound: logins before the model stops

\* A password or a setting is not the command that logs in again, and a host asks for a password.
ASSUME SetupsAssumption ==
    /\ Setups \subseteq
         [protocol : {"ssh", "telnet"}, key : {"unknown", "known", "changed"}, idDsa : BOOLEAN,
          namesMethods : BOOLEAN, tries : Nat, removesKey : BOOLEAN, banner : STRING,
          asks : Seq(STRING), passwords : Seq(STRING), settings : Seq(STRING),
          repeatPassword : BOOLEAN, twoPrompts : BOOLEAN, newlineAfterPrompt : BOOLEAN]
    /\ \A s \in Setups :
        /\ s.asks # <<>> /\ \A i \in DOMAIN s.asks : s.asks[i] # "ctrl+c"
        /\ \A i \in DOMAIN s.passwords : s.passwords[i] # "ssh"
        /\ \A i \in DOMAIN s.settings : s.settings[i] # "ssh"

VARIABLES
    setup,
    far,            \* the far end: at (its phase), key, user, accepted, wrong, session, ready, refused
    wire,           \* printed, and not yet delivered to the command
    typed,          \* typed, and not yet read by the far end
    line,           \* _last_not_full_line
    cmd,            \* the command's attributes; out is what it types while it looks at a line
    misread,        \* history: the far end read an answer in a phase it was not meant for
    excused,        \* history: a cut or an Enter that the command is known not to cope with
    lost            \* the connection to the host was lost

vars == <<setup, far, wire, typed, line, cmd, misread, excused, lost>>

Newline == "newline"

-----------------------------------------------------------------------------
(* The regular expressions.                                                 *)

Has(text, token) == token \in ToSet(text)
HasPair(text, first, second) ==
    \E i \in 1..(Len(text) - 1) : text[i] = first /\ text[i + 1] = second

\* _re_login: at the end of the line.
IsLoginRequested(text) == text # <<>> /\ Last(text) = "login:"
\* Mutant: a denial is a failure whatever follows.
IsAnyDenial(text) == Has(text, "disconnected") \/ Has(text, "denied")
\* _re_failed_strings: "Permission denied", unless it goes on as a host does that asks again, or
\* that names the methods it would take.
IsFailure(text) ==
    \/ Has(text, "disconnected")
    \/ \E i \in DOMAIN text : text[i] = "denied"
                              /\ (i = Len(text) \/ text[i + 1] \notin {"again", "methods"})
\* _re_permission_denied_key_pass_keyboard.
IsKeyDenied(text) == HasPair(text, "denied", "methods") \/ Has(text, "bad_key")

ExpectedPrompt == "remote"
PromptAfterLogin == IF setup.twoPrompts THEN "first" ELSE "remote"

-----------------------------------------------------------------------------
(* The command looks at a line.                                             *)

Type(c, phase, text) == [c EXCEPT !.out = Append(@, [for |-> phase, text |-> text])]
\* _send()
Send(c, phase, text) == [Type(c, phase, text) EXCEPT !.sent = TRUE]

\* The name of the first test that holds.
FirstOf(tests) ==
    IF \E i \in DOMAIN tests : tests[i][2]
    THEN tests[CHOOSE i \in DOMAIN tests : tests[i][2] /\ \A j \in 1..(i - 1) : ~tests[j][2]][1]
    ELSE "nothing"

\* Ssh.on_new_line(): the tests that answer.  Those that only choose between ssh-keygen and rm
\* are left out.
SshLooks(c, text) ==
    LET found == FirstOf(<< <<"resize", ~c.resizeSent /\ Has(text, "resize")>>,
                            <<"yes/no", ~c.sentContinue /\ Has(text, "yes/no")>>,
                            <<"id_dsa", Has(text, "id_dsa")>>,
                            <<"key denied", IsKeyDenied(text)>> >>)
    IN CASE found = "resize" -> [Send(c, "any", "") EXCEPT !.resizeSent = TRUE]
         [] found = "yes/no" -> [Send(c, "confirm", "yes") EXCEPT !.sentContinue = TRUE]
         [] found = "id_dsa" -> Send(c, "any", "")
         [] found = "key denied" /\ setup.removesKey ->
                [c EXCEPT !.whenPrompt = @ \o <<"keygen", "ssh">>]
         [] found = "key denied" /\ ~setup.removesKey -> [c EXCEPT !.stored = TRUE]
         [] OTHER -> c

\* _send_password_if_requested()
SendPassword(c) ==
    LET answered ==
            IF c.passwords # <<>>
            THEN [Send(c, "password", Head(c.passwords)) EXCEPT !.lastPassword = Head(c.passwords),
                                                                 !.passwords = Tail(@)]
            ELSE IF setup.repeatPassword THEN Send(c, "password", c.lastPassword)
            ELSE [Type(c, "password", "ctrl+c") EXCEPT !.stored = TRUE]
    IN [answered EXCEPT !.sentLogin = FALSE, !.sent = TRUE]

\* Mutant: a password is sent each time the line is looked at.
PasswordSeen(c, text) == Has(text, "password:")
PasswordWanted(c, text) == ~c.sent /\ Has(text, "password:")

\* GenericTelnetSsh.on_new_line()
GenericLooks(c, text) ==
    LET found == FirstOf(<< <<"failure", IsFailure(text)>>,
                            <<"login", ~c.sentLogin /\ IsLoginRequested(text)>>,
                            <<"password", PasswordWanted(c, text)>>,
                            <<"connected", Has(text, "connected")>> >>)
    IN CASE found = "failure" -> [c EXCEPT !.stored = TRUE]
         [] found = "login" ->
                [Type(c, "login", "user") EXCEPT !.sentLogin = TRUE, !.sent = FALSE]
         [] found = "password" -> SendPassword(c)
         [] found = "connected" -> Type(c, "any", "")
         [] OTHER -> c

Done(c) == [c EXCEPT !.outcome = IF c.stored THEN "exception" ELSE "result"]

\* CommandChangingPrompt.on_new_line(), where prompts have no anchors.
PromptLooks(c, text, full) ==
    LET found == FirstOf(<<
            <<"final", Has(text, ExpectedPrompt) /\ (~full \/ setup.newlineAfterPrompt)
                       /\ ~c.sent /\ c.afterLogin = <<>> >>,
            <<"exception", c.stored /\ Has(text, "local")>>,
            <<"prompt", ~c.sent /\ c.whenPrompt # <<>> /\ Has(text, "local")>>,
            <<"after login", ~c.sent /\ c.afterLogin # <<>> /\ Has(text, PromptAfterLogin)>> >>)
    IN CASE found \in {"final", "exception"} -> Done(c)
         [] found = "prompt" ->
                [Send(c, "local", Head(c.whenPrompt)) EXCEPT !.whenPrompt = Tail(@)]
         [] found = "after login" ->
                [Send(c, "shell", Head(c.afterLogin)) EXCEPT !.afterLogin = Tail(@)]
         [] OTHER -> c

\* Mutant: what was sent counts for the next line, too.
StaysSent(c, full) == c
ForgetSent(c, full) == IF full THEN [c EXCEPT !.sent = FALSE] ELSE c

\* on_new_line() of the class and of its bases: the one it makes of cmd, in a set so that TLC
\* evaluates each chain of tests once.
OnNewLine(text, full) ==
    LET asSsh == IF setup.protocol = "ssh" THEN SshLooks(cmd, text) ELSE cmd
    IN UNION {{ForgetSent(PromptLooks(c, text, full), full) : c \in {GenericLooks(d, text)}}
              : d \in {asSsh}}

-----------------------------------------------------------------------------
(* The far end.                                                             *)

Banner(place) == IF setup.banner = place THEN <<"connected", Newline>> ELSE <<>>
ShellPrompt(ready) == IF setup.twoPrompts /\ ~ready THEN <<"first">> ELSE <<"remote">>

OpensIn(key) ==
    IF setup.protocol = "telnet" THEN "login"
    ELSE [unknown |-> "confirm", known |-> "password", changed |-> "local"][key]
Opening(key) ==
    CASE OpensIn(key) = "login" -> Banner("before login") \o <<"login:">>
      [] OpensIn(key) = "confirm" -> <<"yes/no">>
      [] OpensIn(key) = "password" -> <<"password:">>
      [] OTHER -> (IF setup.idDsa THEN <<"id_dsa", Newline>> ELSE <<>>)
                  \o <<"bad_key", Newline, "local">>

Init ==
    /\ setup \in Setups
    /\ far = [at |-> OpensIn(setup.key), key |-> setup.key, user |-> setup.protocol = "ssh",
              accepted |-> 0, wrong |-> 0, session |-> 1, ready |-> FALSE,
              refused |-> OpensIn(setup.key) = "local"]
    /\ wire = Opening(setup.key)
    /\ typed = <<>> /\ line = <<>>
    /\ cmd = [sent |-> FALSE, resizeSent |-> FALSE, sentLogin |-> FALSE, sentContinue |-> FALSE,
              passwords |-> setup.passwords, lastPassword |-> "", whenPrompt |-> <<>>,
              afterLogin |-> setup.settings, stored |-> FALSE, outcome |-> "running",
              out |-> <<>>]
    /\ misread = FALSE /\ excused = FALSE /\ lost = FALSE

\* A chunk ends after n tokens, or a newline ends the line in it.  Known not to be coped with:
\* "Last login:" looks like a request, "Permission denied" like the end of the sentence.
Receive ==
    /\ cmd.outcome = "running"
    /\ \E n \in DOMAIN wire :
        /\ ~Has(SubSeq(wire, 1, n - 1), Newline)
        /\ LET grown == line \o SubSeq(wire, 1, n)
               full == Last(grown) = Newline
               text == IF full THEN Front(grown) ELSE grown
           IN /\ \E looked \in OnNewLine(text, full) :
                    cmd' = [looked EXCEPT !.out = <<>>] /\ typed' = typed \o looked.out
              /\ line' = IF full THEN <<>> ELSE grown
              /\ excused' = (excused \/ (~full /\ (Last(text) = "denied"
                                                   \/ IsSuffix(<<"Last", "login:">>, text))))
        /\ wire' = SubSeq(wire, n + 1, Len(wire))
    /\ UNCHANGED <<setup, far, misread, lost>>

\* The far end reads what was typed next, and prints.  An Enter counts as a wrong password, asks to
\* confirm again or makes a prompt appear twice.
Input == Head(typed)
ReadsAt(phase) == typed # <<>> /\ far.at = phase
Echo == IF Input.text \in {"", "ctrl+c"} \/ far.at = "password" THEN <<>> ELSE <<"echo">>
Show(tokens) ==
    /\ typed' = Tail(typed)
    /\ wire' = wire \o Echo \o <<Newline>> \o tokens
    /\ misread' = (misread \/ Input.for \notin {"any", far.at})
    /\ excused' = (excused \/ (Input.for = "any" /\ far.at \notin {"login", "resize", "shell"}))
    /\ UNCHANGED <<setup, line, cmd, lost>>

Confirm ==
    /\ ReadsAt("confirm") /\ Input.text = "yes"
    /\ Show(<<"password:">>)
    /\ far' = [far EXCEPT !.at = "password", !.key = "known"]
ConfirmAgain ==
    /\ ReadsAt("confirm") /\ Input.text # "yes"
    /\ Show(<<"yes/no">>) /\ UNCHANGED far

ReadLogin ==
    /\ ReadsAt("login") /\ Input.text # ""
    /\ Show(<<"password:">>)
    /\ far' = [far EXCEPT !.at = "password", !.user = Input.text = "user"]
ReadEmptyLogin ==
    /\ ReadsAt("login") /\ Input.text = ""
    /\ Show(<<"login:">>) /\ UNCHANGED far

\* A host may ask for one password after another.
RightPassword == far.user /\ Input.text = setup.asks[far.accepted + 1]
AskNextPassword ==
    /\ ReadsAt("password") /\ RightPassword /\ far.accepted + 1 < Len(setup.asks)
    /\ Show(<<"password:">>)
    /\ far' = [far EXCEPT !.accepted = @ + 1]
LastLogin == <<"Last", "login:", "date", Newline>>
LetIn ==
    /\ ReadsAt("password") /\ RightPassword /\ far.accepted + 1 = Len(setup.asks)
    /\ IF setup.banner = "resize"
       THEN Show(LastLogin \o <<"resize">>) /\ far' = [far EXCEPT !.at = "resize"]
       ELSE Show(LastLogin \o Banner("after login") \o ShellPrompt(FALSE))
            /\ far' = [far EXCEPT !.at = "shell"]

\* resize waits for the terminal to tell its size.
ReadSize ==
    /\ ReadsAt("resize")
    /\ Show(ShellPrompt(FALSE)) /\ far' = [far EXCEPT !.at = "shell"]

TriesLeft == Input.text # "ctrl+c" /\ far.wrong + 1 < setup.tries
AskAgain ==
    /\ ReadsAt("password") /\ ~RightPassword /\ TriesLeft
    /\ \/ /\ setup.protocol = "ssh"
          /\ Show(<<"denied", "again", Newline, "password:">>)
          /\ far' = [far EXCEPT !.wrong = @ + 1, !.accepted = 0]
       \/ /\ setup.protocol = "telnet"
          /\ Show(<<"login:">>)
          /\ far' = [far EXCEPT !.wrong = @ + 1, !.accepted = 0, !.at = "login"]

\* The client names the methods the host would take, or says that it was disconnected.
Refusal ==
    IF Input.text = "ctrl+c" THEN <<>>
    ELSE IF setup.namesMethods THEN <<"denied", "methods", Newline>> ELSE <<"disconnected", Newline>>
Refuse ==
    /\ ReadsAt("password") /\ ~RightPassword /\ ~TriesLeft
    /\ Show(Refusal \o <<"local">>)
    /\ far' = [far EXCEPT !.at = "local", !.refused = TRUE]

ReadShell ==
    /\ ReadsAt("shell")
    /\ LET ready == far.ready \/ Input.text = "set_prompt"
       IN Show(ShellPrompt(ready)) /\ far' = [far EXCEPT !.ready = ready]

\* ssh-keygen may remove the key, or fail.
ReadLocal ==
    /\ ReadsAt("local") /\ Input.text # "ssh"
    /\ Show(<<"local">>)
    /\ \E key \in IF Input.text = "keygen" THEN {far.key, "unknown"} ELSE {far.key} :
        far' = [far EXCEPT !.key = key]
Reconnect ==
    /\ ReadsAt("local") /\ Input.text = "ssh" /\ far.session < MaxSessions
    /\ Show(Opening(far.key))
    /\ far' = [far EXCEPT !.at = OpensIn(far.key), !.session = @ + 1, !.wrong = 0, !.accepted = 0,
                            !.refused = @ \/ OpensIn(far.key) = "local"]
\* Bound.
Stop ==
    /\ ReadsAt("local") /\ Input.text = "ssh" /\ far.session = MaxSessions
    /\ Show(<<>>) /\ far' = [far EXCEPT !.at = "stopped"]

ConnectionLost ==
    /\ ~lost /\ far.at \notin {"local", "stopped"} /\ cmd.outcome = "running"
    /\ lost' = TRUE
    /\ far' = [far EXCEPT !.at = "local"]
    /\ wire' = wire \o <<Newline, "disconnected", Newline, "local">>
    /\ UNCHANGED <<setup, typed, line, cmd, misread, excused>>

FarEnd ==
    \/ Confirm \/ ConfirmAgain
    \/ ReadLogin \/ ReadEmptyLogin
    \/ AskNextPassword \/ LetIn \/ AskAgain \/ Refuse
    \/ ReadSize \/ ReadShell
    \/ ReadLocal \/ Reconnect \/ Stop

Next == Receive \/ FarEnd \/ ConnectionLost

\* Whoever is connected delivers what was printed, and the far end reads what was typed.
Fairness == WF_vars(Receive) /\ WF_vars(FarEnd)

Spec == Init /\ [][Next]_vars
FairSpec == Spec /\ Fairness

-----------------------------------------------------------------------------
(* Properties.                                                             *)

\* Whatever is typed is read where it was meant to be: no password at a shell or as a login, no
\* command as a password; wherever the text is cut, however often a line is looked at.  Unless the
\* connection was lost while the command typed, or it could not cope (excused).
AnswersFit == misread => lost \/ excused

\* A command that succeeds has logged in, and one that fails was refused or cut off and is back
\* where it began.
OutcomeIsTrue ==
    ~excused =>
        /\ cmd.outcome = "result" /\ ~lost => far.at = "shell"
        /\ cmd.outcome = "exception" => far.at = "local" /\ (far.refused \/ lost)

\* The dialogue comes to an end before the timeout, without either end waiting for the other;
\* unless the command logs in for ever, or has confirmed the host once and is asked again.
ConfirmsNoMore ==
    /\ far.at = "confirm" /\ cmd.sentContinue
    /\ \A i \in DOMAIN typed : typed[i].for # "confirm"
DialogueEnds == <>(cmd.outcome # "running" \/ far.at = "stopped" \/ ConfirmsNoMore)

\* What a host is like that the command can log in to: only ssh asks for the size and names methods,
\* the prompt is the one after the login until the last setting is read, no password breaks off.
HostsAnswer ==
    \A s \in Setups :
        /\ s.protocol = "telnet" => ~s.namesMethods /\ s.banner # "resize"
        /\ s.twoPrompts =>
             /\ s.settings # <<>>
             /\ \A i \in DOMAIN s.settings : s.settings[i] = "set_prompt" <=> i = Len(s.settings)
        /\ \A i \in DOMAIN s.passwords : s.passwords[i] # "ctrl+c"

\* Neither end waits for the other: when all is delivered and read, on_new_line() has left no
\* question open, and the dialogue is over.
NeitherWaits ==
    ~excused /\ cmd.outcome = "running" /\ wire = <<>> /\ typed = <<>> =>
        far.at = "stopped" \/ ConfirmsNoMore
=============================================================================
