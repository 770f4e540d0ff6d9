--------------------------- MODULE MCLoginCommand ---------------------------
(* Instances of LoginCommand.                                                *)
EXTENDS LoginCommand

\* What the host asks, what the command knows, and whether it repeats its last password.
Accounts == {
    [asks |-> <<"one">>, passwords |-> <<"one">>, repeat |-> TRUE],
    [asks |-> <<"one", "two">>, passwords |-> <<"one", "two">>, repeat |-> FALSE],
    [asks |-> <<"one", "one">>, passwords |-> <<"one">>, repeat |-> TRUE],
    [asks |-> <<"one">>, passwords |-> <<"other", "one">>, repeat |-> FALSE],
    [asks |-> <<"one">>, passwords |-> <<"other">>, repeat |-> TRUE],
    [asks |-> <<"one">>, passwords |-> <<"other">>, repeat |-> FALSE],
    [asks |-> <<"one">>, passwords |-> <<>>, repeat |-> FALSE]}

\* set_timeout and set_prompt; the prompt changes only if it is set.
Settings == {<<>>, <<"set_timeout">>, <<"set_timeout", "set_prompt">>}

AllSetups ==
    {[protocol |-> protocol, key |-> key, idDsa |-> idDsa, namesMethods |-> names, tries |-> 2,
      removesKey |-> removes,
      banner |-> banner, asks |-> account.asks, passwords |-> account.passwords,
      repeatPassword |-> account.repeat, settings |-> settings, twoPrompts |-> two,
      newlineAfterPrompt |-> newline] :
        protocol \in {"ssh", "telnet"}, key \in {"unknown", "known", "changed"}, idDsa \in BOOLEAN,
        names \in BOOLEAN, removes \in BOOLEAN,
        banner \in {"none", "before login", "after login", "resize"},
        account \in Accounts, settings \in Settings, two \in BOOLEAN, newline \in BOOLEAN}

\* Keys are ssh's, a banner before the login is telnet's.  The accounts vary with the keys, the
\* settings with the banners.
Possible(s) ==
    /\ s.protocol = "telnet" => s.key = "known" /\ ~s.namesMethods /\ s.removesKey
                                /\ s.banner # "resize"
    /\ s.protocol = "ssh" => s.banner # "before login"
    /\ ~s.removesKey => s.key = "changed" \/ s.namesMethods
    /\ s.idDsa => s.key = "changed" /\ s.passwords = s.asks
    /\ s.twoPrompts => Len(s.settings) = 2
AccountsVary(s) ==
    s.settings = <<"set_timeout">> /\ ~s.newlineAfterPrompt
    /\ s.banner = IF s.protocol = "telnet" THEN "before login" ELSE "none"
SettingsVary(s) == Len(s.asks) = 1 /\ s.passwords = s.asks /\ s.key = "known" /\ ~s.namesMethods
                   /\ s.removesKey

SomeSetups == {s \in AllSetups : Possible(s) /\ (AccountsVary(s) \/ SettingsVary(s))}

\* These hosts can be logged in to.
ASSUME SetupsAnswer == HostsAnswer

=============================================================================
