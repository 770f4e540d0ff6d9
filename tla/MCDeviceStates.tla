----------------------------- MODULE MCDeviceStates -----------------------------
(* Instances of DeviceStates: one device meets trouble, the others only walk. *)
EXTENDS DeviceStates

\* The devices that meet trouble.
Troubled == {<<1, "UnixLocal", FALSE, TRUE>>}

\* What goto_state_bg() is asked for.
ToRoot == {UNIX_LOCAL_ROOT}

\* Two calls of goto_state() or remove(), with one of goto_state_bg() or with two troubles; or one
\* of each and two troubles.
TwoCalls == {[gotos |-> 2, asks |-> 1, trouble |-> 0], [gotos |-> 2, asks |-> 0, trouble |-> 2],
             [gotos |-> 1, asks |-> 1, trouble |-> 2]}

\* Every command edge of a device has its command configured, and every state but NOT_CONNECTED is
\* known by the prompt of a configured edge that leads to it, or by detection after opening.
ASSUME TablesAreComplete ==
    \A d \in Devices :
        LET table == Tables[d] IN
        /\ \A e \in DOMAIN table.transitions :
              table.transitions[e] = "command" <=> e \in DOMAIN table.commands
        /\ DOMAIN table.commands \subseteq DOMAIN table.transitions
        /\ \A s \in DOMAIN table.prompts :
              table.prompts[s] \in DOMAIN table.commands /\ table.prompts[s][2] = s
        /\ StatesOf[d] \ {NOT_CONNECTED} \subseteq DOMAIN table.prompts \cup {BaseState(d)}

\* Taking PROXY_PC out of a first class's tables gives the edges and the hops that its "3" twin
\* writes down for a device without PROXY_PC (ProxyPc3 writes down no hops).
ASSUME TrimmedIsTwin ==
    \A class \in DOMAIN FirstTables :
        LET trimmed == Tables[<<1, class, FALSE, TRUE>>] IN
        /\ trimmed.transitions = ThirdTablesWithoutProxyPc[class].transitions
        /\ class # "ProxyPc" => trimmed.hops = ThirdTablesWithoutProxyPc[class].hops

===============================================================================
