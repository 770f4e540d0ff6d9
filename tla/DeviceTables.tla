----------------------------- MODULE DeviceTables -----------------------------
(***************************************************************************)
(* The tables of the device classes of moler/device: by which command or    *)
(* action an edge between two states is crossed, over which neighbour a     *)
(* distant state is reached (the hops) and by which edge's expected prompt a *)
(* state is recognised; and how ProxyPc takes PROXY_PC out of its tables    *)
(* when a device does without it (moler/helpers.py), where the later classes *)
(* have tables of their own.                                                *)
(*                                                                         *)
(* A table is indexed by pairs <<from, to>>; New @@ Old is update_dict(Old,  *)
(* New).                                                                    *)
(***************************************************************************)
EXTENDS TLC

NOT_CONNECTED == "NOT_CONNECTED"
UNIX_LOCAL == "UNIX_LOCAL"
UNIX_LOCAL_ROOT == "UNIX_LOCAL_ROOT"
PROXY_PC == "PROXY_PC"
UNIX_REMOTE == "UNIX_REMOTE"
UNIX_REMOTE_ROOT == "UNIX_REMOTE_ROOT"
ADB_SHELL == "ADB_SHELL"
ADB_SHELL_ROOT == "ADB_SHELL_ROOT"
AT_REMOTE == "AT_REMOTE"
CLI == "CLI"
CONFIGURE == "CONFIGURE"
PDU == "PDU"
SCPI == "SCPI"

Nothing == [e \in {} |-> NOT_CONNECTED]

\* Rows of the tables: command and back are the commands from a to b and from b to a.
Configure(a, b, command, back) == (<<a, b>> :> command) @@ (<<b, a>> :> back)
Both(a, b) == {<<a, b>>, <<b, a>>}
ByCommand(edges) == [e \in edges |-> "command"]
ByConnection(s) == (<<NOT_CONNECTED, s>> :> "open") @@ (<<s, NOT_CONNECTED>> :> "close")
Via(from, dests, next) == [p \in {from} \X dests |-> next]

-----------------------------------------------------------------------------
(* UnixLocal and ProxyPc.  UnixLocal._prepare_state_hops returns its hops,  *)
(* and its callers drop them.                                               *)

UnixLocalCommands == Configure(UNIX_LOCAL, UNIX_LOCAL_ROOT, "su", "exit")
UnixLocalTransitions == ByConnection(UNIX_LOCAL) @@ ByCommand(Both(UNIX_LOCAL, UNIX_LOCAL_ROOT))
UnixLocalPrompts ==
    (UNIX_LOCAL :> <<UNIX_LOCAL_ROOT, UNIX_LOCAL>>)
    @@ (UNIX_LOCAL_ROOT :> <<UNIX_LOCAL, UNIX_LOCAL_ROOT>>)
UnixLocalHops == Nothing

ProxyPcCommands == Configure(UNIX_LOCAL, PROXY_PC, "ssh", "exit")
ProxyPcTransitions == ByCommand(Both(UNIX_LOCAL, PROXY_PC))
ProxyPcPrompts ==
    (PROXY_PC :> <<UNIX_LOCAL, PROXY_PC>>) @@ (UNIX_LOCAL :> <<PROXY_PC, UNIX_LOCAL>>)
ProxyPcHops ==
    Via(NOT_CONNECTED, {PROXY_PC}, UNIX_LOCAL)
    @@ Via(UNIX_LOCAL_ROOT, {PROXY_PC, NOT_CONNECTED}, UNIX_LOCAL)
    @@ Via(PROXY_PC, {NOT_CONNECTED, UNIX_LOCAL_ROOT}, UNIX_LOCAL)

-----------------------------------------------------------------------------
(* The classes on top of ProxyPc.  gate is the state they are reached from:  *)
(* PROXY_PC here, or UNIX_LOCAL in the later classes.                       *)

RemoteCommands(gate) ==
    Configure(gate, UNIX_REMOTE, "ssh", "exit")
    @@ Configure(UNIX_REMOTE, UNIX_REMOTE_ROOT, "su", "exit")
RemoteTransitions(gate) ==
    ByCommand(Both(gate, UNIX_REMOTE) \cup Both(UNIX_REMOTE, UNIX_REMOTE_ROOT))
RemotePrompts(gate) ==
    (UNIX_REMOTE :> <<gate, UNIX_REMOTE>>)
    @@ (UNIX_REMOTE_ROOT :> <<UNIX_REMOTE, UNIX_REMOTE_ROOT>>)

UnixRemoteCommands == RemoteCommands(PROXY_PC)
UnixRemoteTransitions == RemoteTransitions(PROXY_PC)
UnixRemotePrompts == RemotePrompts(PROXY_PC)
UnixRemotePromptsWithoutProxyPc ==
    RemotePrompts(UNIX_LOCAL) @@ (UNIX_LOCAL :> <<UNIX_REMOTE, UNIX_LOCAL>>)
UnixRemoteHops ==
    Via(NOT_CONNECTED, {UNIX_REMOTE, PROXY_PC, UNIX_LOCAL_ROOT, UNIX_REMOTE_ROOT}, UNIX_LOCAL)
    @@ Via(UNIX_REMOTE, {NOT_CONNECTED, UNIX_LOCAL, UNIX_LOCAL_ROOT}, PROXY_PC)
    @@ Via(UNIX_LOCAL_ROOT, {NOT_CONNECTED, UNIX_REMOTE, UNIX_REMOTE_ROOT}, UNIX_LOCAL)
    @@ Via(PROXY_PC, {NOT_CONNECTED, UNIX_LOCAL_ROOT}, UNIX_LOCAL)
    @@ Via(PROXY_PC, {UNIX_REMOTE_ROOT}, UNIX_REMOTE)
    @@ Via(UNIX_LOCAL, {UNIX_REMOTE, UNIX_REMOTE_ROOT}, PROXY_PC)
    @@ Via(UNIX_REMOTE_ROOT, {NOT_CONNECTED, UNIX_LOCAL, UNIX_LOCAL_ROOT, PROXY_PC}, UNIX_REMOTE)

AtRemoteCommands == Configure(UNIX_REMOTE, AT_REMOTE, "plink_serial", "ctrl_c")
AtRemoteTransitions == ByCommand(Both(UNIX_REMOTE, AT_REMOTE))
AtRemotePrompts == AT_REMOTE :> <<UNIX_REMOTE, AT_REMOTE>>
AtRemoteHops ==
    Via(NOT_CONNECTED, {UNIX_LOCAL_ROOT, PROXY_PC, UNIX_REMOTE, UNIX_REMOTE_ROOT, AT_REMOTE},
        UNIX_LOCAL)
    @@ Via(UNIX_LOCAL, {UNIX_REMOTE_ROOT, AT_REMOTE}, PROXY_PC)
    @@ Via(UNIX_LOCAL_ROOT, {NOT_CONNECTED, PROXY_PC, UNIX_REMOTE, UNIX_REMOTE_ROOT, AT_REMOTE},
           UNIX_LOCAL)
    @@ Via(UNIX_REMOTE, {UNIX_LOCAL, NOT_CONNECTED, UNIX_LOCAL_ROOT}, PROXY_PC)
    @@ Via(UNIX_REMOTE_ROOT, {NOT_CONNECTED, PROXY_PC, UNIX_LOCAL, UNIX_LOCAL_ROOT, AT_REMOTE},
           UNIX_REMOTE)
    @@ Via(AT_REMOTE, {NOT_CONNECTED, PROXY_PC, UNIX_LOCAL, UNIX_LOCAL_ROOT, UNIX_REMOTE_ROOT},
           UNIX_REMOTE)
    @@ Via(PROXY_PC, {UNIX_REMOTE_ROOT, AT_REMOTE}, UNIX_REMOTE)
    @@ Via(PROXY_PC, {NOT_CONNECTED, UNIX_LOCAL_ROOT}, UNIX_LOCAL)

AdbRemoteCommands ==
    Configure(UNIX_REMOTE, ADB_SHELL, "adb_shell", "exit")
    @@ Configure(ADB_SHELL, ADB_SHELL_ROOT, "su", "exit")
AdbRemoteTransitions ==
    ByCommand(Both(UNIX_REMOTE, ADB_SHELL) \cup Both(ADB_SHELL, ADB_SHELL_ROOT))
AdbRemotePrompts ==
    (ADB_SHELL :> <<UNIX_REMOTE, ADB_SHELL>>)
    @@ (ADB_SHELL_ROOT :> <<ADB_SHELL, ADB_SHELL_ROOT>>)
AdbRemoteHops ==
    Via(NOT_CONNECTED, {UNIX_LOCAL_ROOT, PROXY_PC, UNIX_REMOTE, UNIX_REMOTE_ROOT, ADB_SHELL,
                        ADB_SHELL_ROOT}, UNIX_LOCAL)
    @@ Via(UNIX_LOCAL, {UNIX_REMOTE_ROOT, ADB_SHELL, ADB_SHELL_ROOT}, PROXY_PC)
    @@ Via(UNIX_LOCAL_ROOT, {NOT_CONNECTED, PROXY_PC, UNIX_REMOTE, UNIX_REMOTE_ROOT, ADB_SHELL,
                             ADB_SHELL_ROOT}, UNIX_LOCAL)
    @@ Via(UNIX_REMOTE, {UNIX_LOCAL, UNIX_LOCAL_ROOT}, PROXY_PC)
    @@ Via(UNIX_REMOTE, {ADB_SHELL_ROOT}, ADB_SHELL)
    @@ Via(UNIX_REMOTE_ROOT, {NOT_CONNECTED, PROXY_PC, UNIX_LOCAL, UNIX_LOCAL_ROOT, ADB_SHELL,
                              ADB_SHELL_ROOT}, UNIX_REMOTE)
    @@ Via(ADB_SHELL, {NOT_CONNECTED, PROXY_PC, UNIX_LOCAL, UNIX_LOCAL_ROOT, UNIX_REMOTE_ROOT},
           UNIX_REMOTE)
    @@ Via(ADB_SHELL_ROOT, {NOT_CONNECTED, PROXY_PC, UNIX_LOCAL, UNIX_LOCAL_ROOT, UNIX_REMOTE,
                            UNIX_REMOTE_ROOT}, ADB_SHELL)
    @@ Via(PROXY_PC, {ADB_SHELL, ADB_SHELL_ROOT}, UNIX_REMOTE)

JuniperCommands(gate) ==
    Configure(gate, CLI, "ssh", "exit") @@ Configure(CLI, CONFIGURE, "configure", "exit_configure")
JuniperTransitions(gate) == ByCommand(Both(gate, CLI) \cup Both(CLI, CONFIGURE))
JuniperPrompts(gate) == (CLI :> <<gate, CLI>>) @@ (CONFIGURE :> <<CLI, CONFIGURE>>)

JuniperGenericCommands == JuniperCommands(PROXY_PC)
JuniperGenericTransitions == JuniperTransitions(PROXY_PC)
JuniperGenericPrompts == JuniperPrompts(PROXY_PC)
JuniperGenericPromptsWithoutProxyPc == JuniperPrompts(UNIX_LOCAL)
JuniperGenericHops ==
    Via(NOT_CONNECTED, {CLI, CONFIGURE}, UNIX_LOCAL)
    @@ Via(CLI, {NOT_CONNECTED, UNIX_LOCAL, UNIX_LOCAL_ROOT}, PROXY_PC)
    @@ Via(CONFIGURE, {UNIX_LOCAL, PROXY_PC, NOT_CONNECTED, UNIX_LOCAL_ROOT}, CLI)
    @@ Via(UNIX_LOCAL, {CLI, CONFIGURE}, PROXY_PC)
    @@ Via(UNIX_LOCAL_ROOT, {NOT_CONNECTED, CLI, CONFIGURE}, UNIX_LOCAL)
    @@ Via(PROXY_PC, {NOT_CONNECTED}, UNIX_LOCAL)
    @@ Via(PROXY_PC, {CONFIGURE}, CLI)

PduAtenCommands == Configure(PROXY_PC, PDU, "telnet", "exit_telnet")
PduAtenTransitions == ByCommand(Both(PROXY_PC, PDU))
PduAtenPrompts == PDU :> <<PROXY_PC, PDU>>
PduAtenPromptsWithoutProxyPc == PDU :> <<UNIX_LOCAL, PDU>>
PduAtenHops ==
    Via(NOT_CONNECTED, {PDU}, UNIX_LOCAL)
    @@ Via(PDU, {NOT_CONNECTED, UNIX_LOCAL, UNIX_LOCAL_ROOT}, PROXY_PC)
    @@ Via(UNIX_LOCAL, {PDU}, PROXY_PC)
    @@ Via(UNIX_LOCAL_ROOT, {NOT_CONNECTED, PDU}, UNIX_LOCAL)

ScpiCommands == Configure(PROXY_PC, SCPI, "telnet", "exit_telnet")
ScpiTransitions == ByCommand(Both(PROXY_PC, SCPI))
ScpiPrompts == SCPI :> <<PROXY_PC, SCPI>>
ScpiPromptsWithoutProxyPc == SCPI :> <<UNIX_LOCAL, SCPI>>
ScpiHops ==
    Via(NOT_CONNECTED, {SCPI, PROXY_PC, UNIX_LOCAL_ROOT}, UNIX_LOCAL)
    @@ Via(SCPI, {NOT_CONNECTED, UNIX_LOCAL, UNIX_LOCAL_ROOT}, PROXY_PC)
    @@ Via(UNIX_LOCAL, {SCPI}, PROXY_PC)
    @@ Via(UNIX_LOCAL_ROOT, {SCPI, NOT_CONNECTED}, UNIX_LOCAL)
    @@ Via(PROXY_PC, {NOT_CONNECTED}, UNIX_LOCAL)

-----------------------------------------------------------------------------
(* The "3" classes: tables of their own for a device without PROXY_PC; with   *)
(* it, those of the first classes, AdbRemote3's hops excepted.               *)

ProxyPc3CommandsWithProxyPc == ProxyPcCommands
ProxyPc3TransitionsWithProxyPc == ProxyPcTransitions
ProxyPc3PromptsWithProxyPc == ProxyPcPrompts
ProxyPc3HopsWithProxyPc == ProxyPcHops

UnixRemote3CommandsWithProxyPc == RemoteCommands(PROXY_PC)
UnixRemote3TransitionsWithProxyPc == RemoteTransitions(PROXY_PC)
UnixRemote3PromptsWithProxyPc == RemotePrompts(PROXY_PC)
UnixRemote3PromptsWithoutProxyPc == UnixRemotePromptsWithoutProxyPc
UnixRemote3HopsWithProxyPc == UnixRemoteHops
UnixRemote3CommandsWithoutProxyPc == RemoteCommands(UNIX_LOCAL)
UnixRemote3TransitionsWithoutProxyPc == RemoteTransitions(UNIX_LOCAL)
UnixRemote3HopsWithoutProxyPc ==
    Via(NOT_CONNECTED, {UNIX_REMOTE, UNIX_LOCAL_ROOT, UNIX_REMOTE_ROOT}, UNIX_LOCAL)
    @@ Via(UNIX_LOCAL, {UNIX_REMOTE_ROOT}, UNIX_REMOTE)
    @@ Via(UNIX_LOCAL_ROOT, {NOT_CONNECTED, UNIX_REMOTE, UNIX_REMOTE_ROOT}, UNIX_LOCAL)
    @@ Via(UNIX_REMOTE, {NOT_CONNECTED, UNIX_LOCAL_ROOT}, UNIX_LOCAL)
    @@ Via(UNIX_REMOTE_ROOT, {NOT_CONNECTED, UNIX_LOCAL, UNIX_LOCAL_ROOT}, UNIX_REMOTE)

AtRemote3CommandsWithProxyPc == AtRemoteCommands
AtRemote3CommandsWithoutProxyPc == AtRemoteCommands
AtRemote3TransitionsWithProxyPc == AtRemoteTransitions
AtRemote3TransitionsWithoutProxyPc == AtRemoteTransitions
AtRemote3HopsWithProxyPc == AtRemoteHops
AtRemote3HopsWithoutProxyPc ==
    Via(NOT_CONNECTED, {UNIX_LOCAL_ROOT, UNIX_REMOTE, UNIX_REMOTE_ROOT, AT_REMOTE}, UNIX_LOCAL)
    @@ Via(UNIX_LOCAL, {UNIX_REMOTE_ROOT, AT_REMOTE}, UNIX_REMOTE)
    @@ Via(UNIX_LOCAL_ROOT, {NOT_CONNECTED, UNIX_REMOTE, UNIX_REMOTE_ROOT, AT_REMOTE}, UNIX_LOCAL)
    @@ Via(UNIX_REMOTE, {NOT_CONNECTED, UNIX_LOCAL_ROOT}, UNIX_LOCAL)
    @@ Via(UNIX_REMOTE_ROOT, {NOT_CONNECTED, UNIX_LOCAL, UNIX_LOCAL_ROOT, AT_REMOTE}, UNIX_REMOTE)
    @@ Via(AT_REMOTE, {NOT_CONNECTED, UNIX_LOCAL, UNIX_LOCAL_ROOT, UNIX_REMOTE_ROOT}, UNIX_REMOTE)

AdbRemote3CommandsWithProxyPc == AdbRemoteCommands
AdbRemote3CommandsWithoutProxyPc == AdbRemoteCommands
AdbRemote3TransitionsWithProxyPc == AdbRemoteTransitions
AdbRemote3TransitionsWithoutProxyPc == AdbRemoteTransitions
AdbRemote3HopsWithProxyPc ==
    Via(NOT_CONNECTED, {UNIX_LOCAL_ROOT, PROXY_PC, UNIX_REMOTE, UNIX_REMOTE_ROOT, ADB_SHELL,
                        ADB_SHELL_ROOT}, UNIX_LOCAL)
    @@ Via(UNIX_LOCAL, {UNIX_REMOTE_ROOT, ADB_SHELL, ADB_SHELL_ROOT}, PROXY_PC)
    @@ Via(UNIX_LOCAL_ROOT, {NOT_CONNECTED, PROXY_PC, UNIX_REMOTE, UNIX_REMOTE_ROOT, ADB_SHELL,
                             ADB_SHELL_ROOT}, UNIX_LOCAL)
    @@ Via(UNIX_REMOTE, {ADB_SHELL_ROOT}, ADB_SHELL)
    @@ Via(UNIX_REMOTE_ROOT, {NOT_CONNECTED, PROXY_PC, UNIX_LOCAL, UNIX_LOCAL_ROOT, ADB_SHELL,
                              ADB_SHELL_ROOT}, UNIX_REMOTE)
    @@ Via(ADB_SHELL, {NOT_CONNECTED, PROXY_PC, UNIX_LOCAL, UNIX_LOCAL_ROOT, UNIX_REMOTE_ROOT},
           UNIX_REMOTE)
    @@ Via(ADB_SHELL_ROOT, {NOT_CONNECTED, PROXY_PC, UNIX_LOCAL, UNIX_LOCAL_ROOT, UNIX_REMOTE,
                            UNIX_REMOTE_ROOT}, ADB_SHELL)
    @@ Via(PROXY_PC, {UNIX_REMOTE_ROOT, ADB_SHELL, ADB_SHELL_ROOT}, UNIX_REMOTE)
    @@ Via(PROXY_PC, {NOT_CONNECTED, UNIX_LOCAL_ROOT}, UNIX_LOCAL)
AdbRemote3HopsWithoutProxyPc ==
    Via(NOT_CONNECTED, {UNIX_LOCAL_ROOT, UNIX_REMOTE, UNIX_REMOTE_ROOT, ADB_SHELL,
                        ADB_SHELL_ROOT}, UNIX_LOCAL)
    @@ Via(UNIX_LOCAL, {UNIX_REMOTE_ROOT, ADB_SHELL, ADB_SHELL_ROOT}, UNIX_REMOTE)
    @@ Via(UNIX_LOCAL_ROOT, {NOT_CONNECTED, UNIX_REMOTE, UNIX_REMOTE_ROOT, ADB_SHELL,
                             ADB_SHELL_ROOT}, UNIX_LOCAL)
    @@ Via(UNIX_REMOTE, {ADB_SHELL_ROOT}, ADB_SHELL)
    @@ Via(UNIX_REMOTE_ROOT, {NOT_CONNECTED, UNIX_LOCAL, UNIX_LOCAL_ROOT, ADB_SHELL,
                              ADB_SHELL_ROOT}, UNIX_REMOTE)
    @@ Via(ADB_SHELL, {NOT_CONNECTED, UNIX_LOCAL, UNIX_LOCAL_ROOT, UNIX_REMOTE_ROOT}, UNIX_REMOTE)
    @@ Via(ADB_SHELL_ROOT, {NOT_CONNECTED, UNIX_LOCAL, UNIX_LOCAL_ROOT, UNIX_REMOTE,
                            UNIX_REMOTE_ROOT}, ADB_SHELL)

JuniperGeneric3CommandsWithProxyPc == JuniperGenericCommands
JuniperGeneric3TransitionsWithProxyPc == JuniperGenericTransitions
JuniperGeneric3HopsWithProxyPc == JuniperGenericHops
JuniperGeneric3CommandsWithoutProxyPc == JuniperCommands(UNIX_LOCAL)
JuniperGeneric3TransitionsWithoutProxyPc == JuniperTransitions(UNIX_LOCAL)
JuniperGeneric3HopsWithoutProxyPc ==
    Via(NOT_CONNECTED, {CLI, CONFIGURE}, UNIX_LOCAL)
    @@ Via(UNIX_LOCAL, {CONFIGURE}, CLI)
    @@ Via(UNIX_LOCAL_ROOT, {NOT_CONNECTED, CLI, CONFIGURE}, UNIX_LOCAL)
    @@ Via(CLI, {NOT_CONNECTED, UNIX_LOCAL_ROOT}, UNIX_LOCAL)
    @@ Via(CONFIGURE, {UNIX_LOCAL, NOT_CONNECTED, UNIX_LOCAL_ROOT}, CLI)

PduAten3CommandsWithProxyPc == PduAtenCommands
PduAten3TransitionsWithProxyPc == PduAtenTransitions
PduAten3HopsWithProxyPc == PduAtenHops
PduAten3CommandsWithoutProxyPc == Configure(UNIX_LOCAL, PDU, "telnet", "exit_telnet")
PduAten3TransitionsWithoutProxyPc == ByCommand(Both(UNIX_LOCAL, PDU))
PduAten3HopsWithoutProxyPc ==
    Via(NOT_CONNECTED, {PDU}, UNIX_LOCAL)
    @@ Via(PDU, {NOT_CONNECTED, UNIX_LOCAL_ROOT}, UNIX_LOCAL)
    @@ Via(UNIX_LOCAL_ROOT, {NOT_CONNECTED, PDU}, UNIX_LOCAL)

Scpi3CommandsWithProxyPc == ScpiCommands
Scpi3TransitionsWithProxyPc == ScpiTransitions
Scpi3HopsWithProxyPc == ScpiHops
Scpi3CommandsWithoutProxyPc == Configure(UNIX_LOCAL, SCPI, "telnet", "exit_telnet")
Scpi3TransitionsWithoutProxyPc == ByCommand(Both(UNIX_LOCAL, SCPI))
Scpi3HopsWithoutProxyPc ==
    Via(NOT_CONNECTED, {SCPI, UNIX_LOCAL_ROOT}, UNIX_LOCAL)
    @@ Via(SCPI, {NOT_CONNECTED, UNIX_LOCAL_ROOT}, UNIX_LOCAL)
    @@ Via(UNIX_LOCAL_ROOT, {SCPI, NOT_CONNECTED}, UNIX_LOCAL)

-----------------------------------------------------------------------------
(* The "2" classes: a remote io may start them past UNIX_LOCAL (local =      *)
(* FALSE), and PROXY_PC may be missing (proxy = FALSE).                     *)

ProxyPc2Commands == ProxyPcCommands
ProxyPc2Transitions(local) == IF local THEN ProxyPcTransitions ELSE ByConnection(PROXY_PC)
ProxyPc2Hops ==
    Via(NOT_CONNECTED, {PROXY_PC}, UNIX_LOCAL)
    @@ Via(UNIX_LOCAL_ROOT, {PROXY_PC}, UNIX_LOCAL)
    @@ Via(PROXY_PC, {NOT_CONNECTED, UNIX_LOCAL_ROOT}, UNIX_LOCAL)

UnixRemote2CommandsWithProxyPc == RemoteCommands(PROXY_PC)
UnixRemote2CommandsWithoutProxyPc(local) ==
    IF local THEN RemoteCommands(UNIX_LOCAL)
    ELSE Configure(UNIX_REMOTE, UNIX_REMOTE_ROOT, "su", "exit")
UnixRemote2TransitionsWithProxyPc == RemoteTransitions(PROXY_PC)
UnixRemote2TransitionsWithoutProxyPc(local) ==
    IF local THEN RemoteTransitions(UNIX_LOCAL)
    ELSE ByConnection(UNIX_REMOTE) @@ ByCommand(Both(UNIX_REMOTE, UNIX_REMOTE_ROOT))
UnixRemote2PromptsWithoutProxyPc(local) ==
    IF local THEN RemotePrompts(UNIX_LOCAL) @@ (UNIX_LOCAL :> <<UNIX_REMOTE, UNIX_LOCAL>>)
    ELSE UNIX_REMOTE_ROOT :> <<UNIX_REMOTE, UNIX_REMOTE_ROOT>>
UnixRemote2HopsWithProxyPc(local) ==
    IF local
    THEN Via(NOT_CONNECTED, {UNIX_REMOTE, PROXY_PC, UNIX_LOCAL_ROOT, UNIX_REMOTE_ROOT}, UNIX_LOCAL)
         @@ Via(UNIX_REMOTE, {NOT_CONNECTED, UNIX_LOCAL, UNIX_LOCAL_ROOT}, PROXY_PC)
         @@ Via(UNIX_LOCAL_ROOT, {UNIX_REMOTE, UNIX_REMOTE_ROOT}, UNIX_LOCAL)
         @@ Via(PROXY_PC, {NOT_CONNECTED, UNIX_LOCAL_ROOT}, UNIX_LOCAL)
         @@ Via(PROXY_PC, {UNIX_REMOTE_ROOT}, UNIX_REMOTE)
         @@ Via(UNIX_LOCAL, {UNIX_REMOTE, UNIX_REMOTE_ROOT}, PROXY_PC)
         @@ Via(UNIX_REMOTE_ROOT, {NOT_CONNECTED, UNIX_LOCAL, UNIX_LOCAL_ROOT, PROXY_PC},
                UNIX_REMOTE)
    ELSE Via(NOT_CONNECTED, {UNIX_REMOTE, UNIX_REMOTE_ROOT}, PROXY_PC)
         @@ Via(PROXY_PC, {UNIX_REMOTE_ROOT}, UNIX_REMOTE)
         @@ Via(UNIX_REMOTE, {NOT_CONNECTED}, PROXY_PC)
         @@ Via(UNIX_REMOTE_ROOT, {NOT_CONNECTED, PROXY_PC}, UNIX_REMOTE)
UnixRemote2HopsWithoutProxyPc(local) ==
    IF local
    THEN Via(NOT_CONNECTED, {UNIX_REMOTE, UNIX_LOCAL_ROOT, UNIX_REMOTE_ROOT}, UNIX_LOCAL)
         @@ Via(UNIX_REMOTE, {NOT_CONNECTED, UNIX_LOCAL_ROOT}, UNIX_LOCAL)
         @@ Via(UNIX_LOCAL_ROOT, {UNIX_REMOTE, UNIX_REMOTE_ROOT}, UNIX_LOCAL)
         @@ Via(UNIX_LOCAL, {UNIX_REMOTE_ROOT}, UNIX_REMOTE)
         @@ Via(UNIX_REMOTE_ROOT, {NOT_CONNECTED, UNIX_LOCAL, UNIX_LOCAL_ROOT}, UNIX_REMOTE)
    ELSE Via(NOT_CONNECTED, {UNIX_REMOTE_ROOT}, UNIX_REMOTE)
         @@ Via(UNIX_REMOTE_ROOT, {NOT_CONNECTED}, UNIX_REMOTE)

AdbRemote2Commands == AdbRemoteCommands
AdbRemote2Transitions == AdbRemoteTransitions
AdbRemote2HopsWithProxyPc(local) ==
    IF local
    THEN Via(NOT_CONNECTED, {UNIX_LOCAL_ROOT, PROXY_PC, UNIX_REMOTE, UNIX_REMOTE_ROOT, ADB_SHELL,
                             ADB_SHELL_ROOT}, UNIX_LOCAL)
         @@ Via(UNIX_LOCAL, {UNIX_REMOTE, UNIX_REMOTE_ROOT, ADB_SHELL, ADB_SHELL_ROOT}, PROXY_PC)
         @@ Via(UNIX_LOCAL_ROOT, {NOT_CONNECTED, PROXY_PC, UNIX_REMOTE, UNIX_REMOTE_ROOT,
                                  ADB_SHELL, ADB_SHELL_ROOT}, UNIX_LOCAL)
         @@ Via(PROXY_PC, {NOT_CONNECTED, UNIX_LOCAL_ROOT}, UNIX_LOCAL)
         @@ Via(PROXY_PC, {UNIX_REMOTE_ROOT, ADB_SHELL, ADB_SHELL_ROOT}, UNIX_REMOTE)
         @@ Via(UNIX_REMOTE, {NOT_CONNECTED, UNIX_LOCAL, UNIX_LOCAL_ROOT}, PROXY_PC)
         @@ Via(UNIX_REMOTE, {ADB_SHELL_ROOT}, ADB_SHELL)
         @@ Via(UNIX_REMOTE_ROOT, {NOT_CONNECTED, UNIX_LOCAL, UNIX_LOCAL_ROOT, PROXY_PC, ADB_SHELL,
                                   ADB_SHELL_ROOT}, UNIX_REMOTE)
         @@ Via(ADB_SHELL, {NOT_CONNECTED, UNIX_LOCAL, UNIX_LOCAL_ROOT, PROXY_PC,
                            UNIX_REMOTE_ROOT}, UNIX_REMOTE)
         @@ Via(ADB_SHELL_ROOT, {NOT_CONNECTED, UNIX_LOCAL, UNIX_LOCAL_ROOT, PROXY_PC, UNIX_REMOTE,
                                 UNIX_REMOTE_ROOT}, ADB_SHELL)
    ELSE Via(NOT_CONNECTED, {UNIX_REMOTE, UNIX_REMOTE_ROOT, ADB_SHELL, ADB_SHELL_ROOT}, PROXY_PC)
         @@ Via(PROXY_PC, {UNIX_REMOTE_ROOT, ADB_SHELL, ADB_SHELL_ROOT}, UNIX_REMOTE)
         @@ Via(UNIX_REMOTE, {NOT_CONNECTED}, PROXY_PC)
         @@ Via(UNIX_REMOTE, {ADB_SHELL_ROOT}, ADB_SHELL)
         @@ Via(UNIX_REMOTE_ROOT, {NOT_CONNECTED, PROXY_PC, ADB_SHELL, ADB_SHELL_ROOT}, UNIX_REMOTE)
         @@ Via(ADB_SHELL, {NOT_CONNECTED, PROXY_PC, UNIX_REMOTE_ROOT}, UNIX_REMOTE)
         @@ Via(ADB_SHELL_ROOT, {NOT_CONNECTED, PROXY_PC, UNIX_REMOTE, UNIX_REMOTE_ROOT}, ADB_SHELL)
AdbRemote2HopsWithoutProxyPc(local) ==
    IF local
    THEN Via(NOT_CONNECTED, {UNIX_LOCAL_ROOT, UNIX_REMOTE, UNIX_REMOTE_ROOT, ADB_SHELL,
                             ADB_SHELL_ROOT}, UNIX_LOCAL)
         @@ Via(UNIX_LOCAL, {UNIX_REMOTE_ROOT, ADB_SHELL, ADB_SHELL_ROOT}, UNIX_REMOTE)
         @@ Via(UNIX_LOCAL_ROOT, {NOT_CONNECTED, UNIX_REMOTE, UNIX_REMOTE_ROOT, ADB_SHELL,
                                  ADB_SHELL_ROOT}, UNIX_LOCAL)
         @@ Via(UNIX_REMOTE, {NOT_CONNECTED, UNIX_LOCAL_ROOT}, UNIX_LOCAL)
         @@ Via(UNIX_REMOTE, {ADB_SHELL_ROOT}, ADB_SHELL)
         @@ Via(UNIX_REMOTE_ROOT, {NOT_CONNECTED, UNIX_LOCAL, UNIX_LOCAL_ROOT, ADB_SHELL,
                                   ADB_SHELL_ROOT}, UNIX_REMOTE)
         @@ Via(ADB_SHELL, {NOT_CONNECTED, UNIX_LOCAL, UNIX_LOCAL_ROOT, UNIX_REMOTE_ROOT},
                UNIX_REMOTE)
         @@ Via(ADB_SHELL_ROOT, {NOT_CONNECTED, UNIX_LOCAL, UNIX_LOCAL_ROOT, UNIX_REMOTE,
                                 UNIX_REMOTE_ROOT}, ADB_SHELL)
    ELSE Via(NOT_CONNECTED, {UNIX_REMOTE_ROOT, ADB_SHELL, ADB_SHELL_ROOT}, UNIX_REMOTE)
         @@ Via(UNIX_REMOTE, {ADB_SHELL_ROOT}, ADB_SHELL)
         @@ Via(UNIX_REMOTE_ROOT, {NOT_CONNECTED, ADB_SHELL, ADB_SHELL_ROOT}, UNIX_REMOTE)
         @@ Via(ADB_SHELL, {NOT_CONNECTED, UNIX_REMOTE_ROOT}, UNIX_REMOTE)
         @@ Via(ADB_SHELL_ROOT, {NOT_CONNECTED, UNIX_REMOTE, UNIX_REMOTE_ROOT}, ADB_SHELL)

-----------------------------------------------------------------------------
(* The tables of a device: those of its class over those of the class below. *)

Table(commands, transitions, hops, prompts) ==
    [commands |-> commands, transitions |-> transitions, hops |-> hops, prompts |-> prompts]

\* call_base_class_method_with_same_name: the base's table, updated with the class's own.
Extend(base, own) == [field \in DOMAIN base |-> own[field] @@ base[field]]

With(edges, s) == {e \in DOMAIN edges : e[1] = s \/ e[2] = s}
Only(f, S) == [x \in S |-> f[x]]

\* Every pair of states that had a command to the state removed is joined: with the command
\* by which the first was left for it.
RemoveState(commands, transitions, removed) ==
    LET gates == {e[1] : e \in {c \in DOMAIN commands : c[2] = removed}} \ {removed}
        joined == {e \in gates \X gates : e[1] # e[2]}
        newCommands == [e \in joined |-> commands[<<e[1], removed>>]] @@ commands
        newTransitions ==
            [e \in joined |-> IF <<removed, e[2]>> \in DOMAIN transitions
                              THEN transitions[<<removed, e[2]>>] ELSE "command"] @@ transitions
    IN [commands |-> Only(newCommands, DOMAIN newCommands \ With(newCommands, removed)),
        transitions |-> Only(newTransitions, DOMAIN newTransitions \ With(newTransitions, removed))]

\* A hop over the state removed becomes the hop that state had, or is dropped: the states are
\* joined now.
RemoveHops(hops, removed) ==
    LET onward(e) == <<removed, e[2]>>
        lost == {e \in DOMAIN hops : hops[e] = removed /\ onward(e) \notin DOMAIN hops}
    IN [e \in DOMAIN hops \ (lost \cup With(hops, removed)) |->
            IF hops[e] = removed THEN hops[onward(e)] ELSE hops[e]]

WithoutProxyPc(table, prompts) ==
    LET trimmed == RemoveState(table.commands, table.transitions, PROXY_PC)
    IN Table(trimmed.commands, trimmed.transitions, RemoveHops(table.hops, PROXY_PC), prompts)

UnixLocalTable == Table(UnixLocalCommands, UnixLocalTransitions, UnixLocalHops, UnixLocalPrompts)

ProxyPcTable ==
    Extend(UnixLocalTable, Table(ProxyPcCommands, ProxyPcTransitions, ProxyPcHops, ProxyPcPrompts))
UnixRemoteTable ==
    Extend(ProxyPcTable,
           Table(UnixRemoteCommands, UnixRemoteTransitions, UnixRemoteHops, UnixRemotePrompts))
FirstTables ==
    [ProxyPc |-> ProxyPcTable,
     UnixRemote |-> UnixRemoteTable,
     AtRemote |-> Extend(UnixRemoteTable, Table(AtRemoteCommands, AtRemoteTransitions,
                                                AtRemoteHops, AtRemotePrompts)),
     AdbRemote |-> Extend(UnixRemoteTable, Table(AdbRemoteCommands, AdbRemoteTransitions,
                                                 AdbRemoteHops, AdbRemotePrompts)),
     JuniperGeneric |-> Extend(ProxyPcTable, Table(JuniperGenericCommands,
                            JuniperGenericTransitions, JuniperGenericHops, JuniperGenericPrompts)),
     PduAten |-> Extend(ProxyPcTable, Table(PduAtenCommands, PduAtenTransitions, PduAtenHops,
                                            PduAtenPrompts)),
     Scpi |-> Extend(ProxyPcTable, Table(ScpiCommands, ScpiTransitions, ScpiHops, ScpiPrompts))]
FirstPromptsWithoutProxyPc ==
    LET remote == UnixRemotePromptsWithoutProxyPc @@ UnixLocalPrompts
    IN [ProxyPc |-> UnixLocalPrompts,
        UnixRemote |-> remote,
        AtRemote |-> AtRemotePrompts @@ remote,
        AdbRemote |-> AdbRemotePrompts @@ remote,
        JuniperGeneric |-> JuniperGenericPromptsWithoutProxyPc @@ UnixLocalPrompts,
        PduAten |-> PduAtenPromptsWithoutProxyPc @@ UnixLocalPrompts,
        Scpi |-> ScpiPromptsWithoutProxyPc @@ UnixLocalPrompts]

ProxyPc3Table ==
    Extend(UnixLocalTable, Table(ProxyPc3CommandsWithProxyPc, ProxyPc3TransitionsWithProxyPc,
                                 ProxyPc3HopsWithProxyPc, ProxyPc3PromptsWithProxyPc))
UnixRemote3Table ==
    Extend(ProxyPc3Table, Table(UnixRemote3CommandsWithProxyPc, UnixRemote3TransitionsWithProxyPc,
                                UnixRemote3HopsWithProxyPc, UnixRemote3PromptsWithProxyPc))
ThirdTables ==
    [ProxyPc |-> ProxyPc3Table,
     UnixRemote |-> UnixRemote3Table,
     AtRemote |-> Extend(UnixRemote3Table, Table(AtRemote3CommandsWithProxyPc,
                      AtRemote3TransitionsWithProxyPc, AtRemote3HopsWithProxyPc, AtRemotePrompts)),
     AdbRemote |-> Extend(UnixRemote3Table, Table(AdbRemote3CommandsWithProxyPc,
                       AdbRemote3TransitionsWithProxyPc, AdbRemote3HopsWithProxyPc,
                       AdbRemotePrompts)),
     JuniperGeneric |-> Extend(ProxyPc3Table, Table(JuniperGeneric3CommandsWithProxyPc,
                            JuniperGeneric3TransitionsWithProxyPc,
                            JuniperGeneric3HopsWithProxyPc, JuniperGenericPrompts)),
     PduAten |-> Extend(ProxyPc3Table, Table(PduAten3CommandsWithProxyPc,
                     PduAten3TransitionsWithProxyPc, PduAten3HopsWithProxyPc, PduAtenPrompts)),
     Scpi |-> Extend(ProxyPc3Table, Table(Scpi3CommandsWithProxyPc, Scpi3TransitionsWithProxyPc,
                                          Scpi3HopsWithProxyPc, ScpiPrompts))]
UnixRemote3TableWithoutProxyPc ==
    Extend(UnixLocalTable, Table(UnixRemote3CommandsWithoutProxyPc,
               UnixRemote3TransitionsWithoutProxyPc, UnixRemote3HopsWithoutProxyPc,
               UnixRemote3PromptsWithoutProxyPc))
ThirdTablesWithoutProxyPc ==
    [ProxyPc |-> UnixLocalTable,
     UnixRemote |-> UnixRemote3TableWithoutProxyPc,
     AtRemote |-> Extend(UnixRemote3TableWithoutProxyPc, Table(AtRemote3CommandsWithoutProxyPc,
                      AtRemote3TransitionsWithoutProxyPc, AtRemote3HopsWithoutProxyPc,
                      AtRemotePrompts)),
     AdbRemote |-> Extend(UnixRemote3TableWithoutProxyPc, Table(AdbRemote3CommandsWithoutProxyPc,
                       AdbRemote3TransitionsWithoutProxyPc, AdbRemote3HopsWithoutProxyPc,
                       AdbRemotePrompts)),
     JuniperGeneric |-> Extend(UnixLocalTable, Table(JuniperGeneric3CommandsWithoutProxyPc,
                            JuniperGeneric3TransitionsWithoutProxyPc,
                            JuniperGeneric3HopsWithoutProxyPc,
                            JuniperGenericPromptsWithoutProxyPc)),
     PduAten |-> Extend(UnixLocalTable, Table(PduAten3CommandsWithoutProxyPc,
                     PduAten3TransitionsWithoutProxyPc, PduAten3HopsWithoutProxyPc,
                     PduAtenPromptsWithoutProxyPc)),
     Scpi |-> Extend(UnixLocalTable, Table(Scpi3CommandsWithoutProxyPc,
                  Scpi3TransitionsWithoutProxyPc, Scpi3HopsWithoutProxyPc,
                  ScpiPromptsWithoutProxyPc))]

\* In the "2" classes the prompt of the state a remote io starts in is found by
\* _detect_after_open_prompt, not read from an edge.
LocalTable2(local) ==
    IF local THEN UnixLocalTable ELSE Table(Nothing, Nothing, Nothing, Nothing)
ProxyPc2Table(local) ==
    IF local
    THEN Extend(UnixLocalTable,
                Table(ProxyPc2Commands, ProxyPc2Transitions(TRUE), ProxyPc2Hops, ProxyPcPrompts))
    ELSE Table(Nothing, ProxyPc2Transitions(FALSE), Nothing, Nothing)
UnixRemote2Table(proxy, local) ==
    IF proxy
    THEN Extend(ProxyPc2Table(local),
                Table(UnixRemote2CommandsWithProxyPc, UnixRemote2TransitionsWithProxyPc,
                      UnixRemote2HopsWithProxyPc(local), UnixRemotePrompts))
    ELSE Extend(LocalTable2(local),
                Table(UnixRemote2CommandsWithoutProxyPc(local),
                      UnixRemote2TransitionsWithoutProxyPc(local),
                      UnixRemote2HopsWithoutProxyPc(local),
                      UnixRemote2PromptsWithoutProxyPc(local)))
AdbRemote2Table(proxy, local) ==
    Extend(UnixRemote2Table(proxy, local),
           Table(AdbRemote2Commands, AdbRemote2Transitions,
                 IF proxy THEN AdbRemote2HopsWithProxyPc(local)
                          ELSE AdbRemote2HopsWithoutProxyPc(local),
                 AdbRemotePrompts))

-----------------------------------------------------------------------------
(* The devices: <<generation of the class, class, with PROXY_PC, local io>>.  *)

Devices ==
    {<<1, "UnixLocal", FALSE, TRUE>>, <<2, "ProxyPc", TRUE, TRUE>>, <<2, "ProxyPc", TRUE, FALSE>>}
    \cup ({1, 3} \X (DOMAIN FirstTables) \X BOOLEAN \X {TRUE})
    \cup ({2} \X {"UnixRemote", "AdbRemote"} \X BOOLEAN \X BOOLEAN)

TableOf(generation, class, proxy, local) ==
    CASE class = "UnixLocal" -> UnixLocalTable
      [] generation = 1 /\ proxy /\ class # "UnixLocal" -> FirstTables[class]
      [] generation = 1 /\ ~proxy /\ class # "UnixLocal" ->
            WithoutProxyPc(FirstTables[class], FirstPromptsWithoutProxyPc[class])
      [] generation = 3 /\ proxy -> ThirdTables[class]
      [] generation = 3 /\ ~proxy -> ThirdTablesWithoutProxyPc[class]
      [] generation = 2 /\ class = "ProxyPc" -> ProxyPc2Table(local)
      [] generation = 2 /\ class = "UnixRemote" -> UnixRemote2Table(proxy, local)
      [] generation = 2 /\ class = "AdbRemote" -> AdbRemote2Table(proxy, local)
Tables == [d \in Devices |-> TableOf(d[1], d[2], d[3], d[4])]
StatesOf ==
    [d \in Devices |-> UNION {{e[1], e[2]} : e \in DOMAIN Tables[d].transitions}]
TriggersOf == [d \in Devices |-> {e[2] : e \in DOMAIN Tables[d].transitions}]

\* on_connection_made: the state of a connection just made.
BaseState(d) == IF d[4] THEN UNIX_LOCAL ELSE IF d[3] THEN PROXY_PC ELSE UNIX_REMOTE

=============================================================================
