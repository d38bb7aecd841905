------------------------------- MODULE MCRelay -------------------------------
(***************************************************************************)
(* Configurations for Relay: one host, one datagram and one stream         *)
(* endpoint, and what the loader must refuse or complete.                  *)
(***************************************************************************)
EXTENDS Relay

CONSTANTS ip1, ip2, name

At(host, proto) == [host |-> host, port |-> 1, proto |-> proto]

Nothing == [mode |-> Absent, listen |-> Absent, servers |-> Absent,
            session_timeout |-> Absent, listen_addrs |-> Absent, target |-> Absent,
            dedup_window |-> Absent]

MCIps == {ip1, ip2, AnyIp}

\* The servers on the command line: two hosts, a name, none, and those of YAML.
MCClientArgs ==
    {[Nothing EXCEPT !.mode = "client", !.servers = l] :
        l \in {Absent, <<>>, <<At(ip1, "udp"), At(ip2, "udp")>>, <<At(name, "udp")>>,
               <<At(ip1, "quic")>>}}
MCClientYaml ==
    {[Nothing EXCEPT !.listen = x, !.servers = <<At(ip1, "udp"), At(ip1, "tcp")>>] :
        x \in {Absent, "addr"}}

MCServerArgs == {[Nothing EXCEPT !.mode = "server", !.target = "addr"]}
MCServerYaml ==
    {[Nothing EXCEPT !.listen_addrs = <<At(NoHost, "udp"), At(NoHost, "tcp")>>,
                     !.dedup_window = x] : x \in {0}}

MCPayloadLen == <<3, 7, 1>>
MCResponseLen == <<1, 6, 1>>
=============================================================================
