------------------------------- MODULE Config -------------------------------
(***************************************************************************)
(* Loading the configuration (fproxy-rs/src/config.rs): command line over  *)
(* YAML, parsing of endpoints, defaults, validation.                       *)
(*                                                                         *)
(* The text of an endpoint is what the parser distinguishes in it: its     *)
(* host, its port and its protocol.  Every error is Refused.               *)
(***************************************************************************)
EXTENDS Integers, Sequences

CONSTANTS Ips,              \* hosts that parse as an IpAddr
          AnyIp,            \* "0.0.0.0"
          NoHost,           \* the empty host of ":8001"
          Unparsable,       \* a host that is no address, a duration that is none
          Absent,           \* an option that is not given
          Refused,          \* ConfigError
          DEFAULT_DEDUP_WINDOW,
          DEFAULT_SESSION_TIMEOUT

ASSUME ConfigAssumption ==
    /\ AnyIp \in Ips
    /\ {NoHost, Unparsable, Refused} \cap Ips = {}
    /\ DEFAULT_DEDUP_WINDOW \in Nat \ {0} /\ DEFAULT_SESSION_TIMEOUT \in Nat \ {0}

\* Option::or and unwrap_or.
Or(a, b) == IF a = Absent THEN b ELSE a

\* normalize_listen_addr, of ":8001".  ("[]:8001" has an empty host as well, which
\* parse accepts and normalises to nothing: no address to bind, and left out here.)
Normalize(host) == IF host = NoHost THEN AnyIp ELSE host

\* Endpoint::parse.
Parses(text) ==
    /\ text.proto \in {"udp", "tcp"}
    /\ text.host \in Ips \cup {NoHost}
Parsed(text) == [host |-> Normalize(text.host), port |-> text.port, proto |-> text.proto]

\* Endpoint::parse_list.
ParsesAll(texts) == \A i \in DOMAIN texts : Parses(texts[i])
ParseList(texts) == [i \in DOMAIN texts |-> Parsed(texts[i])]

\* parse_duration, with what cannot be parsed taken for 0, and the default that
\* validate gives to 0.
Timeout(text) ==
    IF text \in {Absent, Unparsable, 0} THEN DEFAULT_SESSION_TIMEOUT ELSE text

\* Mutant: the addresses of the servers are not compared.
SameIpUnchecked(servers) == TRUE

\* ClientServersDifferentIPs.
SameIp(servers) == \A i \in DOMAIN servers : servers[i].host = servers[1].host

LoadClient(args, yaml) ==
    LET listen == Or(Or(args.listen, yaml.listen), "")
        texts == Or(Or(args.servers, yaml.servers), <<>>)
        servers == ParseList(texts)
    IN  IF ParsesAll(texts) /\ listen # "" /\ servers # <<>> /\ SameIp(servers)
        THEN [mode |-> "client", servers |-> servers,
              session_timeout |-> Timeout(Or(args.session_timeout, yaml.session_timeout))]
        ELSE Refused

LoadServer(args, yaml) ==
    LET texts == Or(Or(args.listen_addrs, yaml.listen_addrs), <<>>)
        target == Or(Or(args.target, yaml.target), "")
        window == Or(Or(args.dedup_window, yaml.dedup_window), 0)
    IN  IF ParsesAll(texts) /\ texts # <<>> /\ target # ""
        THEN [mode |-> "server", listen_addrs |-> ParseList(texts), target |-> target,
              dedup_window |-> IF window = 0 THEN DEFAULT_DEDUP_WINDOW ELSE window,
              session_timeout |-> Timeout(Or(args.session_timeout, yaml.session_timeout))]
        ELSE Refused

load(args, yaml) ==
    LET mode == Or(args.mode, yaml.mode)
    IN  CASE mode = "client" -> LoadClient(args, yaml)
          [] mode = "server" -> LoadServer(args, yaml)
          [] OTHER -> Refused

=============================================================================
