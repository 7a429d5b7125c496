----------------------------- MODULE MCStartup ------------------------------
(* Instances of Startup: a good file of each kind with one thing changed at  *)
(* a time, every topology of a set of networks, gateways and addresses, and  *)
(* every pair of clients with few names, addresses and hashes.               *)
EXTENDS Startup

Net(a, b, c, d, n) == [base |-> IP(a, b, c, d), bits |-> n]
Host(c, d) == IP(10, 77, c, d)
Hash(digest, case) == [digest |-> digest, case |-> case]
Entry(name, address, hash) == [name |-> name, address |-> address, hash |-> hash]

MCDigests == {"d1", "d2", "d3"}

ServerCfg ==
  [listen |-> "unset", metrics |-> "good", path |-> "unset", interface |-> "good",
   network |-> Net(10, 77, 0, 0, 29), gateway |-> Host(0, 1), mtu |-> 1280, max |-> 2,
   handshake |-> 0, idle |-> 10000, log |-> "unset",
   clients |-> <<Entry("a", Host(0, 2), Hash("d1", "lower"))>>]

ClientCfg ==
  [url |-> "good", token |-> "good", interface |-> "unset", dns |-> "unset", mtu |-> 0,
   dial |-> 0, keepalive |-> 0, reconnect |-> 0, log |-> "unset"]

File(kind, c) ==
  [kind |-> kind, goos |-> "linux", exists |-> TRUE, perm |-> ClientPerm, decodes |-> TRUE, documents |-> 1, cfg |-> c]

BrokenFiles ==
  UNION {{[f EXCEPT !.exists = FALSE], [f EXCEPT !.decodes = FALSE], [f EXCEPT !.documents = 2],
          [f EXCEPT !.perm = ServerPerm], [f EXCEPT !.perm = @ \cup {"other_read"}]} :
           f \in {File("server", ServerCfg), File("client", ClientCfg)}}

Strings == {"unset", "good", "bad"}

Scalars ==
  UNION {{[ServerCfg EXCEPT !.listen = s], [ServerCfg EXCEPT !.metrics = s],
          [ServerCfg EXCEPT !.path = s], [ServerCfg EXCEPT !.interface = s],
          [ServerCfg EXCEPT !.log = s]} : s \in Strings}
  \cup {[ServerCfg EXCEPT !.mtu = n] : n \in {0, 575, 576, 1500, 1501}}
  \cup {[ServerCfg EXCEPT !.max = n] : n \in {0, 1, 65535, 65536}}
  \cup {[ServerCfg EXCEPT !.handshake = n] : n \in {-1000, 0, 999, 1000}}
  \cup {[ServerCfg EXCEPT !.idle = n] : n \in {-1, 0, 9999, 10000}}

ClientScalars ==
  UNION {{[ClientCfg EXCEPT !.url = s], [ClientCfg EXCEPT !.token = s], [ClientCfg EXCEPT !.dns = s],
          [ClientCfg EXCEPT !.interface = s], [ClientCfg EXCEPT !.log = s]} : s \in Strings}
  \cup {[ClientCfg EXCEPT !.mtu = n] : n \in {575, 576, 1500, 1501}}
  \cup {[ClientCfg EXCEPT !.dial = n] : n \in {-1, 999, 1000}}
  \cup {[ClientCfg EXCEPT !.keepalive = n] : n \in {-1, 4999, 5000}}
  \cup {[ClientCfg EXCEPT !.reconnect = n] : n \in {-1, 999, 1000}}

Networks ==
  {Net(10, 77, 0, 0, n) : n \in {15, 16, 24, 29, 30, 31}}
  \cup {Net(10, 77, 0, 4, 30), Net(10, 77, 0, 2, 30), Net(11, 77, 0, 0, 24)}
  \cup {[base |-> Unset, bits |-> 0], [base |-> Bad, bits |-> 0]}

Gateways == {Host(0, 0), Host(0, 1), Host(0, 3), Host(0, 6), Host(1, 1), IP(11, 77, 0, 1), Unset, Bad}

Addresses ==
  {Host(0, d) : d \in {0, 1, 2, 3, 4, 5, 6, 7, 8, 254, 255}}
  \cup {Host(1, 0), Host(255, 254), Host(255, 255), IP(11, 77, 0, 2), Bad}

Topologies ==
  {[ServerCfg EXCEPT !.network = n, !.gateway = g, !.clients[1].address = a] :
     n \in Networks, g \in Gateways, a \in Addresses}

Hashes == {Hash("d1", "lower"), Hash("d1", "upper"), Hash("d2", "lower"), Hash("d2", "bad")}

Entries == {Entry(n, a, h) : n \in {"", "a", "b"}, a \in {Host(0, 2), Host(0, 3), Bad}, h \in Hashes}

Pairs ==
  {[ServerCfg EXCEPT !.clients = s] : s \in {<<>>} \cup {<<d, e>> : d, e \in Entries}}
  \cup {[ServerCfg EXCEPT !.clients = <<Entry("a", Host(0, 2), Hash("d1", "upper")),
                                        Entry("b", Host(0, 3), Hash("d2", "lower")), e>>] :
          e \in Entries \cup {Entry("c", Host(0, 4), Hash("d3", "lower"))}}

(* Files with any mode on the other platforms. *)
ForeignFiles ==
  {[f EXCEPT !.goos = os, !.perm = p] :
     f \in {File("server", ServerCfg), File("client", ClientCfg),
           File("client", [ClientCfg EXCEPT !.token = "bad"])},
     os \in {"windows", "other"}, p \in {ClientPerm, ServerPerm, ServerPerm \cup {"other_read"}}}

MCFiles ==
  BrokenFiles \cup ForeignFiles
  \cup {File("server", c) : c \in Scalars \cup Topologies \cup Pairs}
  \cup {File("client", c) : c \in {ClientCfg} \cup ClientScalars}
=============================================================================
