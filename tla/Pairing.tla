-------------------------------- MODULE Pairing --------------------------------
(***************************************************************************)
(* Pairing of nodes by invite codes, and the peers, tokens and visitor     *)
(* ports in each node's config (src/pairing.mjs, src/tunnel.mjs, the       *)
(* peers, token, invite and tunnel commands of bin/dshlink.mjs).  Codes    *)
(* travel outside the program: one may be used late, twice or never.       *)
(* Commands of one node follow each other; ConfigReload has their races.   *)
(***************************************************************************)
EXTENDS Integers, FiniteSets, FiniteSetsExt

NoServer == "none"

CONSTANTS
  Peer,        \* nodes; a node's name is itself
  Alias,       \* other names a peer may be saved under
  Server,      \* frps servers
  firstTunnel, \* the server each tunnel is set up for at first, NoServer for none
  Public,      \* nodes that have a publicUrl
  ServePort,   \* cfg.port
  PortBase,    \* tunnel.visitorPortBase
  MaxPort,     \* no visitor port is higher (bound)
  MaxTokens,   \* tokens minted at all (bound)
  MaxCommands  \* commands run at all (bound)

ASSUME PairingAssumption ==
  /\ Public \subseteq Peer /\ {ServePort, PortBase, MaxPort, MaxTokens, MaxCommands} \subseteq Nat
  /\ PortBase <= MaxPort /\ firstTunnel \in [Peer -> Server \cup {NoServer}]

\* The search for a port does not end at MaxPort, so the bounds leave it one.
ASSUME PortsSuffice == MaxCommands <= MaxPort + 1 - PortBase

VARIABLES
  tokens,   \* the tokens each node accepts
  peers,    \* cfg.peers of each node: name -> entry
  tunnel,   \* the server of each node's tunnel, NoServer when it is disabled
  codes,    \* invites that have been handed out
  held,     \* the ports of each machine that other processes listen on
  minted, commands,
  revoked,  \* tokens removed by the node that minted them (history)
  portMoved     \* nodes that have moved a visitor port (history)

pairingVars == <<tokens, peers, tunnel, codes, held, minted, commands, revoked, portMoved>>

NoToken == 0
NoPort == 0

PairingInit ==
  /\ tokens = [n \in Peer |-> {}]
  /\ peers = [n \in Peer |-> <<>>]
  /\ tunnel = firstTunnel
  /\ codes = {} /\ held = [n \in Peer |-> {}]
  /\ minted = 0 /\ commands = 0 /\ revoked = {} /\ portMoved = {}

-----------------------------------------------------------------------------
Ports(n) == {peers[n][x].port : x \in DOMAIN peers[n]} \ {NoPort}

\* Mutant: only the peers that are reached through the tunnel count.
allocateVisitorPortInUse(n) ==
  Min((PortBase..MaxPort + 1) \
      ({ServePort} \cup {peers[n][x].port : x \in {y \in DOMAIN peers[n] : peers[n][y].via = "tunnel"}}))

allocateVisitorPort(n) == Min((PortBase..MaxPort + 1) \ (Ports(n) \cup {ServePort}))

\* The urls of an invite are the public one, if any, then the local one.
buildInvite(n, token) ==
  [from |-> n, token |-> token, url |-> IF n \in Public THEN "public" ELSE "local", stcp |-> tunnel[n]]

\* The tunnel is used when both ends are at the same server.
peerEntryFromInvite(n, c) ==
  LET port == IF c.stcp = NoServer THEN NoPort ELSE allocateVisitorPort(n)
      usedStcp == c.stcp # NoServer /\ c.stcp = tunnel[n]
  IN [node |-> c.from, token |-> c.token, port |-> port,
      via |-> IF usedStcp THEN "tunnel" ELSE c.url, at |-> IF usedStcp THEN port ELSE NoPort]

upsertPeer(n, name, entry) ==
  peers' = [peers EXCEPT ![n] = [x \in DOMAIN @ \cup {name} |-> IF x = name THEN entry ELSE @[x]]]

Command ==
  /\ commands < MaxCommands
  /\ commands' = commands + 1

createInboundToken(n, t) ==
  /\ minted < MaxTokens
  /\ minted' = minted + 1
  /\ t = minted'
  /\ tokens' = [tokens EXCEPT ![n] = @ \cup {t}]

-----------------------------------------------------------------------------
\* Mutant: the code is printed and the config is not saved.
invitePrinted(n) ==
  /\ Command
  /\ minted < MaxTokens /\ minted' = minted + 1
  /\ codes' = codes \cup {buildInvite(n, minted')}
  /\ UNCHANGED <<tokens, peers, tunnel, held, revoked, portMoved>>

\* invite, with a token unless --no-token: saved, then printed.
invite(n) ==
  /\ Command
  /\ \/ createInboundToken(n, minted + 1) /\ codes' = codes \cup {buildInvite(n, minted + 1)}
     \/ UNCHANGED <<minted, tokens>> /\ codes' = codes \cup {buildInvite(n, NoToken)}
  /\ UNCHANGED <<peers, tunnel, held, revoked, portMoved>>

\* peers accept, perhaps under another name and with a code in reply: saved, then
\* the tunnel is relaunched, and the ports it moves are not saved.
accept(n, c, name) ==
  /\ Command
  /\ name # n
  /\ upsertPeer(n, name, peerEntryFromInvite(n, c))
  /\ \/ createInboundToken(n, minted + 1) /\ codes' = codes \cup {buildInvite(n, minted + 1)}
     \/ UNCHANGED <<minted, tokens, codes>>
  /\ UNCHANGED <<tunnel, held, revoked, portMoved>>

\* An invite with a ttl expires.
expireInvite(c) ==
  /\ codes' = codes \ {c}
  /\ UNCHANGED <<tokens, peers, tunnel, held, minted, commands, revoked, portMoved>>

ByTunnel(n, p, t) ==
  LET port == allocateVisitorPort(n) IN
  [node |-> p, token |-> t, port |-> port, via |-> "tunnel", at |-> port]

\* peers add, with --url or with --frp-server-name; a token of the peer's if given.
addPeer(n, name, p, t) ==
  /\ Command
  /\ name # n
  /\ \/ upsertPeer(n, name, ByTunnel(n, p, t))
     \/ upsertPeer(n, name, [node |-> p, token |-> t, port |-> NoPort, via |-> "local", at |-> NoPort])
  /\ UNCHANGED <<tokens, tunnel, codes, held, minted, revoked, portMoved>>

\* tunnel import: saved, then the tunnel is relaunched.
importPeer(n, name, p, t) ==
  /\ Command
  /\ name # n
  /\ upsertPeer(n, name, ByTunnel(n, p, t))
  /\ UNCHANGED <<tokens, tunnel, codes, held, minted, revoked, portMoved>>

removePeer(n, name) ==
  /\ Command
  /\ peers' = [peers EXCEPT ![n] = [x \in DOMAIN @ \ {name} |-> @[x]]]
  /\ UNCHANGED <<tokens, tunnel, codes, held, minted, revoked, portMoved>>

\* token rm --id removes the token of this id, or all that have this label.
removeTokens(n, gone) ==
  /\ Command
  /\ tokens' = [tokens EXCEPT ![n] = @ \ gone]
  /\ revoked' = revoked \cup gone
  /\ UNCHANGED <<peers, tunnel, codes, held, minted, portMoved>>

\* tunnel setup, enable and disable.
setTunnel(n, server) ==
  /\ Command
  /\ tunnel[n] # server
  /\ tunnel' = [tunnel EXCEPT ![n] = server]
  /\ UNCHANGED <<tokens, peers, codes, held, minted, revoked, portMoved>>

-----------------------------------------------------------------------------
\* The next port nobody listens on: the ports of this node's own visitors are free,
\* because its frpc has been stopped.
NextFree(n, port) == Min({q \in port..MaxPort + 1 : q \notin held[n]})

\* Mutant: the address of the peer is left as it was.
movedToPort(n, entry) == [entry EXCEPT !.port = NextFree(n, @)]

movedTo(n, entry) ==
  LET port == NextFree(n, entry.port) IN
  IF entry.port \in held[n] THEN [entry EXCEPT !.port = port, !.via = "tunnel", !.at = port]
  ELSE entry

ensureVisitorPorts(n) ==
  peers' = [peers EXCEPT ![n] = [x \in DOMAIN @ |-> movedTo(n, @[x])]]

\* tunnel sync: relaunch, and save the ports it has moved, if any.
sync(n) ==
  /\ Command
  /\ tunnel[n] # NoServer
  /\ Ports(n) \cap held[n] # {}
  /\ ensureVisitorPorts(n)
  /\ portMoved' = portMoved \cup {n}
  /\ UNCHANGED <<tokens, tunnel, codes, held, minted, revoked>>

\* Another process of the machine begins to listen on a port.
listen(n, port) ==
  /\ held' = [held EXCEPT ![n] = {port}]
  /\ UNCHANGED <<tokens, peers, tunnel, codes, minted, commands, revoked, portMoved>>

PairingNext ==
  \E n \in Peer :
    \/ invite(n)
    \/ \E c \in codes : accept(n, c, c.from) \/ (\E x \in Alias : accept(n, c, x)) \/ expireInvite(c)
    \/ \E p \in Peer \ {n} : \E x \in Alias \cup {p}, t \in (tokens[p] \cup {NoToken}) :
         addPeer(n, x, p, t) \/ importPeer(n, x, p, t)
    \/ \E x \in DOMAIN peers[n] : removePeer(n, x)
    \/ \E gone \in (SUBSET tokens[n]) \ {{}} : removeTokens(n, gone)
    \/ \E s \in Server \cup {NoServer} : setTunnel(n, s)
    \/ sync(n)
    \/ \E port \in PortBase..MaxPort : listen(n, port)

PairingSpec == PairingInit /\ [][PairingNext]_pairingVars

-----------------------------------------------------------------------------
\* Whatever codes are used late, twice or in the other direction, a token that a
\* node keeps for a peer is one the peer accepts, unless the peer has removed it.
TokensAccepted ==
  \A n \in Peer : \A x \in DOMAIN peers[n] :
    peers[n][x].token \in tokens[peers[n][x].node] \cup revoked \cup {NoToken}

\* No two peers of a node are at the same visitor port, and none is at the node's
\* own, as long as no port had to be moved (allocateVisitorPort).
PortsApart ==
  \A n \in Peer \ portMoved :
    /\ ServePort \notin Ports(n)
    /\ \A x, y \in DOMAIN peers[n] :
         x # y /\ peers[n][x].port # NoPort => peers[n][x].port # peers[n][y].port

\* The address of a peer that is reached through the tunnel is the port its visitor
\* listens on, also after ports have been moved (ensureVisitorPorts).
AddressIsVisitor ==
  \A n \in Peer : \A x \in DOMAIN peers[n] :
    peers[n][x].via = "tunnel" => peers[n][x].at = peers[n][x].port
=============================================================================
