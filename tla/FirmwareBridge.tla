--------------------------- MODULE FirmwareBridge ---------------------------
(***************************************************************************)
(* The running firmware between the serial port and TCP port 23: the main   *)
(* loop, association, the takeover of the bridge by the newest connection,  *)
(* and the latch that silences the console once a peer has claimed it.      *)
(*                                                                         *)
(* Each while loop of the code is one step per byte, so peers, the host and *)
(* the radio interleave with every one of them.  A peer is one connection,  *)
(* numbered in the order of connecting; a program that connects again is    *)
(* the next peer.  Unread TCP data is a count, the serial input a queue of  *)
(* units: a byte of payload or a whole console line.  A unit that finds     *)
(* either buffer full is the UART's loss or TCP's back pressure, and is not *)
(* modelled.  Startup and the saved settings are in FirmwareConfig.         *)
(***************************************************************************)
EXTENDS Naturals, Sequences

CONSTANTS
  Peers,         \* how many connections are made
  SerialLimit,   \* units the UART buffer holds
  TcpLimit,      \* units of a connection that wait to be read
  Burst,         \* bound on what a peer sends in all
  HostUnits,     \* bound on what the serial host sends in all
  MaxDrops       \* bound on the losses of association

ASSUME BridgeAssumption ==
  /\ {Peers, SerialLimit, TcpLimit} \subseteq Nat \ {0}
  /\ {Burst, HostUnits, MaxDrops} \subseteq Nat

VARIABLES
  pc,                     \* where loop() is
  associated,             \* WiFi.status() == WL_CONNECTED
  joining,                \* the radio keeps trying; FALSE after WiFi.disconnect
  wifiWasConnected,
  listening,              \* server.begin() was called
  unclaimed,              \* connections accepted by the stack, not by the code
  client,                 \* the peer the WiFiClient stands for; 0 for none
  transparentBridgeMode,
  conn,                   \* each connection as the stack sees it
  crashed,                \* peers that are gone without the stack noticing
  tcpIn,                  \* units received from each peer and not read
  sent,                   \* units each peer has sent
  serialIn,               \* the UART receive buffer
  hostSent,               \* units the serial host has sent
  lastWritten,            \* history: whose unit was written to the UART last
  owned,                  \* history: some peer has claimed the bridge
  drops

loopVars == <<pc, wifiWasConnected, listening, client, transparentBridgeMode>>
netVars == <<associated, joining, unclaimed, conn, crashed, tcpIn, sent,
             hostSent, drops>>
history == <<lastWritten, owned>>
bridgeVars == <<loopVars, netVars, serialIn, history>>

Peer == 1 .. Peers
Unit == {"data", "hangup", "connect"}

BridgeInit ==
  /\ pc = "wifi"
  \* setup() has joined the network, or given up and disconnected the radio.
  /\ associated \in BOOLEAN /\ joining = associated
  /\ wifiWasConnected = associated /\ listening = associated
  /\ unclaimed = <<>> /\ client = 0 /\ transparentBridgeMode = FALSE
  /\ conn = [p \in Peer |-> "none"] /\ crashed = [p \in Peer |-> FALSE]
  /\ tcpIn = [p \in Peer |-> 0] /\ sent = [p \in Peer |-> 0]
  /\ serialIn = <<>> /\ hostSent = 0
  /\ lastWritten = 0 /\ owned = FALSE /\ drops = 0

\* WiFiClient::connected and operator bool: a connection its peer has closed
\* counts as long as there is something left to read.
Live(p) ==
  /\ p # 0
  /\ conn[p] = "open" \/ (conn[p] = "closing" /\ tcpIn[p] > 0)

\* client.stop(), where the code calls it on a live client.
Stopped == IF client = 0 THEN conn ELSE [conn EXCEPT ![client] = "closed"]
Discarded == IF client = 0 THEN tcpIn ELSE [tcpIn EXCEPT ![client] = 0]
StopClient ==
  IF Live(client) THEN conn' = Stopped /\ tcpIn' = Discarded
                  ELSE UNCHANGED <<conn, tcpIn>>

-----------------------------------------------------------------------------
(* loop()                                                                   *)

\* Mutant: the latch is dropped together with the network.
ServiceWifiUnlatches ==
  /\ pc = "wifi" /\ pc' = "bridge"
  /\ wifiWasConnected' = associated
  /\ listening' = (listening \/ associated)
  /\ transparentBridgeMode' = (transparentBridgeMode /\ associated)
  /\ IF ~associated /\ wifiWasConnected THEN StopClient
                                        ELSE UNCHANGED <<conn, tcpIn>>
  /\ UNCHANGED <<client, associated, joining, unclaimed, crashed, sent,
                 hostSent, drops, serialIn, history>>

ServiceWifi ==
  /\ pc = "wifi" /\ pc' = "bridge"
  /\ wifiWasConnected' = associated
  /\ listening' = (listening \/ associated)
  /\ IF ~associated /\ wifiWasConnected THEN StopClient
                                        ELSE UNCHANGED <<conn, tcpIn>>
  /\ UNCHANGED <<client, transparentBridgeMode, associated, joining, unclaimed,
                 crashed, sent, hostSent, drops, serialIn, history>>

\* serviceBridge: without association, or without a live client, nothing.
SkipBridge ==
  /\ pc = "bridge" /\ pc' = "rest"
  /\ ~associated \/ (unclaimed = <<>> /\ ~Live(client))
  /\ UNCHANGED <<wifiWasConnected, listening, client, transparentBridgeMode,
                 netVars, serialIn, history>>

\* Mutant: a client that is still connected is served first.
EnterBridgeFirst ==
  /\ pc = "bridge" /\ pc' = "toSerial"
  /\ associated /\ Live(client)
  /\ UNCHANGED <<wifiWasConnected, listening, client, transparentBridgeMode,
                 netVars, serialIn, history>>

EnterBridge ==
  /\ pc = "bridge" /\ pc' = "toSerial"
  /\ associated /\ unclaimed = <<>> /\ Live(client)
  /\ UNCHANGED <<wifiWasConnected, listening, client, transparentBridgeMode,
                 netVars, serialIn, history>>

\* Mutants: the replaced client is not stopped; the last connection of those
\* that wait is taken first.
TakeOverWithoutStop ==
  /\ pc = "bridge" /\ associated /\ unclaimed # <<>>
  /\ client' = Head(unclaimed) /\ unclaimed' = Tail(unclaimed)
  /\ transparentBridgeMode' = TRUE /\ owned' = TRUE
  /\ pc' = IF Live(Head(unclaimed)) THEN "toSerial" ELSE "rest"
  /\ UNCHANGED <<wifiWasConnected, listening, associated, joining, conn,
                 crashed, tcpIn, sent, hostSent, drops, serialIn, lastWritten>>
TakeOverLast ==
  /\ pc = "bridge" /\ associated /\ unclaimed # <<>>
  /\ StopClient
  /\ client' = unclaimed[Len(unclaimed)]
  /\ unclaimed' = SubSeq(unclaimed, 1, Len(unclaimed) - 1)
  /\ transparentBridgeMode' = TRUE /\ owned' = TRUE
  /\ pc' = IF Live(client') THEN "toSerial" ELSE "rest"
  /\ UNCHANGED <<wifiWasConnected, listening, associated, joining, crashed,
                 sent, hostSent, drops, serialIn, lastWritten>>

\* The connection that has waited longest becomes the client.
TakeOver ==
  /\ pc = "bridge" /\ associated /\ unclaimed # <<>>
  /\ StopClient
  /\ client' = Head(unclaimed) /\ unclaimed' = Tail(unclaimed)
  /\ transparentBridgeMode' = TRUE /\ owned' = TRUE
  /\ pc' = IF Live(Head(unclaimed)) THEN "toSerial" ELSE "rest"
  /\ UNCHANGED <<wifiWasConnected, listening, associated, joining, crashed,
                 sent, hostSent, drops, serialIn, lastWritten>>

WriteSerial ==
  /\ pc = "toSerial" /\ tcpIn[client] > 0
  /\ tcpIn' = [tcpIn EXCEPT ![client] = @ - 1]
  /\ lastWritten' = client
  /\ UNCHANGED <<loopVars, associated, joining, unclaimed, conn, crashed, sent,
                 hostSent, drops, serialIn, owned>>

SerialWritten ==
  /\ pc = "toSerial" /\ tcpIn[client] = 0
  /\ pc' = "toPeer"
  /\ UNCHANGED <<wifiWasConnected, listening, client, transparentBridgeMode,
                 netVars, serialIn, history>>

WritePeer ==
  /\ pc = "toPeer" /\ serialIn # <<>>
  /\ serialIn' = Tail(serialIn)
  /\ UNCHANGED <<loopVars, netVars, history>>

PeerWritten ==
  /\ pc = "toPeer" /\ serialIn = <<>>
  /\ pc' = "rest"
  /\ UNCHANGED <<wifiWasConnected, listening, client, transparentBridgeMode,
                 netVars, serialIn, history>>

\* What is left of loop(): with no live client the serial input is read, and
\* read on until it is empty, whatever the network does meanwhile.
LeaveSerial ==
  /\ pc = "rest" /\ Live(client)
  /\ pc' = "wifi"
  /\ UNCHANGED <<wifiWasConnected, listening, client, transparentBridgeMode,
                 netVars, serialIn, history>>

ReadSerial ==
  /\ pc = "rest" /\ ~Live(client)
  /\ pc' = "drain"
  /\ UNCHANGED <<wifiWasConnected, listening, client, transparentBridgeMode,
                 netVars, serialIn, history>>

SerialRead ==
  /\ pc = "drain" /\ serialIn = <<>>
  /\ pc' = "wifi"
  /\ UNCHANGED <<wifiWasConnected, listening, client, transparentBridgeMode,
                 netVars, serialIn, history>>

DiscardSerial ==
  /\ pc = "drain" /\ serialIn # <<>> /\ transparentBridgeMode
  /\ serialIn' = Tail(serialIn)
  /\ UNCHANGED <<loopVars, netVars, history>>

\* A line for the console; all but HANGUP and CONNECT leave the bridge alone.
ConsoleReads(unit) ==
  /\ pc = "drain" /\ serialIn # <<>> /\ ~transparentBridgeMode
  /\ Head(serialIn) = unit
  /\ serialIn' = Tail(serialIn)

ConsoleLine ==
  /\ ConsoleReads("data")
  /\ UNCHANGED <<loopVars, netVars, history>>

Hangup ==
  /\ ConsoleReads("hangup")
  /\ StopClient
  /\ UNCHANGED <<loopVars, associated, joining, unclaimed, crashed, sent,
                 hostSent, drops, history>>

\* connectWifiAndReport, from CONNECT or the last "Y" of a Wi-Fi setup: up to 20
\* seconds, after which the network is joined or the radio told to stop trying.
Connect ==
  /\ ConsoleReads("connect")
  /\ StopClient
  /\ associated' \in BOOLEAN /\ joining' = associated'
  /\ wifiWasConnected' = associated'
  /\ listening' = (listening \/ associated')
  /\ UNCHANGED <<pc, client, transparentBridgeMode, unclaimed, crashed, sent,
                 hostSent, drops, history>>

Console == ConsoleLine \/ Hangup \/ Connect

Loop ==
  \/ ServiceWifi \/ SkipBridge \/ EnterBridge \/ TakeOver \/ WriteSerial
  \/ SerialWritten \/ WritePeer \/ PeerWritten \/ LeaveSerial \/ ReadSerial
  \/ SerialRead \/ DiscardSerial \/ Console

-----------------------------------------------------------------------------
(* The network and the serial host                                          *)

PeerConnects(p) ==
  /\ associated /\ listening
  /\ conn[p] = "none" /\ \A q \in 1 .. p - 1 : conn[q] # "none"
  /\ conn' = [conn EXCEPT ![p] = "open"]
  /\ unclaimed' = Append(unclaimed, p)
  /\ UNCHANGED <<loopVars, associated, joining, crashed, tcpIn, sent, hostSent,
                 drops, serialIn, history>>

PeerSends(p) ==
  /\ associated /\ conn[p] = "open" /\ ~crashed[p] /\ tcpIn[p] < TcpLimit
  /\ sent[p] < Burst
  /\ tcpIn' = [tcpIn EXCEPT ![p] = @ + 1]
  /\ sent' = [sent EXCEPT ![p] = @ + 1]
  /\ UNCHANGED <<loopVars, associated, joining, unclaimed, conn, crashed,
                 hostSent, drops, serialIn, history>>

PeerCloses(p) ==
  /\ associated /\ conn[p] = "open" /\ ~crashed[p]
  /\ conn' = [conn EXCEPT ![p] = "closing"]
  /\ UNCHANGED <<loopVars, associated, joining, unclaimed, crashed, tcpIn,
                 sent, hostSent, drops, serialIn, history>>

\* The peer is gone and the stack goes on reporting it as connected ...
PeerCrashes(p) ==
  /\ conn[p] = "open" /\ ~crashed[p]
  /\ crashed' = [crashed EXCEPT ![p] = TRUE]
  /\ UNCHANGED <<loopVars, associated, joining, unclaimed, conn, tcpIn, sent,
                 hostSent, drops, serialIn, history>>

\* ... until it resets the connection, which it need not do.
StackResets(p) ==
  /\ conn[p] = "open" /\ crashed[p]
  /\ conn' = [conn EXCEPT ![p] = "closed"]
  /\ tcpIn' = [tcpIn EXCEPT ![p] = 0]
  /\ UNCHANGED <<loopVars, associated, joining, unclaimed, crashed, sent,
                 hostSent, drops, serialIn, history>>

RadioDrops ==
  /\ associated /\ drops < MaxDrops
  /\ associated' = FALSE /\ drops' = drops + 1
  /\ UNCHANGED <<loopVars, joining, unclaimed, conn, crashed, tcpIn, sent,
                 hostSent, serialIn, history>>

RadioReturns ==
  /\ joining /\ ~associated
  /\ associated' = TRUE
  /\ UNCHANGED <<loopVars, joining, unclaimed, conn, crashed, tcpIn, sent,
                 hostSent, drops, serialIn, history>>

HostSends(unit) ==
  /\ Len(serialIn) < SerialLimit /\ hostSent < HostUnits
  /\ serialIn' = Append(serialIn, unit) /\ hostSent' = hostSent + 1
  /\ UNCHANGED <<loopVars, associated, joining, unclaimed, conn, crashed,
                 tcpIn, sent, drops, history>>

Environment ==
  \/ RadioDrops \/ RadioReturns
  \/ \E u \in Unit : HostSends(u)
  \/ \E p \in Peer :
       \/ PeerConnects(p) \/ PeerSends(p) \/ PeerCloses(p)
       \/ PeerCrashes(p) \/ StackResets(p)

BridgeNext == Loop \/ Environment

BridgeSpec == BridgeInit /\ [][BridgeNext]_bridgeVars

\* The firmware keeps running, and a radio that keeps trying gets back.
BridgeFairness == WF_bridgeVars(Loop) /\ WF_bridgeVars(RadioReturns)

BridgeFairSpec == BridgeSpec /\ BridgeFairness

-----------------------------------------------------------------------------
(* Properties                                                               *)

BridgeTypeOK ==
  /\ pc \in {"wifi", "bridge", "toSerial", "toPeer", "rest", "drain"}
  /\ associated \in BOOLEAN /\ joining \in BOOLEAN
  /\ wifiWasConnected \in BOOLEAN /\ listening \in BOOLEAN
  /\ transparentBridgeMode \in BOOLEAN /\ owned \in BOOLEAN
  /\ unclaimed \in Seq(Peer) /\ client \in Peer \cup {0}
  /\ conn \in [Peer -> {"none", "open", "closing", "closed"}]
  /\ crashed \in [Peer -> BOOLEAN]
  /\ tcpIn \in [Peer -> 0 .. TcpLimit] /\ sent \in [Peer -> 0 .. Burst]
  /\ serialIn \in Seq(Unit) /\ Len(serialIn) <= SerialLimit
  /\ hostSent \in 0 .. HostUnits /\ drops \in 0 .. MaxDrops
  /\ lastWritten \in Peer \cup {0}

\* Only one connection owns the bridge: one that was replaced is closed, also
\* when the stack had not noticed that its peer was gone.
OneOwner ==
  \A p \in Peer :
    Live(p) => p = client \/ \E i \in 1 .. Len(unclaimed) : unclaimed[i] = p

\* What the loop relies on: connections are numbered and queued in the order in
\* which they came, all that wait are newer than the client, nothing on the
\* serial line is of a newer one, and who claimed the bridge has set the latch.
InOrder ==
  /\ \A p, q \in Peer : q < p /\ conn[p] # "none" => conn[q] # "none"
  /\ \A i \in 1 .. Len(unclaimed) :
       client < unclaimed[i] /\ conn[unclaimed[i]] # "none"
  /\ \A i, j \in 1 .. Len(unclaimed) : i < j => unclaimed[i] < unclaimed[j]
  /\ lastWritten <= client
  /\ client = 0 \/ conn[client] # "none"

Claimed ==
  /\ owned => transparentBridgeMode
  /\ pc \in {"toSerial", "toPeer"} => client # 0

BridgeInv == BridgeTypeOK /\ OneOwner /\ InOrder /\ Claimed

\* Once anything a newer connection sent is on the serial line, nothing of an
\* older one follows, however many connect between two passes of the loop.
TakeoverIsClean == [][lastWritten' >= lastWritten]_bridgeVars

\* From the first claim until reset no serial input is taken for a command,
\* whatever peers and association do.
ConsoleStaysSilent == [][owned => ~Console]_bridgeVars

\* The newest connection gets the bridge, or closes, or is superseded, or the
\* radio is given up, also when the present owner is dead but still reported as
\* connected.
Newest(p) ==
  /\ joining /\ conn[p] = "open"
  /\ \A q \in p + 1 .. Peers : conn[q] = "none"
NewestOwns == \A p \in Peer : Newest(p) ~> (client = p \/ ~Newest(p))
=============================================================================
