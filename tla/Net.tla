-------------------------------- MODULE Net --------------------------------
(* The network stack: src/net/net.c, arp.c, ip.c, udp.c, icmp.c, dhcp.c.    *)
(*                                                                          *)
(* Nothing runs in the background: frames are only read by net_poll, which  *)
(* the waiting loops of dhcp_discover, icmp_ping and arp_resolve call.  A   *)
(* frame read there may be an echo request whose answer needs an address    *)
(* that has to be resolved first, by another such loop inside net_poll.     *)
(* nest is the stack of those calls.                                        *)
EXTENDS E1000

CONSTANTS ARP_CACHE_SIZE,
          MaxCommands    \* bound: dhcp and ping commands typed

VARIABLES frame,   \* eth_rx_frame, while a call of ip_send waits
          arp,     \* arp_cache and arp_cache_next
          cfg,     \* net_ip, net_mask and net_gw, each by the server it is from
          dhcp,    \* the statics of dhcp.c
          icmp,    \* the statics of icmp.c
          nest,    \* calls of ip_send waiting in arp_resolve, innermost last
          op       \* the command in progress, and whether net_poll has returned

vars == <<nic, frame, arp, cfg, dhcp, icmp, nest, op>>

net_ip == IF cfg.ip = NoServer THEN ANY ELSE Lease(cfg.ip)

\* Every frame leaves through one buffer, eth_tx_frame, which the driver copies.
eth_send(f, mac) == e1000_send(f, mac)

---------------------------------------------------------------------------
(* arp.c                                                                   *)

Cached(ip) == {i \in DOMAIN arp.cache : arp.cache[i].ip = ip}

Lookup(ip) == arp.cache[CHOOSE i \in Cached(ip) :
                           \A j \in Cached(ip) : i <= j].mac

Evict(ip, mac) ==
    [cache |-> [arp.cache EXCEPT ![arp.next] = [ip |-> ip, mac |-> mac]],
     next |-> (arp.next + 1) % ARP_CACHE_SIZE]

\* The first entry of the address, or else the oldest one.
arp_insert(ip, mac) ==
    IF Cached(ip) = {} THEN Evict(ip, mac)
    ELSE [arp EXCEPT !.cache[CHOOSE i \in Cached(ip) :
                                \A j \in Cached(ip) : i <= j].mac = mac]

arp_send_request(ip) == eth_send(Frame("arp_request", net_ip, ANY, ip), BCAST)

\* An ARP frame: its sender is learnt, and answered when it asks for us.
arp_handle(f) ==
    /\ arp' = arp_insert(f.src, f.src)
    /\ IF f.type = "arp_request" /\ net_ip # ANY /\ f.arg = net_ip
       THEN eth_send(Frame("arp_reply", net_ip, f.src, ANY), f.src)
       ELSE UNCHANGED <<tx, net>>

---------------------------------------------------------------------------
(* ip.c: addresses are passed as pointers.  RX points to the sender of the  *)
(* frame in eth_rx_frame, GW to net_gw.                                     *)

RX == "sender in eth_rx_frame"
GW == "net_gw"

\* What a pointer points to while eth_rx_frame holds f.  In an ARP frame the
\* bytes at that place are the end of a MAC and the beginning of an address:
\* nobody's address.
Deref(p, f) ==
    CASE p = RX -> IF f.type \in ArpTypes THEN ANY ELSE f.src
      [] p = GW -> IF cfg.gw = NoServer THEN ANY ELSE cfg.gw
      [] OTHER -> p

\* The IP packet of a call, built once the address is resolved: its receiver
\* and the payload are read from memory only then.
Packet(call, f, payload) ==
    IF call.type = "echo_reply"
    THEN Echo(call.type, net_ip, Deref(call.dst, f), payload.reply, 0)
    ELSE Echo(call.type, net_ip, Deref(call.dst, f), net_ip, payload.seq)

\* ip_send to one host: a hit in the cache sends the packet, a miss sends a
\* request and waits.
ip_send(call, f, payload) ==
    LET hop == Deref(call.hop, f)
    IN  IF net_ip = ANY THEN UNCHANGED <<tx, net, nest>>
        ELSE IF Cached(hop) # {}
        THEN eth_send(Packet(call, f, payload), Lookup(hop)) /\ UNCHANGED nest
        ELSE arp_send_request(hop) /\ nest' = Append(nest, call)

\* The servers of the link give the same mask.  Without one, every address
\* looks like one of the link.
OnSubnet(ip) == cfg.mask = NoServer \/ ip \notin Far

\* A call of ip_send by net_poll or by a command, for the pointer dst.
Call(type, dst, f, poll) ==
    [type |-> type, dst |-> dst, poll |-> poll,
     hop |-> IF OnSubnet(Deref(dst, f)) THEN dst ELSE GW]

---------------------------------------------------------------------------
(* icmp.c and dhcp.c: frames for us                                         *)

AnyReply(f) == icmp.waiting

\* The reply icmp_ping waits for.
OurReply(f) == icmp.waiting /\ f.seq = icmp.seq

icmp_handle(f) ==
    /\ IF f.type = "echo_reply"
       THEN /\ icmp' = [icmp EXCEPT !.got = @ \/ OurReply(f)]
            /\ UNCHANGED <<tx, net, nest>>
       ELSE /\ icmp' = [icmp EXCEPT !.reply = f.arg]
            /\ ip_send(Call("echo_reply", RX, f, TRUE), f, icmp')
    /\ UNCHANGED dhcp

\* dhcp_parse_options: what the message has replaces what was there.
Parsed(f) ==
    [dhcp EXCEPT !.mask = IF "mask" \in f.opts THEN f.src ELSE @,
                 !.gw = IF "router" \in f.opts THEN f.src ELSE @,
                 !.server = IF "server" \in f.opts THEN f.src ELSE @]

AddressOfAny(f) ==
    /\ dhcp' = [Parsed(f) EXCEPT !.ip = f.arg, !.offer = @ \/ f.type = "offer",
                                 !.ack = @ \/ f.type = "ack"]
    /\ UNCHANGED <<icmp, tx, net, nest>>

\* The options of every message are taken, the address of an offer or an
\* acknowledgement only.
dhcp_recv(f) ==
    /\ dhcp' = CASE f.type = "offer" -> [Parsed(f) EXCEPT !.ip = f.arg, !.offer = TRUE]
                 [] f.type = "ack" -> [Parsed(f) EXCEPT !.ip = f.arg, !.ack = TRUE]
                 [] OTHER -> Parsed(f)
    /\ UNCHANGED <<icmp, tx, net, nest>>

\* The one handler that udp_register has put in the table is that of port 68.
udp_handle(f) == dhcp_recv(f)

\* Frames for another address are dropped.
ip_recv(f) ==
    IF f.dst \notin {net_ip, BCAST} THEN UNCHANGED <<icmp, dhcp, tx, net, nest>>
    ELSE IF f.type \in {"offer", "ack", "nak"} THEN udp_handle(f)
    ELSE icmp_handle(f)

---------------------------------------------------------------------------
(* The waiting loops                                                       *)

\* net_poll with a frame in the ring.  It returns unless the frame started a
\* call of ip_send that waits.
net_poll ==
    /\ op.name # "idle" /\ ~op.polled
    /\ e1000_recv
    /\ LET f == rx.ring[rx.cur]
       IN  /\ IF f.type \in ArpTypes
              THEN arp_handle(f) /\ UNCHANGED <<icmp, dhcp, nest>>
              ELSE ip_recv(f) /\ UNCHANGED arp
           /\ frame' = IF nest' = <<>> THEN NoFrame ELSE f
    /\ op' = [op EXCEPT !.polled = nest' = nest]
    /\ UNCHANGED cfg

\* The end of a call of ip_send: back into the loop that polled, or to
\* icmp_ping, whose loop begins.
Popped ==
    /\ nest' = SubSeq(nest, 1, Len(nest) - 1)
    /\ frame' = IF nest' = <<>> THEN NoFrame ELSE frame
    /\ op' = [op EXCEPT !.polled = nest[Len(nest)].poll]

\* The loop of arp_resolve looks into the cache after each net_poll.
arp_resolve ==
    /\ nest # <<>> /\ op.polled
    /\ LET call == nest[Len(nest)]
           hop == Deref(call.hop, frame)
       IN  IF Cached(hop) # {}
           THEN eth_send(Packet(call, frame, icmp), Lookup(hop)) /\ Popped
           ELSE /\ op' = [op EXCEPT !.polled = FALSE]
                /\ UNCHANGED <<tx, net, nest, frame>>
    /\ UNCHANGED <<rx, due, arp, cfg, dhcp, icmp>>

\* arp_resolve as a loop without a deadline.
NeverTimesOut == FALSE

\* Its deadline passes and ip_send gives up.
arp_timeout ==
    /\ nest # <<>> /\ ~op.polled
    /\ Popped
    /\ UNCHANGED <<nic, arp, cfg, dhcp, icmp>>

Idle == [op EXCEPT !.name = "idle", !.polled = FALSE]

\* A datagram to everybody needs no address resolved, and none of our own.
udp_send(f) == eth_send(f, BCAST)

\* A request names the server and the address last read, whichever messages
\* they came in; a discover names nobody.
dhcp_send(type) ==
    udp_send(IF type = "request" THEN FromClient(type, net_ip, dhcp.server, dhcp.ip)
             ELSE Frame(type, net_ip, BCAST, ANY))

\* dhcp_discover, from boot or from the command.
dhcp_discover ==
    /\ op.name = "idle" /\ op.count < MaxCommands
    /\ op' = [op EXCEPT !.name = "offer", !.count = @ + 1]
    /\ dhcp' = [dhcp EXCEPT !.offer = FALSE, !.ack = FALSE]
    /\ dhcp_send("discover")
    /\ UNCHANGED <<rx, due, frame, arp, cfg, icmp, nest>>

\* After a net_poll of the first loop: DHCPREQUEST once there is an offer.
dhcp_offer ==
    /\ op.name = "offer" /\ op.polled /\ nest = <<>>
    /\ IF dhcp.offer
       THEN /\ dhcp_send("request")
            /\ op' = [op EXCEPT !.name = "ack", !.polled = FALSE]
       ELSE op' = [op EXCEPT !.polled = FALSE] /\ UNCHANGED <<tx, net>>
    /\ UNCHANGED <<rx, due, frame, arp, cfg, dhcp, icmp, nest>>

\* dhcp_discover returns 0 and net_up is set, or it returns -1.
Applied ==
    /\ cfg' = [ip |-> dhcp.ip, mask |-> dhcp.mask, gw |-> dhcp.gw]
    /\ op' = [Idle EXCEPT !.up = TRUE]

\* After a net_poll of the second loop.
dhcp_ack ==
    /\ op.name = "ack" /\ op.polled /\ nest = <<>>
    /\ IF dhcp.ack THEN Applied
       ELSE op' = [op EXCEPT !.polled = FALSE] /\ UNCHANGED cfg
    /\ UNCHANGED <<nic, frame, arp, dhcp, icmp, nest>>

\* One of the two loops comes to its deadline.
dhcp_timeout ==
    /\ op.name \in {"offer", "ack"} /\ ~op.polled /\ nest = <<>>
    /\ IF op.name = "ack" /\ dhcp.ack THEN Applied
       ELSE op' = Idle /\ UNCHANGED cfg
    /\ UNCHANGED <<nic, frame, arp, dhcp, icmp, nest>>

\* icmp_ping up to its loop.
icmp_ping ==
    /\ op.name = "idle" /\ op.up /\ op.count < MaxCommands
    /\ op' = [op EXCEPT !.name = "ping", !.count = @ + 1]
    /\ icmp' = [icmp EXCEPT !.seq = @ + 1, !.got = FALSE, !.waiting = TRUE]
    /\ \E h \in Near \cup Far :
          ip_send(Call("echo_request", h, frame, FALSE), frame, icmp')
    /\ UNCHANGED <<rx, due, frame, arp, cfg, dhcp>>

\* Its loop after a net_poll, and at its deadline.
ping_check ==
    /\ op.name = "ping" /\ op.polled /\ nest = <<>>
    /\ IF icmp.got
       THEN op' = Idle /\ icmp' = [icmp EXCEPT !.waiting = FALSE]
       ELSE op' = [op EXCEPT !.polled = FALSE] /\ UNCHANGED icmp
    /\ UNCHANGED <<nic, frame, arp, cfg, dhcp, nest>>

ping_timeout ==
    /\ op.name = "ping" /\ ~op.polled /\ nest = <<>>
    /\ op' = Idle
    /\ icmp' = [icmp EXCEPT !.waiting = FALSE]
    /\ UNCHANGED <<nic, frame, arp, cfg, dhcp, nest>>

---------------------------------------------------------------------------
\* At the call of net_init, or at the prompt when the first dhcp_discover has
\* got the lease of s.
Lost == [ip |-> NoServer, mask |-> NoServer, gw |-> NoServer]
Leased(s) == [ip |-> s, mask |-> s, gw |-> s]

Start(lease, up, sent) ==
    /\ e1000_init(sent)
    /\ cfg = lease
    /\ dhcp = [offer |-> up, ack |-> up, ip |-> lease.ip, mask |-> lease.mask,
               gw |-> lease.gw, server |-> lease.ip]
    /\ op = [name |-> "idle", polled |-> FALSE, up |-> up, count |-> 0]

Init ==
    /\ frame = NoFrame
    /\ arp = [cache |-> [i \in 0..ARP_CACHE_SIZE - 1 |->
                            [ip |-> NoServer, mac |-> NoServer]], next |-> 0]
    /\ icmp = [waiting |-> FALSE, got |-> FALSE, seq |-> 0, reply |-> NoServer]
    /\ nest = <<>>
    /\ \/ Start(Lost, FALSE, {})
       \/ LET s == CHOOSE s \in Routers : TRUE
          IN  Start(Leased(s), TRUE,
                    {Offer(t) : t \in Servers} \cup Acks(s) \cup {Refusal(s)})

Stack == net_poll \/ arp_resolve \/ arp_timeout \/ dhcp_offer \/ dhcp_ack
         \/ dhcp_timeout \/ ping_check \/ ping_timeout

\* What the card does while a loop looks at its condition it might as well do
\* before or after.  Bound: nothing arrives after the last command.
Wire ==
    /\ ~op.polled
    /\ op.name # "idle" \/ op.count < MaxCommands
    /\ SendLate \/ \E f \in net \cup HostFrames(net_ip) : Arrive(f)
    /\ UNCHANGED <<frame, arp, cfg, dhcp, icmp, nest, op>>

Next == Stack \/ dhcp_discover \/ icmp_ping \/ Wire

\* The clock runs and the processor is not taken away for ever.
Spec == Init /\ [][Next]_vars /\ WF_vars(Stack)

---------------------------------------------------------------------------
\* A ping that succeeds was answered: the reply it took is one to the request
\* of this very call, however late the replies to earlier ones come
\* (icmp_handle, icmp.c:23-24).
PingAnswered ==
    icmp.got => \E f \in net : f.type = "echo_reply" /\ f.seq = icmp.seq

\* An address in use is one that its server gave us, in an offer or in an
\* acknowledgement: whatever else the servers sent in between, the stack is
\* never up without one (dhcp_recv, dhcp.c:73-83; dhcp_discover, dhcp.c:160-163).
AddressGiven ==
    op.up => \E f \in net : f.type \in {"offer", "ack"} /\ f.arg = cfg.ip

\* Every dhcp and ping command comes to an end, however deep the frames that
\* arrive (MaxRx of them) nest the waiting loops
\* (dhcp.c:144-157, icmp.c:71-80, arp.c:99-104).
CommandEnds == op.name # "idle" ~> op.name = "idle"
=============================================================================
