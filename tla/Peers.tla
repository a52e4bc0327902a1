------------------------------- MODULE Peers -------------------------------
(* The machines at the other end of the cable, and the frames.  External    *)
(* to the sources: they answer as their protocols say.  A frame may come    *)
(* late, twice, out of order or never.                                      *)
EXTENDS Integers, Sequences, FiniteSets

CONSTANTS Near,      \* hosts on the same link
          Far,       \* hosts behind a gateway
          Servers,   \* DHCP servers
          Routers    \* those that route, and are the gateway of their leases

Hosts == Near \cup Far \cup Servers
OnLink == Near \cup Servers

ANY == "0.0.0.0"
BCAST == "255.255.255.255"

\* The address a server leases to us.
Lease(s) == "leased by " \o s

NoServer == "none"

\* A frame: type, sender's and receiver's address, the address it is about,
\* the sequence number of an echo, and what the options of a DHCP message hold.
Frame(type, src, dst, arg) ==
    [type |-> type, src |-> src, dst |-> dst, arg |-> arg, seq |-> 0, opts |-> {}]

Echo(type, src, dst, arg, seq) == [Frame(type, src, dst, arg) EXCEPT !.seq = seq]

\* A client's message names a server, and the server whose lease it asks for.
FromClient(type, src, server, asked) ==
    [Frame(type, src, BCAST, server) EXCEPT !.opts = {asked}]

\* A server's message always names the server.
FromServer(type, s, lease, opts) ==
    [Frame(type, s, BCAST, lease) EXCEPT !.opts = {"server"} \cup opts]

\* What a server has to give besides the address.  A discover asks for it; a
\* request does not, and its acknowledgement may come without.
Configured(s) == IF s \in Routers THEN {"mask", "router"} ELSE {}

Offer(s) == FromServer("offer", s, s, Configured(s))

Acks(s) == {FromServer("ack", s, s, opts) : opts \in {{}, Configured(s)}}

Refusal(s) == FromServer("nak", s, NoServer, {})

NoFrame == Frame("none", ANY, ANY, ANY)

ArpTypes == {"arp_request", "arp_reply"}

\* What comes back for a frame the machine sends; mac is the card it is
\* addressed to.
Answers(f, mac) ==
    CASE f.type = "arp_request" /\ f.arg \in OnLink ->
            {Frame("arp_reply", f.arg, f.src, ANY)}
      [] f.type = "echo_request" /\ f.dst \in Hosts
         /\ (mac = f.dst \/ (f.dst \in Far /\ mac \in Routers)) ->
            {Echo("echo_reply", f.dst, f.src, f.arg, f.seq)}
      [] f.type = "discover" -> {Offer(s) : s \in Servers}
      [] f.type = "request" /\ f.arg \in Servers ->
            {Refusal(f.arg)}
            \cup (IF f.arg \in f.opts THEN Acks(f.arg) ELSE {})
      [] OTHER -> {}

\* What the hosts send of themselves, to the address they know the machine by
\* or else to all.
HostFrames(ip) ==
    IF ip = ANY THEN {Frame("echo_request", h, BCAST, h) : h \in Near}
    ELSE {Frame("echo_request", h, ip, h) : h \in Near \cup Far}
         \cup {Frame("arp_request", h, ip, ip) : h \in Near}
=============================================================================
