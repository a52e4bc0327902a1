------------------------------- MODULE E1000 -------------------------------
(* The network card and its driver (src/drivers/e1000.c): a ring of receive *)
(* descriptors the card fills and the driver empties when it polls, and a   *)
(* ring of transmit descriptors used one at a time, all over one buffer.    *)
EXTENDS Peers

CONSTANTS RX_RING_SIZE, TX_RING_SIZE,
          MaxRx      \* bound: frames that arrive; one that the card does not
                     \* send in time stands for two of them

VARIABLES rx,    \* receive ring: descriptors with DD set hold a frame; RDH, RDT
          tx,    \* transmit ring: TDH, TDT, tx_cur, and tx_buf until it is sent
          net,   \* frames on their way to the machine, for ever
          due    \* the frames that have arrived and not been read, in order

nic == <<rx, tx, net, due>>

Budget == MaxRx - rx.count - 2 * tx.late

RxNext(i) == (i + 1) % RX_RING_SIZE
TxNext(i) == (i + 1) % TX_RING_SIZE

\* e1000_init_one: every receive descriptor but one belongs to the card, every
\* transmit descriptor to the driver.  sent: what has been put on the wire for
\* the machine since.
e1000_init(sent) ==
    /\ rx = [ring |-> [i \in 0..RX_RING_SIZE - 1 |-> NoFrame],
             head |-> 0, tail |-> RX_RING_SIZE - 1, cur |-> 0, count |-> 0]
    /\ tx = [buf |-> NoFrame, mac |-> ANY, head |-> 0, tail |-> 0, cur |-> 0,
             late |-> 0]
    /\ net = sent
    /\ due = <<>>

\* e1000_send: the card sends the frame at once, or the polling loop runs out.
\* The driver then stays on the descriptor the card still holds; when the card
\* has sent it after all, a new tail that is the old one tells it nothing.
e1000_send(f, mac) ==
    LET next == TxNext(tx.cur)
        t == [tx EXCEPT !.buf = f, !.mac = mac, !.tail = next]
    IN  \/ /\ t.head # next
           /\ tx' = [tx EXCEPT !.tail = next, !.head = next, !.cur = next]
           /\ net' = net \cup Answers(f, mac)
        \/ /\ t.head # next /\ Budget >= 2
           /\ tx' = [t EXCEPT !.late = @ + 1]
           /\ UNCHANGED net
        \/ /\ t.head = next
           /\ UNCHANGED tx
           /\ UNCHANGED net

\* The card sends what it had not sent in time: by then tx_buf may hold a
\* newer frame.
SendLate ==
    /\ tx.head # tx.tail
    /\ tx' = [tx EXCEPT !.head = tx.tail, !.buf = NoFrame, !.mac = ANY]
    /\ net' = net \cup Answers(tx.buf, tx.mac)
    /\ UNCHANGED <<rx, due>>

\* A frame arrives and the card has a descriptor for it.
Arrive(f) ==
    /\ Budget > 0
    /\ rx.head # rx.tail
    /\ rx' = [rx EXCEPT !.ring[rx.head] = f, !.head = RxNext(@), !.count = @ + 1]
    /\ due' = Append(due, f)
    /\ UNCHANGED <<tx, net>>

HandBackNext(cur) == RxNext(cur)

\* The descriptor e1000_recv writes to RDT.
HandBack(cur) == cur

\* e1000_recv of a frame that is there.
Received == rx.ring[rx.cur] # NoFrame

e1000_recv ==
    /\ Received
    /\ rx' = [rx EXCEPT !.ring[rx.cur] = NoFrame, !.cur = RxNext(@),
                        !.tail = HandBack(rx.cur)]
    /\ due' = Tail(due)

---------------------------------------------------------------------------
\* The frames that have arrived are in the ring in their order from rx_cur on,
\* nothing behind them looks received, and while fewer than RX_RING_SIZE - 1
\* wait the card has a descriptor to fill (e1000_recv, e1000.c:264-283).
RxInOrder ==
    /\ \A i \in 1..Len(due) :
          rx.ring[(rx.cur + i - 1) % RX_RING_SIZE] = due[i]
    /\ rx.ring[(rx.cur + Len(due)) % RX_RING_SIZE] = NoFrame
    /\ Len(due) < RX_RING_SIZE - 1 => rx.head # rx.tail
=============================================================================
