-------------------------------- MODULE Usb --------------------------------
(* xHCI enumeration and the HID endpoints: src/drivers/xhci.c, usbhid.c.    *)
(*                                                                          *)
(* The driver produces TRBs on a command ring, on one EP0 ring for each     *)
(* slot and on one ring for each HID device; the controller consumes them   *)
(* and produces events on the one event ring.  A TRB belongs to the         *)
(* consumer while its cycle bit is the consumer's; producer and consumer    *)
(* flip theirs as they pass the end.  Boot code waits on the event ring for *)
(* any event of a type; from the first HID device on, the timer interrupt   *)
(* takes events from the same ring.                                         *)
EXTENDS DriverState, Integers, Sequences, FiniteSets

CONSTANTS Ports,       \* root hub ports, 1..num_ports
          CmdRing,     \* XHCI_RING_SIZE: TRBs of the command ring (64)
          EvtRing,     \* XHCI_RING_SIZE: TRBs of the event ring (64)
          XferRing,    \* XHCI_RING_SIZE: TRBs of a transfer ring (64)
          HidRingSize, \* HID_RING_SZ (16)
          MaxDev,      \* USB_MAX_DEV
          MaxHid,      \* USBHID_MAX_DEV
          Attached,    \* what may be on the ports: kind of device, and
                       \* whether its packet size has to be evaluated
          MaxReports,  \* bound: reports the HID devices send
          MaxErrors,   \* bound: commands and transfers that fail
          Lag          \* bound: EP0 TRBs the controller is behind

Slots == Ports                      \* as many as devices
Hids == 0..MaxHid - 1

---------------------------------------------------------------------------
(* Rings.                                                                  *)

Trb(type, arg, cycle) == [type |-> type, arg |-> arg, cycle |-> cycle]

\* ring_init at offset base of an array: zeroes, and a link at the end whose
\* cycle bit is 0.
ring_init(cells, base, size) ==
    [i \in DOMAIN cells |->
        IF i \notin base..(base + size - 1) THEN cells[i]
        ELSE IF i = base + size - 1 THEN Trb("link", base, 0)
        ELSE Trb("zero", 0, 0)]

Cells(n) == [i \in 0..n - 1 |-> Trb("zero", 0, 0)]

NewRing(size) == ring_init(Cells(size), 0, size)

Start == [pos |-> 0, cs |-> 1]

\* Write a cell; one outside the array is another variable's memory.
Put(cells, i, trb) == IF i \in DOMAIN cells THEN [cells EXCEPT ![i] = trb]
                      ELSE cells

LinkLeft(cells, i, cs) == cells

\* The link TRB handed to the controller: type, toggle and cycle are written,
\* its pointer is what it was.
Linked(cells, i, cs) ==
    IF i \in DOMAIN cells THEN [cells EXCEPT ![i] = Trb("link", @.arg, cs)]
    ELSE cells

\* ring_enqueue: the array and the producer after one TRB.
ring_enqueue(r, base, size, type, arg) ==
    LET put == Put(r.cells, base + r.p.pos, Trb(type, arg, r.p.cs))
    IN  IF r.p.pos + 1 < size - 1
        THEN [cells |-> put, p |-> [r.p EXCEPT !.pos = @ + 1]]
        ELSE [cells |-> Linked(put, base + size - 1, r.p.cs),
              p |-> [pos |-> 0, cs |-> 1 - r.p.cs]]

\* The cell a consumer at c stands on is its own.
Live(cells, c) == c.pos \in DOMAIN cells /\ cells[c.pos].cycle = c.cs

\* A consumer after the cell it stands on.
Passed(cells, c) ==
    IF cells[c.pos].type = "link"
    THEN [pos |-> cells[c.pos].arg, cs |-> 1 - c.cs]
    ELSE [c EXCEPT !.pos = @ + 1]

---------------------------------------------------------------------------
(* Initial state: xhci_init has reset the controller and set up its rings. *)

NoEvent == [type |-> "none", slot |-> 0, ep |-> "", cc |-> "", cycle |-> 0]

usb_Init ==
    /\ drv = [phase |-> "scan", at |-> 1, step |-> "port", waiting |-> FALSE,
              ev |-> NoEvent, slot |-> 0, cmd |-> Start,
              ep0 |-> [s \in Slots |-> Start], hid |-> [h \in Hids |-> Start],
              evt |-> Start, devs |-> <<>>, hids |-> <<>>]
    /\ mem = [cmd |-> NewRing(CmdRing), ep0 |-> [s \in Slots |-> Cells(XferRing)],
              hid |-> Cells(MaxHid * HidRingSize),
              evt |-> [i \in 0..EvtRing - 1 |-> NoEvent],
              ctrl |-> [head |-> 0, body |-> 0], cfg |-> [head |-> 0, body |-> 0]]
    /\ \E at \in Attached :
          dev = [kind |-> at.kind, eval |-> at.eval, cmd |-> Start,
                 ep0 |-> [s \in Slots |-> Start], int |-> [s \in Slots |-> Start],
                 on |-> {}, halted |-> {}, port |-> [s \in Slots |-> 0],
                 used |-> {}, evt |-> Start, reports |-> 0, errors |-> 0]

---------------------------------------------------------------------------
(* The event ring.                                                         *)

EventHere == mem.evt[drv.evt.pos].cycle = drv.evt.cs

\* The consumer after one event.
Advanced(e) ==
    IF e.pos + 1 = EvtRing THEN [pos |-> 0, cs |-> 1 - e.cs]
    ELSE [e EXCEPT !.pos = @ + 1]

\* There is room for an event behind the dequeue pointer.
Room == (dev.evt.pos + 1) % EvtRing # drv.evt.pos

\* The controller posts an event, in state d, with memory m.
Post(d, m, type, slot, ep, cc) ==
    /\ mem' = [m EXCEPT !.evt[d.evt.pos] =
                  [type |-> type, slot |-> slot, ep |-> ep, cc |-> cc,
                   cycle |-> d.evt.cs]]
    /\ dev' = [d EXCEPT !.evt = Advanced(@)]

---------------------------------------------------------------------------
(* xhci_scan_devices and usbhid_init, step by step.                        *)

CmdSteps == {"enable_slot", "address", "evaluate", "configure_ep"}

\* The type of event a step waits for.
Expected(step) == IF step \in CmdSteps THEN "cmd" ELSE "xfer"

\* The device usbhid_init is at.
Ud == drv.devs[drv.at]

Slot == IF drv.phase = "scan" THEN drv.slot ELSE Ud.slot

\* The next port, or on to usbhid_init; the next device, or on to the prompt.
NextPort(d) ==
    IF d.at < Cardinality(Ports) THEN [d EXCEPT !.at = @ + 1, !.step = "port"]
    ELSE [d EXCEPT !.phase = "hid", !.at = 1, !.step = "device"]

NextDevice(d) == [d EXCEPT !.at = @ + 1, !.step = "device"]

\* The TRBs of a control transfer with or without a data stage.
Stages(step) ==
    CASE step = "desc8"  -> <<"setup", "data", "status">>
      [] step = "desc18" -> <<"setup", "data", "status">>
      [] step = "cfg9"   -> <<"setup", "data", "status">>
      [] step = "cfg"    -> IF mem.cfg.head = 0 THEN <<"setup", "status">>
                            ELSE <<"setup", "data", "status">>
      [] OTHER -> <<"setup", "status">>

\* control_xfer: the TRBs, then the doorbell.
control_xfer ==
    LET r0 == [cells |-> mem.ep0[Slot], p |-> drv.ep0[Slot]]
        s == Stages(drv.step)
        r1 == ring_enqueue(r0, 0, XferRing, s[1], drv.step)
        r2 == ring_enqueue(r1, 0, XferRing, s[2], drv.step)
        r3 == IF Len(s) = 3 THEN ring_enqueue(r2, 0, XferRing, s[3], drv.step) ELSE r2
    IN  /\ mem' = [mem EXCEPT !.ep0[Slot] = r3.cells]
        /\ drv' = [drv EXCEPT !.ep0[Slot] = r3.p, !.waiting = TRUE]

\* cmd_enqueue and cmd_doorbell.  The ring of a HID device is made before its
\* endpoint is configured.
HidBase == Len(drv.hids) * HidRingSize

Prepared ==
    IF drv.step = "configure_ep"
    THEN [mem EXCEPT !.hid = ring_init(@, HidBase, HidRingSize)] ELSE mem

Argument ==
    CASE drv.step = "enable_slot" -> [slot |-> 0]
      [] drv.step = "address" -> [slot |-> drv.slot, port |-> drv.at]
      [] drv.step = "evaluate" -> [slot |-> drv.slot]
      [] drv.step = "configure_ep" -> [slot |-> Ud.slot, ring |-> HidBase]

cmd_enqueue ==
    LET r == ring_enqueue([cells |-> mem.cmd, p |-> drv.cmd], 0, CmdRing,
                          drv.step, Argument)
    IN  /\ mem' = [Prepared EXCEPT !.cmd = r.cells]
        /\ drv' = [drv EXCEPT !.cmd = r.p, !.waiting = TRUE,
                     !.hid = IF drv.step = "configure_ep"
                             THEN [@ EXCEPT ![Len(drv.hids)] = Start] ELSE @]

NotFarBehind ==
    \A s \in Slots : dev.port[s] # 0 /\ s \notin dev.halted =>
        (drv.ep0[s].pos - dev.ep0[s].pos) % (XferRing - 1) <= Lag

Issue ==
    /\ ~drv.waiting
    /\ NotFarBehind
    /\ drv.phase # "run"
    /\ drv.step \notin {"port", "device"}
    /\ IF drv.step \in CmdSteps THEN cmd_enqueue ELSE control_xfer
    /\ UNCHANGED dev

\* probe_port up to the speed: no device, or gone during the reset, or a
\* reset that the controller reports with an event of its own.
probe_port ==
    /\ drv.phase = "scan" /\ drv.step = "port"
    /\ \/ /\ drv' = NextPort(drv)
          /\ UNCHANGED <<mem, dev>>
       \/ /\ dev.kind[drv.at] # "none"
          /\ drv' = [drv EXCEPT !.step = "enable_slot"]
          /\ IF Room THEN Post(dev, mem, "port", 0, "", "success")
             ELSE UNCHANGED <<mem, dev>>

\* The head of the loop of usbhid_init.
usbhid_init ==
    /\ drv.phase = "hid" /\ drv.step = "device"
    /\ drv' = IF drv.at <= Len(drv.devs) /\ Len(drv.hids) < MaxHid
              THEN [drv EXCEPT !.step = "cfg9"]
              ELSE [drv EXCEPT !.phase = "run"]
    /\ UNCHANGED <<mem, dev>>

\* find_hid_boot_ep on what cfg_buf holds.
FindHid ==
    /\ mem.cfg.head # 0 /\ mem.cfg.body # 0
    /\ dev.kind[mem.cfg.body] = "keyboard"

\* hid_enqueue_trb for HID device h.
hid_enqueue_trb(m, d, h) ==
    LET r == ring_enqueue([cells |-> m.hid, p |-> d.hid[h]], h * HidRingSize,
                          XferRing, "normal", h)
    IN  /\ mem' = [m EXCEPT !.hid = r.cells]
        /\ drv' = [d EXCEPT !.hid[h] = r.p]

\* The record probe_port makes of a device: vid, pid and class come from the
\* bytes of ctrl_buf behind the eighth.
Recorded(d) ==
    [d EXCEPT !.devs = Append(@, [slot |-> d.slot, port |-> d.at,
                                  desc |-> mem.ctrl.body]),
              !.step = "set_config"]

\* probe_port: what follows the event a step waited for, with completion
\* code cc.  A failure leaves the port, but not that of Evaluate Context or of
\* Set Configuration.
ScanNext(d, ok, slot) ==
    LET To(step) == [d EXCEPT !.step = step]
    IN  IF drv.step = "enable_slot" /\ ok /\ slot # 0
        THEN /\ drv' = [d EXCEPT !.slot = slot, !.step = "address",
                                 !.ep0[slot] = Start]
             /\ mem' = [mem EXCEPT !.ep0[slot] = NewRing(XferRing)]
        ELSE /\ drv' =
                  CASE drv.step = "address" /\ ok -> To("desc8")
                    [] drv.step = "desc8" /\ ok ->
                         IF mem.ctrl.head = 0 \/ dev.eval[mem.ctrl.head]
                         THEN To("evaluate") ELSE To("desc18")
                    [] drv.step = "evaluate" -> To("desc18")
                    [] drv.step = "desc18" /\ ok /\ Len(d.devs) < MaxDev ->
                         Recorded(d)
                    [] OTHER -> NextPort(d)
             /\ UNCHANGED mem

\* usbhid_init, likewise.  The results of the two class requests are ignored.
HidNext(d, ok) ==
    LET To(step) == [d EXCEPT !.step = step]
    IN  IF drv.step = "configure_ep" /\ ok
        THEN hid_enqueue_trb(mem,
                 NextDevice([d EXCEPT !.hids = Append(@, Ud.slot)]),
                 Len(d.hids))
        ELSE /\ drv' =
                  CASE drv.step = "cfg9" /\ ok -> To("cfg")
                    [] drv.step = "cfg" /\ ok /\ FindHid -> To("set_protocol")
                    [] drv.step = "set_protocol" -> To("set_idle")
                    [] drv.step = "set_idle" -> To("configure_ep")
                    [] OTHER -> NextDevice(d)
             /\ UNCHANGED mem

Proceed(d0, cc, slot) ==
    LET d == [d0 EXCEPT !.waiting = FALSE, !.ev = NoEvent]
    IN  IF drv.phase = "scan" THEN ScanNext(d, cc = "success", slot)
        ELSE HidNext(d, cc = "success")

\* An event the step is waiting for: only its type is looked at.
OfType(ev) == ev.type = Expected(drv.step)

\* evt_poll moves on from an event it has copied; wait_event drops it when it
\* is not of the type.
Take(ev) ==
    LET d == [drv EXCEPT !.evt = Advanced(@), !.ev = NoEvent]
    IN  IF OfType(ev) THEN Proceed(d, ev.cc, ev.slot)
        ELSE drv' = d /\ UNCHANGED mem

\* Before there is a HID device no one else takes events ...
evt_poll ==
    /\ drv.waiting /\ EventHere
    /\ drv.hids = <<>>
    /\ Take(mem.evt[drv.evt.pos])
    /\ UNCHANGED dev

\* ... afterwards the timer interrupt may come between the copy
evt_copy ==
    /\ drv.waiting /\ EventHere
    /\ drv.hids # <<>> /\ drv.ev = NoEvent
    /\ drv' = [drv EXCEPT !.ev = mem.evt[drv.evt.pos]]
    /\ UNCHANGED <<mem, dev>>

\* and the move.
evt_taken ==
    /\ drv.waiting /\ drv.ev # NoEvent
    /\ Take(drv.ev)
    /\ UNCHANGED dev

\* The controller has nothing more to do for the step.
Quiet ==
    /\ ~Live(mem.cmd, dev.cmd)
    /\ drv.step \notin CmdSteps =>
          Slot \in dev.halted \/ ~Live(mem.ep0[Slot], dev.ep0[Slot])

\* The polling loop runs out.
evt_timeout ==
    /\ drv.waiting /\ drv.ev = NoEvent
    /\ ~EventHere
    /\ Quiet \/ ~Room
    /\ Proceed(drv, "invalid", 0)
    /\ UNCHANGED dev

\* The timer interrupt: at most one event, and a HID device it belongs to is
\* given its next TRB.
usbhid_poll ==
    /\ drv.hids # <<>>
    /\ EventHere
    /\ LET ev == mem.evt[drv.evt.pos]
           d == [drv EXCEPT !.evt = Advanced(@)]
           mine == {h \in 1..Len(drv.hids) :
                       drv.hids[h] = ev.slot /\ ev.ep = "int"}
       IN  IF ev.type = "xfer" /\ mine # {}
           THEN \E h \in mine : hid_enqueue_trb(mem, d, h - 1)
           ELSE drv' = d /\ UNCHANGED mem
    /\ UNCHANGED dev

---------------------------------------------------------------------------
(* The controller.                                                         *)

\* One command, done or refused.
DevCommand ==
    /\ Live(mem.cmd, dev.cmd)
    /\ LET trb == mem.cmd[dev.cmd.pos]
           d == [dev EXCEPT !.cmd = Passed(mem.cmd, @)]
           s == trb.arg.slot
       IN  \/ /\ trb.type = "link"
              /\ dev' = d /\ UNCHANGED mem
           \/ /\ trb.type # "link" /\ Room
              /\ \/ /\ trb.type = "enable_slot"
                    /\ \E new \in Slots \ dev.used :
                          /\ \A t \in Slots \ dev.used : new <= t
                          /\ Post([d EXCEPT !.used = @ \cup {new}], mem,
                                  "cmd", new, "", "success")
                 \/ /\ trb.type = "address"
                    /\ Post([d EXCEPT !.port[s] = trb.arg.port,
                                      !.ep0[s] = Start], mem,
                            "cmd", s, "", "success")
                 \/ /\ trb.type = "evaluate"
                    /\ Post(d, mem, "cmd", s, "", "success")
                 \/ /\ trb.type = "configure_ep"
                    /\ Post([d EXCEPT !.on = @ \cup {s},
                                      !.int[s] = [pos |-> trb.arg.ring, cs |-> 1]],
                            mem, "cmd", s, "", "success")
                 \/ /\ dev.errors < MaxErrors
                    /\ Post([d EXCEPT !.errors = @ + 1], mem,
                            "cmd", s, "", "error")
    /\ UNCHANGED drv

\* What the data stage of a step leaves in the driver's buffer: its first
\* bytes, or all of them.
Filled(m, step, p) ==
    CASE step = "desc8"  -> [m EXCEPT !.ctrl.head = p]
      [] step = "desc18" -> [m EXCEPT !.ctrl = [head |-> p, body |-> p]]
      [] step = "cfg9"   -> [m EXCEPT !.cfg.head = p]
      [] step = "cfg"    -> [m EXCEPT !.cfg = [head |-> p, body |-> p]]

\* A setup stage goes with the stage behind it.
AfterSetup(cells, c) ==
    IF cells[c.pos].type = "setup" THEN Passed(cells, c) ELSE c

\* A slot is sent 18 TRBs at most, so its ring never comes to its link.
\* One stage of EP0: data and status stages end with an event, a stall stops
\* the endpoint.
DevControl(s) ==
    /\ dev.port[s] # 0 /\ s \notin dev.halted
    /\ Live(mem.ep0[s], dev.ep0[s])
    /\ LET c == AfterSetup(mem.ep0[s], dev.ep0[s])
           trb == mem.ep0[s][c.pos]
           d == [dev EXCEPT !.ep0[s] = Passed(mem.ep0[s], c)]
       IN  /\ Room
           /\ \/ Post(d, IF trb.type = "data"
                         THEN Filled(mem, trb.arg, dev.port[s]) ELSE mem,
                      "xfer", s, "ep0", "success")
              \/ /\ dev.errors < MaxErrors
                 /\ Post([dev EXCEPT !.halted = @ \cup {s}, !.errors = @ + 1],
                         mem, "xfer", s, "ep0", "error")
    /\ UNCHANGED drv

\* A HID device sends a report.
DevReport(s) ==
    /\ s \in dev.on
    /\ dev.reports < MaxReports
    /\ Live(mem.hid, dev.int[s]) /\ Room
    /\ Post([dev EXCEPT !.int[s] = Passed(mem.hid, @), !.reports = @ + 1],
            mem, "xfer", s, "int", "success")
    /\ UNCHANGED drv

Boot == Issue \/ probe_port \/ usbhid_init \/ evt_poll \/ evt_copy \/ evt_taken
         \/ evt_timeout
Controller == DevCommand \/ \E s \in Slots : DevControl(s) \/ DevReport(s)

usb_Next == Boot \/ usbhid_poll \/ Controller

usb_Spec == usb_Init /\ [][usb_Next]_state

---------------------------------------------------------------------------
\* On the command ring and on every EP0 ring the controller finds a TRB that
\* is its own exactly when the driver has queued one it has not run: a TRB of
\* the last lap never looks new, and at rest both stand at the same place
\* with the same cycle state (ring_enqueue, xhci.c:108-129).
InStep(cells, p, c) == Live(cells, c) <=> c # p

RingsInStep ==
    /\ InStep(mem.cmd, drv.cmd, dev.cmd)
    /\ \A s \in Slots : dev.port[s] # 0 =>
          InStep(mem.ep0[s], drv.ep0[s], dev.ep0[s])

\* Every device recorded has a slot of its own, which the controller gave to
\* the very port of the record, though events are told apart by their type
\* alone (probe_port, xhci.c:355-420; cmd_enable_slot, xhci.c:200-213).
SlotsAgree ==
    \A i, j \in 1..Len(drv.devs) :
        /\ dev.port[drv.devs[i].slot] = drv.devs[i].port
        /\ drv.devs[i].slot = drv.devs[j].slot => i = j

\* The producer of a HID ring wraps at its link TRB ("If we've filled up to
\* the Link TRB position, wrap the ring", xhci.c:121), so the link stays.
LinksKept ==
    \A h \in 0..Len(drv.hids) - 1 :
        mem.hid[h * HidRingSize + HidRingSize - 1].type = "link"
=============================================================================
