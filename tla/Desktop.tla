------------------------------ MODULE Desktop -------------------------------
(***************************************************************************)
(* The window manager of user/wm.c and what feeds it: the PS/2 mouse       *)
(* handler, USB mouse reports, the button edges that ui/event.c derives    *)
(* from both, and the event queue.                                         *)
(*                                                                         *)
(* Windows are the slots of win_pool, in the order of their creation; the  *)
(* z-order is the intrusive list of wm.c with its pointers.  Positions are *)
(* abstracted: a packet moves the pointer or not, and a click may hit any  *)
(* part of any open window, or of the taskbar.                             *)
(***************************************************************************)
EXTENDS EventQueue, Integers, FiniteSets, SequencesExt

CONSTANTS
  WM_MAX_WIN, UGFX_POOL_COUNT,  \* the sizes of the window and the surface pool
  Buttons,                      \* the buttons, in the order of their bits
  KeyCodes                      \* the keys, "esc" among them

ASSUME DesktopConstants ==
  /\ WM_MAX_WIN \in Nat /\ UGFX_POOL_COUNT \in Nat
  /\ Buttons \in Seq(STRING) /\ "left" \in ToSet(Buttons) /\ "esc" \in KeyCodes

Wins == 0..WM_MAX_WIN-1
NoWin == -1

VARIABLES
  pkt,     \* the bytes of the PS/2 packet received so far
  last,    \* last_buttons, and whether last_mx and last_my are set
  evq,     \* the event queue
  z,       \* z_head and the next and prev pointers of the windows
  in_use,  \* the windows with in_use set
  pools,   \* demo_ctx_next, win_pool_next and pool_next
  wm,      \* wm_run: is it started, running, drag and drag_win
  lost     \* has an event been dropped since the queue was last flushed?

deskVars == <<pkt, last, evq, z, in_use, pools, wm, lost>>

Sides    == {"right", "bottom", "corner"}
Parts    == {"close", "title", "client"} \cup Sides

Event(type, code) == [type |-> type, code |-> code]

-----------------------------------------------------------------------------
(* The producers: interrupt handlers.                                      *)

Pushed(evs) ==
  /\ evq' = evq_push(evq, evs)
  /\ lost' = (lost \/ Drops(evq, evs))

(* The button edges, in the order of the bits, then the motion.            *)
Edges(was, now) ==
  LET changed == SelectSeq(Buttons, LAMBDA b : (b \in was) # (b \in now)) IN
  [i \in DOMAIN changed |-> Event(IF changed[i] \in now THEN "down" ELSE "up", changed[i])]

(* Mutant: last_buttons is not updated when only the buttons changed.      *)
PushWithoutButtons(buttons, moved) ==
  /\ Pushed(Edges(last.buttons, buttons) \o
            IF moved \/ ~last.placed THEN <<Event("move", "none")>> ELSE <<>>)
  /\ last' = IF moved THEN [buttons |-> buttons, placed |-> TRUE] ELSE [last EXCEPT !.placed = TRUE]

event_push_mouse(buttons, moved) ==
  /\ Pushed(Edges(last.buttons, buttons) \o
            IF moved \/ ~last.placed THEN <<Event("move", "none")>> ELSE <<>>)
  /\ last' = [buttons |-> buttons, placed |-> TRUE]

(* A byte of a PS/2 packet: what it would mean as flags, and whether it has *)
(* the bit that only marks a first byte.  Any byte may come at any time, as *)
(* the handler cannot tell a stream that lost one.                          *)
mouse_irq_handler ==
  /\ \/ /\ pkt = <<>>                                         \* no sync bit
        /\ UNCHANGED <<pkt, last, evq, lost>>
     \/ /\ pkt = <<>>
        /\ \E buttons \in SUBSET ToSet(Buttons) : pkt' = <<buttons>>
        /\ UNCHANGED <<last, evq, lost>>
     \/ /\ Len(pkt) = 1
        /\ pkt' = Append(pkt, pkt[1])
        /\ UNCHANGED <<last, evq, lost>>
     \/ /\ Len(pkt) = 2
        /\ pkt' = <<>>
        /\ \E moved \in BOOLEAN : event_push_mouse(pkt[1], moved)
  /\ UNCHANGED <<z, in_use, pools, wm>>

(* A report of a USB mouse: process_mouse_report and mouse_inject_delta.   *)
mouse_inject_delta ==
  /\ \E buttons \in SUBSET ToSet(Buttons), moved \in BOOLEAN : event_push_mouse(buttons, moved)
  /\ UNCHANGED <<pkt, z, in_use, pools, wm>>

event_push_key ==
  /\ \E code \in KeyCodes : Pushed(<<Event("key", code)>>)
  /\ UNCHANGED <<pkt, last, z, in_use, pools, wm>>

(* uidemo flushes the queue; it never runs together with the WM.           *)
event_init ==
  /\ ~wm.started
  /\ evq' = <<>> /\ lost' = FALSE
  /\ last' = [buttons |-> {}, placed |-> FALSE]
  /\ UNCHANGED <<pkt, z, in_use, pools, wm>>

-----------------------------------------------------------------------------
(* The z-order list.                                                       *)

(* Mutant: the neighbour below keeps its pointer to the window taken out.   *)
UnlinkForward(l, w) ==
  LET p == l.prev[w]  n == l.next[w] IN
  [head |-> IF p # NoWin THEN l.head ELSE n,
   next |-> [x \in Wins |-> IF x = w THEN NoWin ELSE IF x = p THEN n ELSE l.next[x]],
   prev |-> [l.prev EXCEPT ![w] = NoWin]]

z_unlink(l, w) ==
  LET p == l.prev[w]  n == l.next[w] IN
  [head |-> IF p # NoWin THEN l.head ELSE n,
   next |-> [x \in Wins |-> IF x = w THEN NoWin ELSE IF x = p THEN n ELSE l.next[x]],
   prev |-> [x \in Wins |-> IF x = w THEN NoWin ELSE IF x = n THEN p ELSE l.prev[x]]]

z_push_front(l, w) ==
  [head |-> w,
   next |-> [l.next EXCEPT ![w] = l.head],
   prev |-> [x \in Wins |-> IF x = w THEN NoWin ELSE IF x = l.head THEN w ELSE l.prev[x]]]

z_raise(l, w) == IF l.head = w THEN l ELSE z_push_front(z_unlink(l, w), w)

(* The windows a walk from the head meets, with the bound of the walk.     *)
z_gather(l) ==
  LET step[i \in 0..WM_MAX_WIN] ==
        IF i = 0 THEN l.head ELSE IF step[i-1] = NoWin THEN NoWin ELSE l.next[step[i-1]]
  IN  SelectSeq([i \in 1..WM_MAX_WIN |-> step[i-1]], LAMBDA w : w # NoWin)

(* spawn_demo_window takes from three pools, and nothing is given back.    *)
spawn_demo_window(s) ==
  LET p  == s.pools
      q  == [p EXCEPT !.ctx = @ + 1]
      w  == p.win
  IN  IF p.ctx >= WM_MAX_WIN THEN s
      ELSE IF p.win >= WM_MAX_WIN \/ p.surf >= UGFX_POOL_COUNT THEN [s EXCEPT !.pools = q]
      ELSE [pools |-> [q EXCEPT !.win = @ + 1, !.surf = @ + 1],
            in_use |-> s.in_use \cup {w}, z |-> z_push_front(s.z, w)]

Desk == [pools |-> pools, in_use |-> in_use, z |-> z]

DeskBecomes(s) == pools' = s.pools /\ in_use' = s.in_use /\ z' = s.z

-----------------------------------------------------------------------------
(* The main loop of wm_run.                                                *)

Start ==
  /\ ~wm.started
  /\ wm' = [started |-> TRUE, running |-> TRUE, drag |-> "none", drag_win |-> NoWin]
  /\ DeskBecomes(spawn_demo_window(spawn_demo_window(Desk)))
  /\ UNCHANGED <<pkt, last, evq, lost>>

ButtonDown(s, w, part) ==
  [s EXCEPT !.z = IF part = "close" THEN z_unlink(z_raise(@, w), w) ELSE z_raise(@, w),
            !.in_use = IF part = "close" THEN @ \ {w} ELSE @]

Dragging(w, part) ==
  CASE part = "title" -> [wm EXCEPT !.drag = "move", !.drag_win = w]
    [] part \in Sides -> [wm EXCEPT !.drag = part, !.drag_win = w]
    [] OTHER          -> wm

Click ==
  \/ DeskBecomes(spawn_demo_window(Desk)) /\ UNCHANGED wm                       \* launcher
  \/ \E w \in ToSet(z_gather(z)) :                                              \* taskbar button
       DeskBecomes([Desk EXCEPT !.z = z_raise(@, w)]) /\ UNCHANGED wm
  \/ \E w \in ToSet(z_gather(z)), part \in Parts :                              \* window
       DeskBecomes(ButtonDown(Desk, w, part)) /\ wm' = Dragging(w, part)
  \/ UNCHANGED <<pools, in_use, z, wm>>                                         \* background

ButtonUp == wm' = [wm EXCEPT !.drag = "none", !.drag_win = NoWin]

Handle(ev) ==
  \/ ev = Event("down", "left") /\ Click
  \/ /\ ev = Event("up", "left")
     /\ ButtonUp
     /\ UNCHANGED <<pools, in_use, z>>
  \/ /\ ev = Event("key", "esc")
     /\ wm' = [wm EXCEPT !.running = FALSE]
     /\ UNCHANGED <<pools, in_use, z>>
  \/ /\ ev \notin {Event("down", "left"), Event("up", "left"), Event("key", "esc")}
     /\ UNCHANGED <<pools, in_use, z, wm>>

event_poll ==
  /\ wm.started /\ evq # <<>>
  /\ evq' = Tail(evq)
  /\ Handle(Head(evq))
  /\ UNCHANGED <<pkt, last, lost>>

(* ESC ends the loop once the queue has been drained.                      *)
Exit ==
  /\ wm.started /\ ~wm.running /\ evq = <<>>
  /\ wm' = [started |-> FALSE, running |-> FALSE, drag |-> "none", drag_win |-> NoWin]
  /\ UNCHANGED <<pkt, last, evq, z, in_use, pools, lost>>

-----------------------------------------------------------------------------
desk_Init ==
  /\ pkt = <<>> /\ evq = <<>> /\ lost = FALSE
  /\ last = [buttons |-> {}, placed |-> FALSE]
  /\ z = [head |-> NoWin, next |-> [w \in Wins |-> NoWin], prev |-> [w \in Wins |-> NoWin]]
  /\ in_use = {} /\ pools = [ctx |-> 0, win |-> 0, surf |-> 0]
  /\ wm = [started |-> FALSE, running |-> FALSE, drag |-> "none", drag_win |-> NoWin]

desk_Next ==
  \/ mouse_irq_handler \/ mouse_inject_delta \/ event_push_key \/ event_init
  \/ Start \/ event_poll \/ Exit

-----------------------------------------------------------------------------
(* Properties.                                                             *)

(* Through every order of opening, raising and closing windows the z-order *)
(* list is a proper one: it holds each open window once and no other, it   *)
(* ends, and its prev pointers mirror its next pointers.                   *)
ZOrderSound ==
  LET order == z_gather(z) IN
  /\ IsInjective(order) /\ ToSet(order) = in_use
  /\ \A w \in Wins : w \notin in_use => z.next[w] = NoWin /\ z.prev[w] = NoWin
  /\ \A i \in DOMAIN order :
       /\ z.next[order[i]] = IF i = Len(order) THEN NoWin ELSE order[i+1]
       /\ z.prev[order[i]] = IF i = 1 THEN NoWin ELSE order[i-1]

(* A drag always has a window to act on, so EV_MOUSE_MOVE never follows a  *)
(* null pointer.  As long as no event is dropped, the window is open, and  *)
(* when the WM has handled all events it drags only while the left button  *)
(* is down, however the reports of two mice are mixed.                     *)
DragIsLive ==
  /\ (wm.drag = "none") = (wm.drag_win = NoWin)
  /\ wm.drag # "none" /\ ~lost => /\ wm.drag_win \in in_use
                                  /\ evq = <<>> => "left" \in last.buttons
=============================================================================
