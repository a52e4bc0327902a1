----------------------------- MODULE EventQueue -----------------------------
(***************************************************************************)
(* The event queue of ui/event.c: a ring of EVQ_CAP events between the     *)
(* interrupt handlers of the input devices and the one program that polls  *)
(* it.  The ring is the sequence of the events between its read and its    *)
(* write index; EVQ_CAP is a power of two, so the uint32 indices may wrap. *)
(***************************************************************************)
EXTENDS Naturals, Sequences

CONSTANT EVQ_CAP

ASSUME QueueCapacity == EVQ_CAP \in Nat \ {0}

(* A handler may push several events: those that find the ring full are    *)
(* dropped.                                                                *)
Drops(q, evs) == Len(q) + Len(evs) > EVQ_CAP

evq_push(q, evs) == SubSeq(q \o evs, 1, IF Drops(q, evs) THEN EVQ_CAP ELSE Len(q) + Len(evs))
=============================================================================
