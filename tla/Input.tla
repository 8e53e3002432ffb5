------------------------------- MODULE Input -------------------------------
(***************************************************************************)
(* Hardware interrupts and the two PS/2 drivers of the kernel:             *)
(* arch/x86_64/interrupts.c, drivers/timer/pit.c, drivers/input/keyboard.c *)
(* and drivers/input/mouse.c, in the order kernel_start initialises them.  *)
(*                                                                         *)
(* A handler runs behind an interrupt gate, with interrupts off and on one *)
(* CPU, so one irq_dispatch is one step, save where the timer's handler    *)
(* switches tasks: the rest of irq_dispatch runs when the task it          *)
(* interrupted is switched to again.  kb_getc and mouse_read run with      *)
(* interrupts on: the read of the slot and the move of the tail are two    *)
(* steps, and a handler may come in between.                               *)
(*                                                                         *)
(* External, from how the drivers use them: the two 8259A controllers      *)
(* (pic), the one-byte output buffer of the 8042 (ob), the keyboard and    *)
(* the mouse with the bytes they have still to hand over (wire).  A byte   *)
(* carries what the drivers test in it and, for the properties only, the   *)
(* key press or mouse packet it belongs to.                                *)
(***************************************************************************)
EXTENDS Naturals, Sequences, FiniteSets, FiniteSetsExt, SequencesExt

CONSTANTS
  KB_BUF_SIZE, MOUSE_BUF_SIZE,  \* slots of the two rings
  LateReplies,                  \* how many mouse replies may come too late
  MaxTicks,                     \* bound on timer interrupts
  MaxQueue,                     \* bound on codes waiting in the keyboard
  MaxPackets,                   \* bound on mouse packets
  MaxLost,                      \* bound on mouse bytes lost on the wire
  Moves,                        \* what the bytes of a movement look like
  NULL

ASSUME RingAssumption ==
  /\ KB_BUF_SIZE \in Nat \ {0, 1} /\ MOUSE_BUF_SIZE \in Nat \ {0, 1}
  /\ LateReplies \subseteq 0 .. 5

\* What mouse_irq_handler tests in a byte.
Look == [bit3 : BOOLEAN, overflow : BOOLEAN]
ASSUME MovesAssumption ==
  Moves \subseteq [overflow : BOOLEAN, dx : Look, dy : Look]

ASSUME NullAssumption == NULL \notin {"timer", "keyboard", "mouse"}

VARIABLES
  boot,          \* how far kernel_start is, "up" after sti, or "panic"
  pic,           \* both 8259As: vector offset, masked, requested, in service
  irq_handlers, timer_ticks,
  away,          \* a timer interrupt has switched tasks, its EOI still to come
  ob,            \* 8042 output buffer: full, from the aux port, the byte
  wire,          \* bytes in the keyboard and in the mouse
  kb,            \* buf, head, tail, shift_held, caps_lock
  mouse,         \* buf, head, tail, packet (its length is packet_idx)
  reader,        \* slot values read whose tail is still to be moved
  user,          \* history: keys pressed, characters and events received
  fault          \* history: packets made, bytes lost, replies that came late,
                 \* and movement bytes that look like a packet's first

inputVars == <<boot, pic, irq_handlers, timer_ticks, away, ob, wire, kb, mouse,
               reader, user, fault>>

IRQ_COUNT == 16
Lines == 0 .. IRQ_COUNT - 1

----------------------------------------------------------------------------
(* The interrupt controllers (external) and interrupts.c.                  *)

\* A byte from the slave also holds the cascade line 2 of the master.
Ack(p, irq) ==
  [p EXCEPT !.irr = @ \ {irq},
            !.isr = @ \cup {irq} \cup (IF irq >= 8 THEN {2} ELSE {})]

\* EOI to one chip ends the service of its highest-priority line.
Ended(p, chip) ==
  LET mine == p.isr \cap chip
  IN  IF mine = {} THEN p ELSE [p EXCEPT !.isr = @ \ {Min(mine)}]
Master == 0 .. 7
Slave == 8 .. 15

Level(irq) == IF irq >= 8 THEN 2 ELSE irq
Deliverable(p) ==
  {irq \in p.irr \ p.mask :
     /\ \A j \in p.isr \cap Master : Level(irq) < j
     /\ irq >= 8 => 2 \notin p.mask /\ \A j \in p.isr \cap Slave : irq < j}
Highest(S) == CHOOSE i \in S :
                \A j \in S : 16 * Level(i) + i <= 16 * Level(j) + j

\* Mutant: the master is not told when the interrupt came from the slave.
EoiOneChip(p, irq) == Ended(p, IF irq >= 8 THEN Slave ELSE Master)

pic_send_eoi(p, irq) ==
  Ended(IF irq >= 8 THEN Ended(p, Slave) ELSE p, Master)

irq_enable(p, irq) == [p EXCEPT !.mask = @ \ {irq}]

irq_install_handler(irq, handler) ==
  /\ irq_handlers' = [irq_handlers EXCEPT ![irq] = handler]
  /\ pic' = irq_enable(pic, irq)

interrupts_init ==
  /\ boot = "interrupts" /\ boot' = "pit"
  /\ pic' = irq_enable([pic EXCEPT !.offset = "IRQ_BASE", !.mask = Lines], 2)
  /\ UNCHANGED <<irq_handlers, timer_ticks, away, ob, wire, kb, mouse, reader,
                 user, fault>>

\* kernel_start has no call of interrupts_init: the controllers keep the
\* firmware's vectors.
NoInterruptsInit ==
  /\ boot = "interrupts" /\ boot' = "pit"
  /\ UNCHANGED <<pic, irq_handlers, timer_ticks, away, ob, wire, kb, mouse, reader,
                 user, fault>>

----------------------------------------------------------------------------
(* Rings: one slot stays free, an entry that finds the ring full is dropped *)

Full(q, size) == (q.head + 1) % size = q.tail
Pending(q) == q.head # q.tail
Enqueued(q, size, v) ==
  IF Full(q, size) THEN q
  ELSE [q EXCEPT !.buf[q.head] = v, !.head = (@ + 1) % size]
Contents(q, size) ==
  [i \in 1 .. (q.head + size - q.tail) % size |->
     q.buf[(q.tail + i - 1) % size]]

\* Mutant: the ring is used to the last slot, and a full one looks empty.
EnqueuedFull(c) ==
  [kb EXCEPT !.buf[kb.head] = c, !.head = (@ + 1) % KB_BUF_SIZE]

kb_enqueue(c) == Enqueued(kb, KB_BUF_SIZE, c)

\* keyboard_handler: port 0x60 read without a look at the status port.
keyboard_handler ==
  LET sc == ob.byte
      upper == kb.shift_held # kb.caps_lock
  IN  /\ ob' = [ob EXCEPT !.full = FALSE]
      /\ kb' = CASE sc.code = "shift_up" -> [kb EXCEPT !.shift_held = FALSE]
                 [] sc.code = "key_up"   -> kb
                 [] sc.code = "shift"    -> [kb EXCEPT !.shift_held = TRUE]
                 [] sc.code = "caps"     -> [kb EXCEPT !.caps_lock = ~@]
                 [] sc.code = "unmapped" -> kb
                 [] OTHER -> kb_enqueue([n |-> sc.n, upper |-> upper])
      /\ UNCHANGED <<mouse, timer_ticks, away>>

\* Mutant: any byte may open a packet.
AnyOpens(idx, byte) == TRUE

\* First byte must have bit 3 set; resync if it doesn't.
Opens(idx, byte) == idx # 0 \/ byte.bit3

mouse_irq_handler ==
  LET byte == ob.byte
      packet == Append(mouse.packet, byte)
      whole == Len(packet) = 3
  IN  IF ~ob.full \/ ~ob.aux
      THEN UNCHANGED <<ob, mouse, kb, timer_ticks, away>>
      ELSE /\ ob' = [ob EXCEPT !.full = FALSE]
           /\ mouse' =
                IF ~Opens(Len(mouse.packet), byte) THEN mouse
                ELSE IF ~whole THEN [mouse EXCEPT !.packet = packet]
                ELSE LET m == [mouse EXCEPT !.packet = <<>>]
                     IN  IF packet[1].overflow THEN m
                         ELSE Enqueued(m, MOUSE_BUF_SIZE,
                                       [i \in 1 .. 3 |-> packet[i].pkt])
           /\ UNCHANGED <<kb, timer_ticks, away>>

\* sched_tick, the other half of the handler, is modelled in Scheduler: it
\* may leave the handler for another task.
timer_irq_handler ==
  /\ timer_ticks' = timer_ticks + 1 /\ away' \in BOOLEAN
  /\ UNCHANGED <<ob, kb, mouse>>

\* A spurious IRQ7 or IRQ15 is not in service in its chip: no handler runs,
\* and only the master is told, only for the slave's.  The EOI comes behind
\* the handler.
irq_dispatch(irq, p) ==
  /\ UNCHANGED <<boot, irq_handlers, wire, reader, user, fault>>
  /\ IF irq \in {7, 15} /\ irq \notin p.isr
     THEN /\ pic' = IF irq = 15 THEN Ended(p, Master) ELSE p
          /\ UNCHANGED <<ob, kb, mouse, timer_ticks, away>>
     ELSE /\ CASE irq_handlers[irq] = "timer"    -> timer_irq_handler
               [] irq_handlers[irq] = "keyboard" -> keyboard_handler
               [] irq_handlers[irq] = "mouse"    -> mouse_irq_handler
               [] OTHER -> UNCHANGED <<ob, kb, mouse, timer_ticks, away>>
          /\ pic' = IF away' THEN p ELSE pic_send_eoi(p, irq)

\* The task that was interrupted runs again and returns from the handler.
Resume ==
  /\ away /\ away' = FALSE /\ pic' = pic_send_eoi(pic, 0)
  /\ UNCHANGED <<boot, irq_handlers, timer_ticks, ob, wire, kb, mouse, reader,
                 user, fault>>

\* Vectors 8 and up of the firmware's mapping are exceptions or have no
\* gate: exception_dispatch panics.
exception_dispatch ==
  /\ boot' = "panic"
  /\ UNCHANGED <<pic, irq_handlers, timer_ticks, away, ob, wire, kb, mouse, reader,
                 user, fault>>

Interrupt ==
  /\ boot = "up" /\ Deliverable(pic) # {}
  /\ IF pic.offset = "IRQ_BASE"
     THEN LET irq == Highest(Deliverable(pic))
          IN  irq_dispatch(irq, Ack(pic, irq))
     ELSE exception_dispatch

\* External: the request is gone when the CPU acknowledges it.  With IRQ0 in
\* service the controller makes none.
Spurious(irq) ==
  /\ boot = "up" /\ ~away /\ pic.offset = "IRQ_BASE"
  /\ irq_dispatch(irq, IF irq = 15 THEN [pic EXCEPT !.isr = @ \cup {2}]
                                   ELSE pic)

----------------------------------------------------------------------------
(* The drivers' init functions, in kernel_start's order.                   *)

InitStep(from, to) == boot = from /\ boot' = to

pit_init ==
  /\ InitStep("pit", "kb") /\ irq_install_handler(0, "timer")
  /\ UNCHANGED <<timer_ticks, away, ob, wire, kb, mouse, reader, user, fault>>

kb_init ==
  /\ InitStep("kb", "mouse") /\ irq_install_handler(1, "keyboard")
  /\ UNCHANGED <<timer_ticks, away, ob, wire, kb, mouse, reader, user, fault>>

\* What the mouse answers to reset, set-defaults and enable-reporting.
Reply(bit3) == [pkt |-> 0, bit3 |-> bit3, overflow |-> bit3]
Replies == <<Reply(TRUE), Reply(TRUE), Reply(FALSE), Reply(TRUE),
             Reply(TRUE)>>                     \* FA AA 00, FA, FA

\* ps2_read_data is called once per reply and gives up after a while: as
\* many replies as reads that timed out are still to come when it returns.
\* The polled replies have latched IRQ12, which cfg has just enabled.
mouse_init(late) ==
  /\ InitStep("mouse", "sti") /\ irq_handlers' =
                                   [irq_handlers EXCEPT ![12] = "mouse"]
  /\ pic' = [irq_enable(pic, 12) EXCEPT
               !.irr = IF late < Len(Replies) THEN @ \cup {12} ELSE @]
  /\ wire' = [wire EXCEPT !.aux = SubSeq(Replies, Len(Replies) - late + 1,
                                         Len(Replies))]
  /\ fault' = [fault EXCEPT !.late = @ + late]
  /\ UNCHANGED <<timer_ticks, away, ob, kb, mouse, reader, user>>

sti ==
  /\ InitStep("sti", "up")
  /\ UNCHANGED <<pic, irq_handlers, timer_ticks, away, ob, wire, kb, mouse, reader,
                 user, fault>>

InitInput ==
  /\ boot = "interrupts"
  /\ pic = [offset |-> "firmware", mask |-> {12}, irr |-> {}, isr |-> {}]
  /\ irq_handlers = [irq \in Lines |-> NULL]
  /\ timer_ticks = 0 /\ away = FALSE
  /\ ob = [full |-> FALSE, aux |-> FALSE, byte |-> Reply(FALSE)]
  /\ wire = [kbd |-> <<>>, aux |-> <<>>]
  /\ kb = [buf |-> [i \in 0 .. KB_BUF_SIZE - 1 |-> NULL], head |-> 0,
           tail |-> 0, shift_held |-> FALSE, caps_lock |-> FALSE]
  /\ mouse = [buf |-> [i \in 0 .. MOUSE_BUF_SIZE - 1 |-> NULL], head |-> 0,
              tail |-> 0, packet |-> <<>>]
  /\ reader = [key |-> NULL, event |-> NULL]
  /\ user = [shift |-> FALSE, caps |-> FALSE, typed |-> <<>>, keys |-> <<>>,
             events |-> <<>>]
  /\ fault = [packets |-> 0, lost |-> 0, late |-> 0, ambiguous |-> 0]

----------------------------------------------------------------------------
(* The devices (external).                                                 *)

Raise(irq) == pic' = [pic EXCEPT !.irr = @ \cup {irq}]

TimerFires ==
  /\ boot \notin {"interrupts", "pit", "panic"} /\ timer_ticks < MaxTicks
  /\ 0 \notin pic.irr /\ Raise(0)
  /\ UNCHANGED <<boot, irq_handlers, timer_ticks, away, ob, wire, kb, mouse, reader,
                 user, fault>>

\* A key goes down or up.  typed records the characters meant: the case is
\* what Shift and Caps Lock say when the key is hit.
Codes == {"letter", "key_up", "shift", "shift_up", "caps", "unmapped"}
KeyCode(code) ==
  LET n == Len(user.typed) + 1
      upper == user.shift # user.caps
  IN  /\ boot = "up" /\ Len(wire.kbd) < MaxQueue
      /\ wire' = [wire EXCEPT !.kbd = Append(@, [code |-> code, n |-> n])]
      /\ user' = CASE code = "shift"    -> [user EXCEPT !.shift = TRUE]
                   [] code = "shift_up" -> [user EXCEPT !.shift = FALSE]
                   [] code = "caps"     -> [user EXCEPT !.caps = ~@]
                   [] code = "letter"   -> [user EXCEPT !.typed =
                                              Append(@, [n |-> n, upper |-> upper])]
                   [] OTHER -> user
      /\ UNCHANGED <<boot, pic, irq_handlers, timer_ticks, away, ob, kb, mouse,
                     reader, fault>>

\* A movement: three bytes.  The first has bit 3 set, which the two others,
\* how far the mouse went, may have as well.
One(b) == IF b THEN 1 ELSE 0
Movement(move) ==
  LET pkt == fault.packets + 1
      Byte(look) == [pkt |-> pkt, bit3 |-> look.bit3, overflow |-> look.overflow]
      first == [bit3 |-> TRUE, overflow |-> move.overflow]
  IN  /\ boot = "up" /\ pkt <= MaxPackets
      /\ wire' = [wire EXCEPT !.aux =
                    @ \o <<Byte(first), Byte(move.dx), Byte(move.dy)>>]
      /\ fault' = [fault EXCEPT !.packets = pkt,
                    !.ambiguous = @ + One(move.dx.bit3) + One(move.dy.bit3)]
      /\ UNCHANGED <<boot, pic, irq_handlers, timer_ticks, away, ob, kb, mouse,
                     reader, user>>

LoseByte ==
  /\ wire.aux # <<>> /\ fault.lost < MaxLost
  /\ wire' = [wire EXCEPT !.aux = Tail(@)]
  /\ fault' = [fault EXCEPT !.lost = @ + 1]
  /\ UNCHANGED <<boot, pic, irq_handlers, timer_ticks, away, ob, kb, mouse, reader,
                 user>>

\* The controller takes the next byte once the last one has been read.
Latch(port, irq) ==
  /\ boot = "up" /\ ~ob.full /\ wire[port] # <<>>
  /\ ob' = [full |-> TRUE, aux |-> port = "aux", byte |-> Head(wire[port])]
  /\ wire' = [wire EXCEPT ![port] = Tail(@)]
  /\ Raise(irq)
  /\ UNCHANGED <<boot, irq_handlers, timer_ticks, away, kb, mouse, reader, user,
                 fault>>

----------------------------------------------------------------------------
(* The readers, with interrupts on.                                        *)

kb_getc_read ==
  /\ reader.key = NULL /\ Pending(kb)
  /\ reader' = [reader EXCEPT !.key = kb.buf[kb.tail]]
  /\ UNCHANGED <<boot, pic, irq_handlers, timer_ticks, away, ob, wire, kb, mouse,
                 user, fault>>

kb_getc_return ==
  /\ reader.key # NULL
  /\ kb' = [kb EXCEPT !.tail = (@ + 1) % KB_BUF_SIZE]
  /\ user' = [user EXCEPT !.keys = Append(@, reader.key)]
  /\ reader' = [reader EXCEPT !.key = NULL]
  /\ UNCHANGED <<boot, pic, irq_handlers, timer_ticks, away, ob, wire, mouse, fault>>

mouse_read_copy ==
  /\ reader.event = NULL /\ Pending(mouse)
  /\ reader' = [reader EXCEPT !.event = mouse.buf[mouse.tail]]
  /\ UNCHANGED <<boot, pic, irq_handlers, timer_ticks, away, ob, wire, kb, mouse,
                 user, fault>>

mouse_read_return ==
  /\ reader.event # NULL
  /\ mouse' = [mouse EXCEPT !.tail = (@ + 1) % MOUSE_BUF_SIZE]
  /\ user' = [user EXCEPT !.events = Append(@, reader.event)]
  /\ reader' = [reader EXCEPT !.event = NULL]
  /\ UNCHANGED <<boot, pic, irq_handlers, timer_ticks, away, ob, wire, kb, fault>>

----------------------------------------------------------------------------
Boot == interrupts_init \/ NoInterruptsInit \/ pit_init \/ kb_init
        \/ (\E late \in LateReplies : mouse_init(late)) \/ sti
Controller == Latch("kbd", 1) \/ Latch("aux", 12)
Reader == /\ boot = "up"
          /\ \/ kb_getc_read \/ kb_getc_return
             \/ mouse_read_copy \/ mouse_read_return
Environment == TimerFires \/ LoseByte \/ Resume \/ \E irq \in {7, 15} : Spurious(irq)

\* The characters and events that have come out of the rings or are in them.
KeysSoFar == user.keys \o Contents(kb, KB_BUF_SIZE)
EventsSoFar == user.events \o Contents(mouse, MOUSE_BUF_SIZE)

Increasing(s) == \A i \in 1 .. Len(s) - 1 : s[i] < s[i + 1]
Whole(event) == event[1] = event[2] /\ event[2] = event[3]

(* keyboard_handler and kb_getc: whatever is typed between the steps of a  *)
(* read, the characters arrive once each, in the order and in the case     *)
(* they were typed; one is missing only when all the ring can hold was     *)
(* typed before it and delivered.                                          *)
KeysInOrder ==
  LET delivered == {KeysSoFar[i].n : i \in 1 .. Len(KeysSoFar)}
  IN  /\ \A i \in 1 .. Len(KeysSoFar) :
           KeysSoFar[i] = user.typed[KeysSoFar[i].n]
      /\ Increasing([i \in 1 .. Len(KeysSoFar) |-> KeysSoFar[i].n])
      /\ wire.kbd = <<>> /\ ~ob.full =>
           \A n \in (1 .. Len(user.typed)) \ delivered :
             Cardinality({m \in delivered : m < n}) >= KB_BUF_SIZE - 1

(* mouse_irq_handler: bit 3 is all that marks a packet's first byte.  With  *)
(* no reply late and no byte lost no event mixes the bytes of two packets. *)
(* Otherwise each lost byte costs one mixed event, and each movement byte  *)
(* that looks like a first byte may keep the machine out of step for one   *)
(* more; a late reply by itself costs none, and whole events come out in   *)
(* order.                                                                  *)
MouseInSync ==
  LET events == DOMAIN EventsSoFar
      mixed == {i \in events : ~Whole(EventsSoFar[i])}
  IN  /\ Cardinality(mixed) <= fault.lost + fault.ambiguous
      /\ fault.lost = 0 /\ fault.late = 0 => mixed = {}
      /\ \A i, j \in events \ mixed :
           i < j => EventsSoFar[i][1] < EventsSoFar[j][1]

(* irq_dispatch: every byte a device hands over is read by a handler.  A   *)
(* line left masked, without a handler, or in service for ever would keep  *)
(* it, and the device behind it, waiting.  Two things may: controllers     *)
(* that were never set up, whose first interrupt ends in a panic, and a    *)
(* task that is never switched to again after a timer interrupt switched   *)
(* away from it, since its EOI is sent on its own return.                  *)
BytesTaken == (ob.full ~> (~ob.full \/ boot = "panic")) \/ <>[]away
=============================================================================
