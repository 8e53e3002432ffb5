------------------------------ MODULE Devices ------------------------------
(***************************************************************************)
(* The devices of the kernel side by side: interrupts with the timer,      *)
(* keyboard and mouse (Input), and the text console (Console).  They share *)
(* no variable, so a behaviour has either input or text, and nothing is    *)
(* missed by not interleaving them.                                        *)
(***************************************************************************)
EXTENDS Input, Console

CONSTANTS
  MaxActs,     \* bound on key codes and mouse movements together
  MaxText      \* bound on characters written

VARIABLE acts

deviceVars == <<inputVars, consoleVars, acts>>

Init == InitInput /\ console_init /\ acts = 0

System == (Boot \/ Interrupt \/ Controller \/ Reader)
          /\ UNCHANGED <<consoleVars, acts>>

Act == /\ con.written = 0 /\ acts < MaxActs /\ acts' = acts + 1
       /\ (\E code \in Codes : KeyCode(code)) \/ \E m \in Moves : Movement(m)
       /\ UNCHANGED consoleVars

Text == /\ acts = 0 /\ con.written < MaxText
        /\ \E c \in Controls \cup {"letter"} : Write(c)
        /\ UNCHANGED <<inputVars, acts>>

Next == System \/ (Environment /\ UNCHANGED <<consoleVars, acts>>)
        \/ Act \/ Text

\* The CPU takes the interrupts it is sent, the controller hands on the next
\* byte, and the readers are scheduled.
Spec == Init /\ [][Next]_deviceVars /\ WF_deviceVars(System)
=============================================================================
