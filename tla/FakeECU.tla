------------------------------ MODULE FakeECU ------------------------------
(***************************************************************************)
(* The simulated ECU (internal/ecu/fake), which has no line: it accepts    *)
(* every user command, and only a cancellation ends it.  The sensor values *)
(* it invents are left out.                                                *)
(***************************************************************************)
EXTENDS KLine

Connect ==
  /\ pc = "init" /\ pc' = "read"
  /\ connected' = TRUE
  /\ UNCHANGED <<buffer, idle, lastSent, key, chosen, userCommand, alert, line,
                 inbox, surroundings>>

\* One tick: the command is taken, and done, under the lock.
Tick ==
  /\ pc = "read" /\ ~ctxDone /\ userCommand # NoCommand
  /\ userCommand' = NoCommand
  /\ alert' = userCommand
  /\ executed' = [executed EXCEPT ![userCommand] = @ + 1]
  /\ UNCHANGED <<handler, session, connected, ctxDone, line, inbox, ecuOn,
                 access, seed, drops, posted, lost>>

Loop == Connect \/ Tick \/ Cancelled
=============================================================================
