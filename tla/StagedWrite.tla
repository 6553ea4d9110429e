---------------------------- MODULE StagedWrite ----------------------------
(***************************************************************************)
(* What an NFS write session promises: writes are acknowledged one by one  *)
(* while the session is staged, they become visible together and at most   *)
(* once, and a session that was discarded never becomes visible.           *)
(***************************************************************************)
EXTENDS Integers

CONSTANTS
  Writers,
  Content,   \* what the staged bytes can be, ordered by the time of writing
  Base,      \* the bytes before the first write
  Absent     \* nothing visible

VARIABLES
  phase,     \* of each session
  acked,     \* the last write that the client was told is done
  visible    \* the bytes that readers see of it

vars == <<phase, acked, visible>>

Init ==
  /\ phase = [w \in Writers |-> "none"]
  /\ acked = [w \in Writers |-> Base]
  /\ visible = [w \in Writers |-> Absent]

Start(w) ==
  /\ phase[w] = "none"
  /\ phase' = [phase EXCEPT ![w] = "staged"]
  /\ UNCHANGED <<acked, visible>>

Acknowledge(w) ==
  /\ phase[w] = "staged"
  /\ \E c \in Content : c > acked[w] /\ acked' = [acked EXCEPT ![w] = c]
  /\ UNCHANGED <<phase, visible>>

Publish(w) ==
  /\ phase[w] \in {"staged", "retained"}
  /\ phase' = [phase EXCEPT ![w] = "published"]
  /\ visible' = [visible EXCEPT ![w] = acked[w]]
  /\ UNCHANGED acked

Retain(w) ==
  /\ phase[w] = "staged"
  /\ phase' = [phase EXCEPT ![w] = "retained"]
  /\ UNCHANGED <<acked, visible>>

Discard(w) ==
  /\ phase[w] \in {"staged", "retained"}
  /\ phase' = [phase EXCEPT ![w] = "discarded"]
  /\ UNCHANGED <<acked, visible>>

Next == \E w \in Writers : Start(w) \/ Acknowledge(w) \/ Publish(w) \/ Retain(w) \/ Discard(w)

Spec == Init /\ [][Next]_vars

=============================================================================
