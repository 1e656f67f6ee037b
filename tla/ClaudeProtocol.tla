--------------------------- MODULE ClaudeProtocol ---------------------------
(***************************************************************************)
(* What a client of the Claude messages API may see on a stream: one       *)
(* message, in it content blocks numbered from 0, each started once, given *)
(* deltas of its own type while it is open and stopped once, and the end   *)
(* of the message when every block is closed.                              *)
(***************************************************************************)
EXTENDS Naturals

CONSTANT MaxBlocks

VARIABLES
  phase,  \* "before" the message, "open", "delta" (message_delta was seen), "stopped"
  blocks, \* index |-> "unused", the type of an open block, or "closed"
  last    \* the event seen last

Types == {"text", "thinking", "tool"}
Index == 0 .. MaxBlocks - 1
Init ==
  /\ phase = "before" /\ blocks = [i \in Index |-> "unused"]
  /\ last = [t |-> "none", i |-> 0, k |-> "none"]

AllClosed == \A i \in Index : blocks[i] \in {"unused", "closed"}

MessageStart == phase = "before" /\ phase' = "open" /\ UNCHANGED blocks
BlockStart(i, k) ==
  /\ phase = "open" /\ blocks[i] = "unused" /\ \A j \in 0 .. i - 1 : blocks[j] # "unused"
  /\ blocks' = [blocks EXCEPT ![i] = k] /\ UNCHANGED phase
Delta(i, k) == phase = "open" /\ blocks[i] = k /\ UNCHANGED <<phase, blocks>>
BlockStop(i) ==
  /\ phase = "open" /\ blocks[i] \in Types
  /\ blocks' = [blocks EXCEPT ![i] = "closed"] /\ UNCHANGED phase
MessageDelta == phase = "open" /\ AllClosed /\ phase' = "delta" /\ UNCHANGED blocks
MessageStop == phase = "delta" /\ phase' = "stopped" /\ UNCHANGED blocks

Next ==
  /\ last'.t # "none"
  /\ \/ last'.t = "message_start" /\ MessageStart
     \/ last'.t = "block_start" /\ BlockStart(last'.i, last'.k)
     \/ last'.t = "delta" /\ Delta(last'.i, last'.k)
     \/ last'.t = "block_stop" /\ BlockStop(last'.i)
     \/ last'.t = "message_delta" /\ MessageDelta
     \/ last'.t = "message_stop" /\ MessageStop

Spec == Init /\ [][Next]_<<phase, blocks, last>>
=============================================================================
