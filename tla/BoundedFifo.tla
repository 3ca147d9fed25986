----------------------------- MODULE BoundedFifo -----------------------------
(***************************************************************************)
(* What IMessageQueue promises its callers: a FIFO of at most Capacity     *)
(* commands whose operations are atomic.  A push on a full queue and a pop *)
(* on an empty one return false and change nothing; the out parameter of a *)
(* failed pop is left alone.  LockFreeQueue is shown to implement this.    *)
(***************************************************************************)
EXTENDS Naturals, Sequences

CONSTANTS Commands,    \* the values of Cfg::Command
          DefaultCmd,  \* the default-constructed command
          Capacity     \* usable capacity of the queue

VARIABLES items,   \* the queued commands, oldest first
          pushOk,  \* what the last push returned
          popOk,   \* what the last pop returned
          out      \* the command the last successful pop delivered

fifoVars == <<items, pushOk, popOk, out>>

Init ==
  /\ items = <<>>
  /\ pushOk = FALSE
  /\ popOk = FALSE
  /\ out = DefaultCmd

Push(c) ==
  /\ Len(items) < Capacity
  /\ items' = Append(items, c)
  /\ pushOk' = TRUE
  /\ UNCHANGED <<popOk, out>>

PushFull ==
  /\ Len(items) = Capacity
  /\ pushOk' = FALSE
  /\ UNCHANGED <<items, popOk, out>>

Pop ==
  /\ items # <<>>
  /\ out' = Head(items)
  /\ items' = Tail(items)
  /\ popOk' = TRUE
  /\ UNCHANGED pushOk

PopEmpty ==
  /\ items = <<>>
  /\ popOk' = FALSE
  /\ UNCHANGED <<items, pushOk, out>>

Clear ==
  /\ items' = <<>>
  /\ UNCHANGED <<pushOk, popOk, out>>

Next ==
  \/ \E c \in Commands : Push(c)
  \/ PushFull
  \/ Pop
  \/ PopEmpty
  \/ Clear

Spec == Init /\ [][Next]_fifoVars
=============================================================================
