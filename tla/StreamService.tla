---------------------------- MODULE StreamService ----------------------------
(***************************************************************************)
(* What ubd promises the TCP connections that send commands to nodes       *)
(* (tcp_queueNewCommand, tcp_reply): every command is answered once, 'A'   *)
(* or 'N' on the connection it came from, in the order of the commands.    *)
(* A connection can therefore match answers with commands by counting.     *)
(***************************************************************************)
EXTENDS Naturals, Sequences

CONSTANT Clients

VARIABLES
  outstanding,  \* whose commands are unanswered, oldest first
  answered      \* answers each client got

Init ==
  /\ outstanding = <<>>
  /\ answered = [c \in Clients |-> 0]

Command(c) ==
  /\ outstanding' = Append(outstanding, c)
  /\ UNCHANGED answered

Answer ==
  /\ outstanding # <<>>
  /\ outstanding' = Tail(outstanding)
  /\ answered' = [answered EXCEPT ![Head(outstanding)] = @ + 1]

Next == Answer \/ \E c \in Clients : Command(c)

Spec == Init /\ [][Next]_<<outstanding, answered>>
=============================================================================
