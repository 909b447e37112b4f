------------------------------- MODULE MCTcp -------------------------------
(* Instances of the TCP sessions for TLC. *)
EXTENDS Tcp, TLC

\* A node announces up to four classes.  It announces these two in turn: the
\* class at index 0 changes, and is then the same as the other.
List(a, b) == (0 :> a) @@ (1 :> b)
MCClassLists == {List(20, 23), List(23, 23)}
MCPacketClasses == {20, 23}

F(kind, data) == [kind |-> kind, data |-> data]
FL(kind, data) == [kind |-> kind, data |-> data, len |-> Len(data)]

MCNodeFrames ==
  {F("listen", <<>>)}
  \cup {F("text", d) : d \in {<<C>>, <<C, L, L>>}}
  \cup {FL("binary", d) : d \in {<<CR>>, <<LF, L>>}}
  \cup {[kind |-> "badlength", len |-> 0, data |-> <<L, C>>],
        [kind |-> "badlength", len |-> 3, data |-> <<L>>]}

MCControlFrames ==
  {[kind |-> "line", lead |-> <<>>, data |-> d] : d \in {Exit, ListNodes}}
  \cup {[kind |-> "line", lead |-> <<9>>, data |-> <<L, 9>>]}

Symmetry == Permutations(Conns) \cup Permutations(Streams)
=============================================================================
