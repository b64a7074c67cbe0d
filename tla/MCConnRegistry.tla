--------------------------- MODULE MCConnRegistry ---------------------------
(* Small instances of ConnRegistry for TLC. *)
EXTENDS ConnRegistry, TLC

CONSTANTS a1, s1, s2

OneAgent == {a1}
TwoStreamsOfOne == [s \in {s1, s2} |-> a1]

(* Streams of one agent, requests and sites are told apart by nothing. *)
Symmetry == Permutations(Streams) \cup Permutations(Ops) \cup Permutations(Sites)

(* What a later step or a property of ConnSettle can still read: locals    *)
(* while their program point needs them, of a connection that was replaced *)
(* or has left only its channel, and no gauge, which nothing reads.        *)
Over(s) == closed[s] \/ pc[s] \in {"left", "done"}
Kept(f, D, Live(_)) == [x \in {y \in D : Live(y)} |-> f[x]]

Readable ==
    <<storeVars, connected, pc, closed, opc, todo, missed, "close of closed channel" \in panics,
      Kept(agent, Streams, LAMBDA s : ~Over(s) /\ pc[s] \in {"registered", "inserted", "online"}),
      Kept(built, Streams, LAMBDA s : ~Over(s) /\ pc[s] = "built"),
      Kept(connRow, Streams, LAMBDA s : ~Over(s)),
      Kept(sent, Streams, LAMBDA s : ~Over(s)),
      Kept(push, Streams, LAMBDA s : ~Over(s)),
      Kept([s \in Streams |-> Len(push[s])], Streams, LAMBDA s : closed[s] /\ pc[s] \notin {"left", "done"}),
      Kept(opSite, Ops, LAMBDA o : opc[o] \in {"list", "delete"}),
      Kept(opAgent, Ops, LAMBDA o : opc[o] \in {"found", "send", "refresh", "reload", "relabel"}),
      Kept(opConn, Ops, LAMBDA o : opc[o] \in {"found", "send", "reload", "relabel"}),
      Kept(opRow, Ops, LAMBDA o : opc[o] = "relabel"),
      Kept(opMsg, Ops, LAMBDA o : opc[o] = "send")>>

=============================================================================
