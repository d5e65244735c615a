------------------------------ MODULE Delivery ------------------------------
(* What a chat service promises about one message: it is on its way, then kept
   for an addressee who is away, or handed over, or lost; what was handed over
   is never handed over again from a list, and what is lost stays lost.
   PeerChat and WebChat implement this specification.                        *)
CONSTANT Msg      \* the messages

VARIABLE fate     \* fate[m]: "unsent", "moving", "kept", "given" or "lost"

Init == fate = [m \in Msg |-> "unsent"]

(* One step of a service may change several messages: a list is cut or read, a
   process dies.                                                             *)
MayBecome(f) ==
  CASE f = "unsent" -> {"unsent", "moving", "given"}
    [] f = "moving" -> {"moving", "kept", "given", "lost"}
    [] f = "kept"   -> {"kept", "given", "lost"}
    [] f \in {"given", "lost"} -> {f}
    [] OTHER        -> {}

Next ==
  LET before == fate
      after == fate'
  IN  DOMAIN after = Msg /\ \A m \in Msg : after[m] \in MayBecome(before[m])

Spec == Init /\ [][Next]_fate
=============================================================================
