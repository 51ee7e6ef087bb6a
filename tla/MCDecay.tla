------------------------------ MODULE MCDecay ------------------------------
(***************************************************************************)
(* The kinds of items.xml in small: a ring that lasts only while it is     *)
(* worn, a claw that recovers, a torch that burns down, and a corpse whose *)
(* remains do not last.                                                    *)
(***************************************************************************)
EXTENDS Decay

MCKind == {"ring", "wornRing", "claw", "spentClaw", "torch", "stub", "corpse", "bones"}

MCDecayTime(k) ==
    CASE k = "wornRing" -> 2
      [] k \in {"spentClaw", "torch", "stub", "corpse", "bones"} -> 1
      [] OTHER -> 0

MCDecayTo(k) ==
    CASE k \in {"wornRing", "stub", "bones"} -> "nothing"
      [] k = "spentClaw" -> "claw"
      [] k = "torch" -> "stub"
      [] k = "corpse" -> "bones"
      [] OTHER -> "never"

MCStopTime(k) == k = "ring"
MCHolder(k) == k = "corpse"
MCInPlace(k, l) == Holder(k) = Holder(l)
MCMade == {"ring", "claw", "torch", "corpse"}

MCTurns ==
    {<<"ring", "wornRing">>, <<"wornRing", "ring">>,
     <<"claw", "spentClaw">>, <<"spentClaw", "claw">>}
===========================================================================
