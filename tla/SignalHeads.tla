----------------------------- MODULE SignalHeads -----------------------------
(***************************************************************************)
(* The signal heads of src/app/signals.c, operators on the state of the    *)
(* node, a record `n` with the fields                                      *)
(*   aspect[h]   the aspect of head h                                      *)
(*   enabled[h]  as last applied                                           *)
(*   flash       the flash timer runs                                      *)
(*   lit         flashing heads are in the lit half                        *)
(*   pixel[h]    the lamp chip h of the chain is set to light, or "none"   *)
(* A lamp is named as the aspects it shows are; its brightness and the     *)
(* outputs of the chip it is wired to are left out.                        *)
(***************************************************************************)
EXTENDS EventExchange

CONSTANT H   \* number of heads

ASSUME HeadAssumption == H \in Nat \ {0}

Heads == 1..H

\* aspects[].lamp
Lamp == [dark |-> "none", red |-> "red", yellow |-> "yellow", green |-> "green",
         lunar |-> "lunar", s |-> "s", d |-> "d", number |-> "number",
         flashing_red |-> "red", flashing_yellow |-> "yellow", flashing_green |-> "green"]

\* CONFIG_ASPECT_*, in their order
Aspect == <<"dark", "red", "yellow", "green", "lunar", "s", "d", "number",
            "flashing_red", "flashing_yellow", "flashing_green">>
Aspects == DOMAIN Lamp
Flashing(a) == a \in {"flashing_red", "flashing_yellow", "flashing_green"}

\* The configuration of a head
HeadConfig(Events) ==
  [enabled : BOOLEAN, power_on_aspect : Aspects, lamps : SUBSET {Lamp[a] : a \in Aspects},
   aspect_events : [Aspects -> Events]]

\* What chip h should light now
Shown(n, h, lamps) ==
  LET lamp == Lamp[n.aspect[h]]
  IN  IF lamp \in lamps /\ (~Flashing(n.aspect[h]) \/ n.lit) THEN lamp ELSE "none"

\* show_head
ShowHead(n, config, h) == [n EXCEPT !.pixel[h] = Shown(n, h, config[h].lamps)]
ShowHeads(n, config, heads) ==
  [n EXCEPT !.pixel = [h \in Heads |-> IF h \in heads THEN Shown(n, h, config[h].lamps) ELSE @[h]]]

\* A bug to catch: each head that starts to flash starts lit
LitAnew(n) ==
  LET flashing == \E h \in Heads : Flashing(n.aspect[h])
  IN  [n EXCEPT !.flash = flashing, !.lit = @ \/ flashing]

\* update_flash_timer: the first head to flash starts lit, the others join in
UpdateFlashTimer(n) ==
  LET flashing == \E h \in Heads : Flashing(n.aspect[h])
  IN  [n EXCEPT !.flash = flashing, !.lit = @ \/ (flashing /\ ~n.flash)]

\* flash_tick, which may find no head flashing any more
FlashTick(n, config) ==
  ShowHeads([n EXCEPT !.lit = ~@], config, {h \in Heads : Flashing(n.aspect[h])})

\* on_aspect
OnAspect(n, config, h, a) == ShowHead(UpdateFlashTimer([n EXCEPT !.aspect[h] = a]), config, h)

\* can_show
CanShow(c, a) == a = "dark" \/ Lamp[a] \in c.lamps

\* The event for aspect a of head h: only aspects an enabled head can show are on
\* the bus
EventOf(config, h, a) ==
  IF config[h].enabled /\ CanShow(config[h], a) THEN config[h].aspect_events[a] ELSE NoEvent

\* apply_config: a head being enabled starts on its power-on aspect
ApplyConfig(n, config) ==
  LET aspect(h) == IF config[h].enabled = n.enabled[h] THEN n.aspect[h]
                   ELSE IF config[h].enabled THEN config[h].power_on_aspect ELSE "dark"
      applied   == [n EXCEPT !.aspect = [h \in Heads |-> aspect(h)],
                             !.enabled = [h \in Heads |-> config[h].enabled]]
  IN  ShowHeads(UpdateFlashTimer(applied), config, Heads)
=============================================================================
