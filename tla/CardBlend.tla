------------------------------ MODULE CardBlend ------------------------------
(* The cards of an agent, from the commands that assign them to the          *)
(* configuration the engine blends out of them: one primary card and up to   *)
(* two modifiers, seven parts to three.                                      *)
(*                                                                          *)
(* Numbers are fixed-point: temperatures in hundredths, half-lives in tenths *)
(* of a day; the cards' own numbers and relations are constants.             *)
EXTENDS Integers, Sequences

CONSTANTS None,
          Cards, WORLD,  \* WORLD is the reserved card
          Temperature,   \* default_temperature of each card
          HalfLife,      \* a half-life of each card, or None
          Default,       \* the system's half-life
          TensionCards,  \* tension_cards of each card
          MAX_MODIFIERS

(* At most two modifiers; no card states a tension with itself. *)
ConstantsFit ==
    /\ WORLD \in Cards /\ None \notin Cards /\ MAX_MODIFIERS \in 0..2
    /\ Temperature \in [Cards -> Nat] /\ HalfLife \in [Cards -> Nat \cup {None}] /\ Default \in Nat
    /\ TensionCards \in [Cards -> SUBSET Cards] /\ \A c \in Cards : c \notin TensionCards[c]

VARIABLES card, modifiers,   \* the record of the agent; card = None before it exists
          config             \* what resolve() gave

vars == <<card, modifiers, config>>

Modifiers == {modifiers[i] : i \in DOMAIN modifiers}
Participants == {card} \cup Modifiers

-----------------------------------------------------------------------------
(* CardEngine: weights in two hundredths. *)

ModWeight(n) == 60 \div n

Round(x) == (x + 100) \div 200

(* The seven-to-three blend of the values v of the cards; resolve() takes    *)
(* two modifiers at most. *)
Share(v, i) == IF i \in DOMAIN modifiers THEN ModWeight(Len(modifiers)) * v[modifiers[i]] ELSE 0
Blend(v) == IF modifiers = <<>> THEN v[card] ELSE Round(140 * v[card] + Share(v, 1) + Share(v, 2))

(* Mutant: a half-life that is not set counts as none. *)
OrZero == [c \in Cards |-> IF HalfLife[c] = None THEN 0 ELSE HalfLife[c]]

(* `or default`; a card without modifiers keeps its None, which              *)
(* resolve_decay_profiles turns into the same default. *)
Days == [c \in Cards |-> IF HalfLife[c] = None THEN Default ELSE HalfLife[c]]

(* The pairs of positions in the full card set, the earlier first. *)
Pairs(all) == {p \in (DOMAIN all) \X (DOMAIN all) : p[1] < p[2]}
Before(p, q) == p[1] < q[1] \/ (p[1] = q[1] /\ p[2] < q[2])

(* Mutants: the same two cards at other positions are another pair; a        *)
(* tension counts only as the first card states it. *)
EveryPair(all, p) == TRUE
OneWay(a, b) == b \in TensionCards[a]

(* `if pair in seen: continue`, where pair is the set of the two. *)
Unseen(all, p) ==
    \A q \in Pairs(all) : Before(q, p) => {all[q[1]], all[q[2]]} # {all[p[1]], all[p[2]]}
Clash(a, b) == b \in TensionCards[a] \/ a \in TensionCards[b]

(* check_compatibility: the positions of the tensions it lists. *)
Tensions(all) == {p \in Pairs(all) : Unseen(all, p) /\ Clash(all[p[1]], all[p[2]])}

Resolve ==
    /\ card # None /\ config = None
    /\ Len(modifiers) <= MAX_MODIFIERS
    /\ config' = [temperature |-> Blend(Temperature), days |-> Blend(Days),
                  tensions |-> Tensions(<<card>> \o modifiers)]
    /\ UNCHANGED <<card, modifiers>>

-----------------------------------------------------------------------------
(* The commands. *)

Init == card = None /\ modifiers = <<>> /\ config = None

Assign(c, ms) == card' = c /\ modifiers' = ms /\ config' = None

(* Mutant: the picker of the modifiers shows the reserved card. *)
OfferedAll(c) == Cards \ {c}

(* `exclude`, and the filter behind it. *)
Offered(c) == Cards \ {c, WORLD}

(* Mutant: resolve() accepts one more. *)
NoLimit == MAX_MODIFIERS + 1
Limit == MAX_MODIFIERS

(* select_cards.  Without a terminal the list is typed: a card may be named   *)
(* twice, and a list past the limit is refused by resolve(), before either   *)
(* command saves the record. *)
Picks(c) == UNION {[1..n -> Offered(c)] : n \in 0..Limit}

Create ==
    /\ card = None
    /\ \E c \in Cards \ {WORLD} : \E ms \in Picks(c) : Assign(c, ms)

(* `agent edit` with the picker: the modifiers may be left as they are. *)
Edit ==
    /\ card # None
    /\ \E c \in Cards \ {WORLD} : \E ms \in Picks(c) \cup {modifiers} : Assign(c, ms)
(* `agent edit --card`. *)
EditFlag ==
    /\ card # None
    /\ \E c \in Cards : Assign(c, modifiers)

Next == Create \/ Edit \/ EditFlag \/ Resolve
Spec == Init /\ [][Next]_vars

-----------------------------------------------------------------------------
(* What a card by itself remembers. *)
Alone == [c \in Cards |-> IF HalfLife[c] = None THEN Default ELSE HalfLife[c]]
Between(x, v) == \E low, high \in Participants : v[low] <= x /\ x <= v[high]

(* Types of the state; a record never holds more modifiers than resolve()    *)
(* accepts, so that the agent it describes can be built. *)
TypeOK ==
    /\ card \in Cards \cup {None}
    /\ modifiers \in Seq(Cards) /\ Len(modifiers) <= MAX_MODIFIERS
    /\ config # None => config.tensions \subseteq (1..3) \X (1..3)

(* A blend lies between the cards it is made of, whichever of them leave a   *)
(* half-life to the default. *)
InHull ==
    config # None =>
        Between(config.temperature, Temperature) /\ Between(config.days, Alone)

(* The tensions shown are those of the set of cards, each once and whichever *)
(* of the two cards states it. *)
TensionsOnce ==
    config # None =>
        LET all == <<card>> \o modifiers
            shown == config.tensions
            tense == {p \in Participants \X Participants : p[1] # p[2] /\ p[2] \in TensionCards[p[1]]}
        IN  /\ {{all[p[1]], all[p[2]]} : p \in shown} = {{p[1], p[2]} : p \in tense}
            /\ \A p, q \in shown : {all[p[1]], all[p[2]]} = {all[q[1]], all[q[2]]} => p = q

(* The reserved card, whose half-lives are placeholders, is blended into no  *)
(* other. *)
WorldApart == card # None => WORLD \notin Modifiers

BlendHolds == TypeOK /\ InHull /\ TensionsOnce /\ WorldApart

(* The primary card is not among its own modifiers. *)
NoSelfBlend == card \notin Modifiers
=============================================================================
