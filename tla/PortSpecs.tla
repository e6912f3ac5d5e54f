------------------------------ MODULE PortSpecs ------------------------------
(***************************************************************************)
(* What handle_ports (engine/runtime/network.rs) makes of the port          *)
(* specifications of a container.  A specification is split at ":" into    *)
(* sides and a side at "-" into texts; a text is a number or NaN.          *)
(***************************************************************************)
EXTENDS Integers, Sequences

CONSTANTS NaN,  \* a text that does not parse as a number
          U32   \* how many values a u32 has

ASSUME PortConstants == U32 \in Nat \ {0} /\ NaN \notin Nat

Texts == 0..(U32 - 1) \cup {NaN}
Sides == Seq(Texts) \ {<<>>}

Ok(pairs)    == [result |-> "ok", pairs |-> pairs]
Refused      == [result |-> "error", pairs |-> <<>>]
Panics       == [result |-> "panic", pairs |-> <<>>]

Ranged(side)    == Len(side) > 1
Width(side)     == (side[2] - side[1]) % U32  \* release builds wrap
Pairs(lo, hi)   == [i \in 1..(IF hi < lo THEN 0 ELSE hi - lo + 1) |->
                        <<lo + i - 1, lo + i - 1>>]

\* Mutant: the sizes of the two ranges are not compared.
ParseOneUnequal(spec) ==
    IF Len(spec) # 2 THEN Refused
    ELSE CASE Ranged(spec[1]) /\ Ranged(spec[2]) ->
                IF \E s \in {1, 2}, i \in {1, 2} : spec[s][i] = NaN THEN Panics
                ELSE Ok(Pairs(spec[1][1], spec[1][2]))
           [] ~Ranged(spec[1]) /\ ~Ranged(spec[2]) ->
                Ok(<< <<spec[1][1], spec[2][1]>> >>)
           [] OTHER -> Refused

\* One specification.  A range is expanded with the host's numbers for both
\* sides; a single pair is taken as it is written.
ParseOne(spec) ==
    IF Len(spec) # 2 THEN Refused
    ELSE CASE Ranged(spec[1]) /\ Ranged(spec[2]) ->
                IF \E s \in {1, 2}, i \in {1, 2} : spec[s][i] = NaN THEN Panics
                ELSE IF Width(spec[1]) # Width(spec[2]) THEN Refused
                ELSE Ok(Pairs(spec[1][1], spec[1][2]))
           [] ~Ranged(spec[1]) /\ ~Ranged(spec[2]) ->
                Ok(<< <<spec[1][1], spec[2][1]>> >>)
           [] OTHER -> Refused

\* All of them, up to the first that is wrong.
HandlePorts(specs) ==
    LET after[n \in 0..Len(specs)] ==
            IF n = 0 THEN Ok(<<>>)
            ELSE LET sofar == after[n-1]
                     one   == ParseOne(specs[n])
                 IN  CASE sofar.result # "ok" -> sofar
                       [] sofar.result = "ok" /\ one.result # "ok" -> one
                       [] OTHER -> Ok(sofar.pairs \o one.pairs)
    IN  after[Len(specs)]

-----------------------------------------------------------------------------
(* What the documentation says of a specification: a pair, or two ranges of
   one size, which are matched number by number.                           *)
IsPair(spec)  == Len(spec) = 2 /\ Len(spec[1]) = 1 /\ Len(spec[2]) = 1
IsRange(spec) == /\ Len(spec) = 2 /\ Len(spec[1]) = 2 /\ Len(spec[2]) = 2
                 /\ \A s, i \in {1, 2} : spec[s][i] # NaN
                 /\ spec[1][2] - spec[1][1] = spec[2][2] - spec[2][1]

Meant(spec) == IF IsPair(spec) THEN {<<spec[1][1], spec[2][1]>>}
               ELSE {<<spec[1][1] + k, spec[2][1] + k>> :
                         k \in {j \in 0..U32 : spec[1][1] + j <= spec[1][2]}}
=============================================================================
