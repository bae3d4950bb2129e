------------------------------- MODULE GdpTable -------------------------------
(***************************************************************************)
(* The table that kenya-gdp/build_dataset.py computes from the raw files:  *)
(* an outer join of the indicators by year, and the columns derived from   *)
(* them.  A cell is the set of its values: {} is a blank, so the blank of  *)
(* an operand makes the result blank, as NaN does in pandas.               *)
(*                                                                         *)
(* Percentages are integers, Scale of them to a thousandth of a percent;   *)
(* quotients are exact until they are rounded.  The script computes with   *)
(* floats and rounds them with numpy (times 1000, rint, over 1000), so the *)
(* model keeps of a rounding what the floats leave certain: a cell of the  *)
(* CSV file is the set of the thousandths it may be.                       *)
(***************************************************************************)
EXTENDS Integers, Sequences, Functions

CONSTANTS
    C, G, I, FI, NX,   (* the indicators that columns are derived from        *)
    INDICATORS,        (* the sequence of all indicators                      *)
    LEVELS,            (* those that are sums of money, not percentages       *)
    Editions,          (* how often the World Bank publishes new figures      *)
    Published,         (* Published[e][c]: year -> value, without the nulls   *)
    ICSD,              (* year -> government and private investment           *)
    Scale,             (* units to a thousandth of a percent                  *)
    Noise              (* how many units the floats may be off when they are  *)
                       (* rounded                                             *)

Codes == Range(INDICATORS)
IcsdRow == [igov : Nat \ {0}, ipriv : Nat]

ASSUME TableAssumption ==
    /\ INDICATORS \in Seq(Codes)
    /\ {C, G, I, FI, NX} \subseteq Codes \ LEVELS
    /\ Editions \in Nat \ {0}
    /\ Scale \in Nat \ {0}
    /\ Noise \in Nat /\ 6 * Noise < Scale
    /\ \A e \in 1..Editions, c \in Codes : \A y \in DOMAIN Published[e][c] :
           y \in Nat /\ Published[e][c][y] \in Int
    /\ \A y \in DOMAIN ICSD : ICSD[y] \in IcsdRow

(* What a build loaded: an edition of each indicator, and whether the IMF's *)
(* file was there.                                                          *)
Source == [edition : [Codes -> 1..Editions], icsd : BOOLEAN]

-----------------------------------------------------------------------------
Observed(s, c) == Published[s.edition[c]][c]

TableYears(s) == UNION {DOMAIN Observed(s, c) : c \in Codes}

Cell(f, y) == {f[z] : z \in {y} \cap DOMAIN f}

Share(s, y) == IF s.icsd THEN Cell(ICSD, y) ELSE {}

(* The thousandths that n / w units may be rounded to: the nearest one,     *)
(* and both where the float may be on either side of the middle, or in it.  *)
Roundings(n, w) ==
    LET d == w * Scale
        reach == w * (Scale + 2 * Noise)
    IN {k \in (n \div d)..(n \div d) + 1 : 2 * (n - d * k) <= reach /\ 2 * (d * k - n) <= reach}

Percents(V) == UNION {Roundings(v, 1) : v \in V}

Identity(s, y) ==
    {c + g + i + x : c \in Cell(Observed(s, C), y), g \in Cell(Observed(s, G), y),
                     i \in Cell(Observed(s, I), y), x \in Cell(Observed(s, NX), y)}

(* The investment split, each part a numerator over Whole(h).               *)
Whole(h) == h.igov + h.ipriv
GovtPart(fixed, h) == fixed * h.igov

(* Mutant: the rest of fixed investment instead of total investment.        *)
MutantPrivatePart(total, fixed, h) == fixed * Whole(h) - GovtPart(fixed, h)

PrivatePart(total, fixed, h) == total * Whole(h) - GovtPart(fixed, h)

Govt(s, y) ==
    UNION {Roundings(GovtPart(f, h), Whole(h)) :
        f \in Cell(Observed(s, FI), y), h \in Share(s, y)}
Private(s, y) ==
    UNION {Roundings(PrivatePart(i, f, h), Whole(h)) :
        i \in Cell(Observed(s, I), y), f \in Cell(Observed(s, FI), y), h \in Share(s, y)}
GovtCPlusI(s, y) ==
    UNION {Roundings(g * Whole(h) + GovtPart(f, h), Whole(h)) :
        g \in Cell(Observed(s, G), y), f \in Cell(Observed(s, FI), y), h \in Share(s, y)}

(* A row of the CSV file, its percentages rounded one by one.               *)
Row(s, y) ==
    [given       |-> [c \in Codes |-> LET V == Cell(Observed(s, c), y)
                                      IN IF c \in LEVELS THEN V ELSE Percents(V)],
     identity    |-> Percents(Identity(s, y)),
     discrepancy |-> Percents({100000 * Scale - v : v \in Identity(s, y)}),
     share       |-> UNION {Roundings(10000 * h.igov * Scale, Whole(h)) : h \in Share(s, y)},
     govt        |-> Govt(s, y),
     private     |-> Private(s, y),
     govtCPlusI  |-> GovtCPlusI(s, y)]
=============================================================================
