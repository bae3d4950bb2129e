------------------------------ MODULE MCKenyaGdp ------------------------------
(***************************************************************************)
(* KenyaGdp for TLC.  Four files are enough for every way to mix them; one *)
(* of them plays both kinds of consumption.  Consumption begins before     *)
(* investment, the split covers some of the years, and the values end in   *)
(* halves of a thousandth, where a rounding can go either way; floats may  *)
(* be off by a tenth of a thousandth, far more than they are.  The second  *)
(* edition revises the figures, in one year to a sum of 99.9995 percent.   *)
(***************************************************************************)
EXTENDS KenyaGdp, TLC

CONSTANTS con, inv, fix, net

MCIndicators == <<con, inv, fix, net>>

Shipped ==
    (con :> (1963 :> 414710 @@ 1970 :> 382625 @@ 2019 :> 441345))
 @@ (inv :> (1970 :> 244035 @@ 2019 :> 190545))
 @@ (fix :> (1970 :> 196905 @@ 2019 :> 186055))
 @@ (net :> (1963 :> 30700 @@ 1970 :> -9985 @@ 2019 :> -83605))
Revised ==
    (con :> (1963 :> 414715 @@ 1970 :> 382635 @@ 2020 :> 440625))
 @@ (inv :> (1970 :> 244045 @@ 2020 :> 164825))
 @@ (fix :> (1970 :> 196915 @@ 2020 :> 175655))
 @@ (net :> (1963 :> 30705 @@ 1970 :> -9320 @@ 2020 :> -62965))

MCPublished == <<Shipped, Revised>>

MCIcsd == (1970 :> [igov |-> 3, ipriv |-> 7]) @@ (2019 :> [igov |-> 11, ipriv |-> 9])
=============================================================================
